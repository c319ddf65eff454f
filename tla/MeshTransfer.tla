---------------------------- MODULE MeshTransfer ----------------------------
(***************************************************************************)
(* discovery/mesh: a node that offers a file chunk by chunk, one           *)
(* connection each, to a peer it found by mDNS or was told of, and the     *)
(* node that collects the chunks.  Every connection has a handler thread   *)
(* of its own, so chunks arrive in any order.  The receiving node may be   *)
(* stopped and replaced by a new one (the mesh switch of the window) while *)
(* handlers of the old one run, the file may be saved between two reads,   *)
(* and the user may offer it again under the same transfer id.             *)
(***************************************************************************)
EXTENDS Integers, Sequences, FiniteSets, Functions

CONSTANTS SizeOf,        \* chunks of each version of the file
          IdLength,      \* bytes of the transfer id
          MaxOffers,     \* bound: calls of offer_file_mesh
          MaxNodes,      \* bound: receiving nodes started one after the other
          MaxEvents      \* bound: mDNS events that wait

ASSUME MeshAssumption ==
    /\ SizeOf \in Seq(Nat) /\ SizeOf # <<>>
    /\ IdLength \in Nat /\ MaxOffers \in Nat /\ MaxNodes \in Nat \ {0} /\ MaxEvents \in Nat

Versions == DOMAIN SizeOf
Sizes == {SizeOf[v] : v \in Versions}
Indexes == UNION {0..(n - 1) : n \in Sizes}
Pieces == (Versions \cup {0}) \X Indexes   \* version 0: read past the end, empty
PeerIds == {"mdns", "manual"}
NodeIds == 1..MaxNodes
NoJob == [total |-> -1]
NoOffer == [n |-> 0]

VARIABLES
    version,    \* of the file that is offered
    offer,      \* the running offer_file_mesh, or NoOffer
    offers,     \* offers begun
    peers,      \* ids in the sender's peer table
    known,      \* the listener's _known holds the receiver
    announced,  \* the receiver's service is registered
    events,     \* mDNS events the browser thread has not handled
    node,       \* the receiving node of the moment
    running,    \* its _running
    job,        \* each node's TransferJob, or NoJob
    handlers,   \* handler threads: waiting for the chunk, or past the look-up
    done        \* each node's calls of on_transfer_complete before a second offer

sending   == <<version, offer, offers>>
discovery == <<peers, known, announced, events>>
receiving == <<node, running, job>>
meshVars == <<sending, discovery, receiving, handlers, done>>

Offers == [n : 1..MaxOffers, total : Sizes, i : Nat, to : PeerIds]
Jobs == [total : Sizes, got : UNION {[S -> Pieces] : S \in SUBSET Indexes}, complete : BOOLEAN]
Handlers == [n : 1..MaxOffers, i : Indexes, piece : Pieces, node : NodeIds, ready : BOOLEAN]

MeshTypeOK ==
    /\ version \in Versions /\ offers \in 0..MaxOffers
    /\ offer \in Offers \cup {NoOffer} /\ (offer # NoOffer => offer.i <= offer.total)
    /\ peers \subseteq PeerIds /\ known \in BOOLEAN /\ announced \in BOOLEAN
    /\ events \in Seq({"add", "remove"}) /\ Len(events) <= MaxEvents
    /\ node \in NodeIds /\ running \in BOOLEAN
    /\ job \in [NodeIds -> Jobs \cup {NoJob}] /\ handlers \subseteq Handlers
    /\ done \in [NodeIds -> Seq(Seq(Pieces))]

MeshInit ==
    /\ version = 1 /\ offer = NoOffer /\ offers = 0
    /\ peers = {} /\ known = FALSE /\ announced = FALSE /\ events = <<>>
    /\ node = 1 /\ running = FALSE /\ job = [k \in NodeIds |-> NoJob]
    /\ handlers = {} /\ done = [k \in NodeIds |-> <<>>]

-----------------------------------------------------------------------------
(* Peers. *)

AddPeer(id) == peers' = peers \cup {id}
RemovePeer(id) == peers' = peers \ {id}

\* the receiver registers its service ...
Register ==
    /\ Len(events) < MaxEvents
    /\ announced' = TRUE /\ events' = Append(events, "add") /\ UNCHANGED <<peers, known>>

\* ... and unregisters it, if it did
Unregister ==
    /\ announced => Len(events) < MaxEvents
    /\ announced' = FALSE /\ events' = IF announced THEN Append(events, "remove") ELSE events
    /\ UNCHANGED <<peers, known>>

\* add_service, update_service: the service may not resolve any more
ServiceAdded ==
    /\ events # <<>> /\ Head(events) = "add" /\ events' = Tail(events)
    /\ \/ known' = TRUE /\ AddPeer("mdns")
       \/ UNCHANGED <<known, peers>>
    /\ UNCHANGED <<announced, sending, receiving, handlers, done>>

\* remove_service: a peer the listener knows is taken from the table
ServiceRemoved ==
    /\ events # <<>> /\ Head(events) = "remove" /\ events' = Tail(events)
    /\ IF known THEN RemovePeer("mdns") ELSE UNCHANGED peers
    /\ known' = FALSE
    /\ UNCHANGED <<announced, sending, receiving, handlers, done>>

\* _on_mesh_peer_add
AddManualPeer ==
    /\ AddPeer("manual")
    /\ UNCHANGED <<known, announced, events, sending, receiving, handlers, done>>

-----------------------------------------------------------------------------
(* The receiving node. *)

\* start: the port is bound (if it is taken the node is thrown away)
Listen == running' = TRUE

\* start_discovery; without zeroconf, or if it fails, peers are added by hand
StartDiscovery == Register \/ UNCHANGED discovery

\* the switch is turned on: a node without peers or jobs
StartNode ==
    /\ ~running /\ (job[node] = NoJob \/ node < MaxNodes)
    /\ node' = IF job[node] = NoJob THEN node ELSE node + 1
    /\ Listen /\ StartDiscovery
    /\ UNCHANGED <<sending, job, handlers, done>>

\* ... and off; the handlers go on
StopNode ==
    /\ running /\ Unregister /\ running' = FALSE
    /\ UNCHANGED <<sending, node, job, handlers, done>>

\* the application enters the job it expects
Expect ==
    /\ running /\ job[node] = NoJob
    /\ job' = [job EXCEPT ![node] = [total |-> SizeOf[version], got |-> <<>>, complete |-> FALSE]]
    /\ UNCHANGED <<sending, discovery, node, running, handlers, done>>

\* _handle ends before the chunk is read: the connection breaks or 15 s pass
LoseChunk(h) ==
    /\ h \in handlers /\ ~h.ready /\ handlers' = handlers \ {h}
    /\ UNCHANGED <<sending, discovery, receiving, done>>

\* a fragment has eight bytes for the id: a longer one arrives as another
IdKept == IdLength <= 8

\* _handle_data up to the end of its first lock: no job of that id, no chunk
LookUpJob(h) ==
    /\ h \in handlers /\ ~h.ready
    /\ handlers' = IF job[h.node] = NoJob \/ ~IdKept THEN handlers \ {h}
                   ELSE (handlers \ {h}) \cup {[h EXCEPT !.ready = TRUE]}
    /\ UNCHANGED <<sending, discovery, receiving, done>>

\* job.received_chunks[idx] = data
WithChunk(h, got) ==
    [i \in DOMAIN got \cup {h.i} |-> IF i = h.i THEN h.piece ELSE got[i]]

\* the chunks in the order of their indexes
InOrder(got) == [k \in 1..Cardinality(DOMAIN got) |->
                    got[CHOOSE i \in DOMAIN got : Cardinality({j \in DOMAIN got : j < i}) = k - 1]]

\* Mutant: the job is complete when its last chunk comes.
StoreLast(h) ==
    LET got == WithChunk(h, job[h.node].got)
        full == h.i = job[h.node].total - 1
    IN /\ h \in handlers /\ h.ready /\ handlers' = handlers \ {h}
       /\ job' = [job EXCEPT ![h.node].got = got, ![h.node].complete = full \/ @]
       /\ done' = IF full /\ offers = 1 THEN [done EXCEPT ![h.node] = Append(@, InOrder(got))] ELSE done
       /\ UNCHANGED <<sending, discovery, node, running>>

\* Mutant: the chunks are counted before this one is stored.
StoreLate(h) ==
    LET got == WithChunk(h, job[h.node].got)
        full == Cardinality(DOMAIN job[h.node].got) = job[h.node].total
    IN /\ h \in handlers /\ h.ready /\ handlers' = handlers \ {h}
       /\ job' = [job EXCEPT ![h.node].got = got, ![h.node].complete = full \/ @]
       /\ done' = IF full /\ offers = 1 THEN [done EXCEPT ![h.node] = Append(@, InOrder(got))] ELSE done
       /\ UNCHANGED <<sending, discovery, node, running>>

\* _handle_data, second lock: a repeated chunk replaces the first, and a job
\* that has as many chunks as it expects calls back, each time again
Store(h) ==
    LET got == WithChunk(h, job[h.node].got)
        full == Cardinality(DOMAIN got) = job[h.node].total
    IN /\ h \in handlers /\ h.ready /\ handlers' = handlers \ {h}
       /\ job' = [job EXCEPT ![h.node].got = got, ![h.node].complete = full \/ @]
       /\ done' = IF full /\ offers = 1 THEN [done EXCEPT ![h.node] = Append(@, InOrder(got))] ELSE done
       /\ UNCHANGED <<sending, discovery, node, running>>

-----------------------------------------------------------------------------
(* The sending node. *)

\* the user saves the file
EditFile ==
    /\ version < Len(SizeOf) /\ version' = version + 1
    /\ UNCHANGED <<offer, offers, discovery, receiving, handlers, done>>

\* offer_file_mesh: the chunks are counted before any is read
Offer(to) ==
    /\ offer = NoOffer /\ offers < MaxOffers /\ to \in peers
    /\ offers' = offers + 1
    /\ offer' = [n |-> offers + 1, total |-> SizeOf[version], i |-> 0, to |-> to]
    /\ UNCHANGED <<version, discovery, receiving, handlers, done>>

\* _accept_loop: a thread for the connection
Handler(piece) == [n |-> offer.n, i |-> offer.i, piece |-> piece, node |-> node, ready |-> FALSE]

\* what the file holds at the place of the next chunk: nothing, past its end
NextPiece == <<IF offer.i < SizeOf[version] THEN version ELSE 0, offer.i>>

\* the next chunk is read and sent; whether it was sent is not looked at: the
\* peer may have left the table, or be out of reach at both attempts
SendChunk ==
    /\ offer # NoOffer /\ offer.i < offer.total
    /\ offer' = [offer EXCEPT !.i = @ + 1]
    /\ \/ offer.to \in peers /\ running /\ handlers' = handlers \cup {Handler(NextPiece)}
       \/ UNCHANGED handlers
    /\ UNCHANGED <<version, offers, discovery, receiving, done>>

OfferEnds ==
    /\ offer # NoOffer /\ offer.i = offer.total /\ offer' = NoOffer
    /\ UNCHANGED <<version, offers, discovery, receiving, handlers, done>>

MeshNext ==
    \/ ServiceAdded \/ ServiceRemoved \/ AddManualPeer
    \/ StartNode \/ StopNode \/ Expect
    \/ \E h \in handlers : LoseChunk(h) \/ LookUpJob(h) \/ Store(h)
    \/ EditFile \/ SendChunk \/ OfferEnds \/ \E to \in PeerIds : Offer(to)

\* A handler that has its chunk goes on.
MeshSpec == MeshInit /\ [][MeshNext]_meshVars /\ WF_meshVars(\E h \in handlers : Store(h))

-----------------------------------------------------------------------------
(* Properties. *)

Whole(v) == [k \in 1..SizeOf[v] |-> <<v, k - 1>>]

\* A node that was offered the file once calls back at most once, and if the
\* file was not saved meanwhile and has the size the node expects, with the
\* whole of it, its chunks in order, whatever came first or was lost.  Only a
\* second offer under the same id completes a job again (mesh_network.py:360-380,
\* 245-272).
OneOfferIsExact ==
    \A k \in NodeIds :
        /\ Len(done[k]) <= 1
        /\ \A data \in Range(done[k]), v \in Versions :
              (job[k].total = SizeOf[v] /\ Range(data) \subseteq {v} \X Indexes) => data = Whole(v)

\* every chunk of the job of k is stored or with a handler past the look-up
AllHere(k) ==
    job[k] # NoJob /\ job[k].total > 0 /\ \A i \in 0..(job[k].total - 1) :
        i \in DOMAIN job[k].got \/ \E h \in handlers : h.node = k /\ h.ready /\ h.i = i

\* A job of which every chunk has come is completed, unless chunks of a larger
\* version came as well (mesh_network.py:371-380).
CompleteWhenAllHere ==
    \A k \in NodeIds : AllHere(k) ~> (job[k] # NoJob /\
        (job[k].complete \/ \E i \in DOMAIN job[k].got : i >= job[k].total))
=============================================================================
