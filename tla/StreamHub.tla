----------------------------- MODULE StreamHub -----------------------------
(***************************************************************************)
(* stream.py: the fan-out of encoded MP3 to the listening players, and the *)
(* life of one connection of the raw HTTP server.                          *)
(*                                                                         *)
(* Everything runs on the event loop, so one step is what one coroutine    *)
(* does between two awaits.  A chunk is its number in the encoder's output;*)
(* what the properties need of its bytes is their size, and whether an MP3 *)
(* sync word is among them.  The encoder's first chunk starts with one.  A *)
(* later chunk is cut out of the stream wherever the encoder's buffer ends:*)
(* bytes of an earlier frame may come before its first sync word, and it   *)
(* may hold none at all, though no more than MaxUnsynced chunks in a row   *)
(* do.                                                                     *)
(***************************************************************************)
EXTENDS Naturals, Sequences, SequencesExt

CONSTANTS
  Listeners,      (* connections, each of them reused once it is closed    *)
  Sizes,          (* sizes of chunks                                       *)
  MaxBuffer,      (* max_buffer_bytes                                      *)
  PrerollChunks,  (* PREROLL_CHUNKS                                        *)
  MaxUnsynced,    (* chunks in a row without a sync word, at most          *)
  MaxChunks       (* bound: chunks the encoder makes                       *)

ASSUME HubAssumption ==
  /\ IsFiniteSet(Listeners)
  /\ Sizes \subseteq Nat \ {0}
  /\ MaxBuffer \in Nat
  /\ PrerollChunks \in Nat \ {0}
  /\ MaxUnsynced \in Nat
  /\ MaxChunks \in Nat

(* A chunk is worth four frames, and the preroll ten chunks: there is a    *)
(* sync word in it.                                                        *)
ASSUME SyncAssumption == MaxUnsynced < PrerollChunks

VARIABLES
  chunks,    (* the sizes of the encoder's output so far                   *)
  unsynced,  (* the numbers of the chunks without a sync word              *)
  preroll,   (* the numbers of the last chunks                             *)
  attached,  (* the listeners in _buffered                                 *)
  queue,     (* listener -> its queue of chunk numbers                     *)
  buffered,  (* _buffered: the bytes in it, as they are accounted          *)
  realign,   (* _realign                                                   *)
  dropped,   (* dropped_chunks                                             *)
  discarded, (* history: chunks that consume() has thrown away             *)
  conn,      (* connection -> where its handler is                         *)
  client,    (* connection -> whether its client has sent more, or closed  *)
  sent       (* connection -> the pieces of chunks written to it           *)

outputVars == <<chunks, unsynced>>
hubVars == <<preroll, attached, queue, buffered, realign, dropped, discarded>>
vars == <<outputVars, hubVars, conn, client, sent>>

(* What starts with a sync word as it comes from the encoder.              *)
Aligned(n) == n = 1

Init ==
  /\ chunks = <<>>
  /\ unsynced = {}
  /\ preroll = <<>>
  /\ attached = {}
  /\ queue = [l \in Listeners |-> <<>>]
  /\ buffered = [l \in Listeners |-> 0]
  /\ realign = {}
  /\ dropped = 0
  /\ discarded = 0
  /\ conn = [l \in Listeners |-> "closed"]
  /\ client = [l \in Listeners |-> "listening"]
  /\ sent = [l \in Listeners |-> <<>>]

(* The last k elements of s.                                               *)
Newest(s, k) == SubSeq(s, IF Len(s) > k THEN Len(s) - k + 1 ELSE 1, Len(s))

Bytes(cs, q) ==
  LET sum[i \in 0 .. Len(q)] == IF i = 0 THEN 0 ELSE sum[i - 1] + cs[q[i]]
  IN sum[Len(q)]

----------------------------------------------------------------------------
(* publish(): append, then drop the oldest while the buffer is over its    *)
(* bound and more than one chunk is queued.                                *)
(* Mutation: a single chunk is dropped at most.                            *)
OverflowOnce(total, q, cs) == IF total > MaxBuffer /\ Len(q) > 1 THEN 1 ELSE 0

(* Mutation: the last chunk of the queue is dropped too.                   *)
OverflowEmpties(total, q, cs) ==
  Min({k \in 0 .. Len(q) : total - Bytes(cs, SubSeq(q, 1, k)) <= MaxBuffer})

Overflow(total, q, cs) ==
  Min({k \in 0 .. Len(q) - 1 :
         total - Bytes(cs, SubSeq(q, 1, k)) <= MaxBuffer \/ k = Len(q) - 1})

(* What one publish() adds to dropped_chunks.                              *)
(* Mutation: one, however many listeners lost something.                   *)
CountedOnce(drops) == IF \E l \in DOMAIN drops : drops[l] > 0 THEN 1 ELSE 0

Counted(drops) == MapThenSumSet(LAMBDA l : drops[l], DOMAIN drops)

(* One of the chunks just before the next one has a sync word.             *)
SyncIsRecent ==
  \E i \in 1 .. MaxUnsynced : i <= Len(chunks) /\ Len(chunks) + 1 - i \notin unsynced

Publish ==
  /\ Len(chunks) < MaxChunks
  /\ \/ UNCHANGED unsynced
     \/ SyncIsRecent /\ unsynced' = unsynced \cup {Len(chunks) + 1}
  /\ \E size \in Sizes :
       /\ chunks' = Append(chunks, size)
       /\ LET new      == Len(chunks')
              extended == [l \in attached |-> Append(queue[l], new)]
              total    == [l \in attached |-> buffered[l] + size]
              drops    == [l \in attached |-> Overflow(total[l], extended[l], chunks')]
              left(l)  == SubSeq(extended[l], drops[l] + 1, Len(extended[l]))
              lost(l)  == Bytes(chunks', SubSeq(extended[l], 1, drops[l]))
          IN /\ preroll' = Newest(Append(preroll, new), PrerollChunks)
             /\ queue' = [l \in Listeners |->
                            IF l \in attached THEN left(l) ELSE queue[l]]
             /\ buffered' = [l \in Listeners |->
                               IF l \in attached THEN total[l] - lost(l) ELSE buffered[l]]
             /\ realign' = realign \cup {l \in attached : drops[l] > 0}
             /\ dropped' = dropped + Counted(drops)
  /\ UNCHANGED <<attached, discarded, conn, client, sent>>

----------------------------------------------------------------------------
(* One connection.                                                         *)

(* A piece of a chunk on the wire: all of it, or what follows the first    *)
(* sync word.                                                              *)
Piece(n, cut) == [chunk |-> n, cut |-> cut]

(* preroll_burst(): from the first sync word on.                           *)
Burst ==
  LET synced == {i \in DOMAIN preroll : preroll[i] \notin unsynced}
      first  == Min(synced)
  IN IF synced = {} THEN <<>>
     ELSE [i \in 1 .. Len(preroll) - first + 1 |-> Piece(preroll[first + i - 1], i = 1)]

Connect(l) ==
  /\ conn[l] = "closed"
  /\ conn' = [conn EXCEPT ![l] = "request"]
  /\ UNCHANGED <<outputVars, hubVars, client, sent>>

(* Garbage, a client that is gone, or ten seconds without a request.       *)
Refuse(l) ==
  /\ conn[l] = "request"
  /\ conn' = [conn EXCEPT ![l] = "closed"]
  /\ client' = [client EXCEPT ![l] = "listening"]
  /\ UNCHANGED <<outputVars, hubVars, sent>>

(* The request is read: attach(), then the preroll, with no await between  *)
(* them.                                                                   *)
Greet(l) ==
  /\ conn[l] = "request"
  /\ attached' = attached \cup {l}
  /\ sent' = [sent EXCEPT ![l] = Burst]
  /\ conn' = [conn EXCEPT ![l] = IF Burst = <<>> THEN "waiting" ELSE "burst"]
  /\ UNCHANGED <<outputVars, preroll, queue, buffered, realign, dropped, discarded, client>>

(* drain() returns: after the preroll, or after a chunk of the pump.       *)
Drained(l) ==
  /\ conn[l] \in {"burst", "writing"}
  /\ conn' = [conn EXCEPT ![l] = "waiting"]
  /\ UNCHANGED <<outputVars, hubVars, client, sent>>

(* _pump: take a chunk off the queue and consume() it.  A chunk without a  *)
(* sync word is of no use to a player that has to be realigned: it is      *)
(* thrown away, and the pump waits for the next one.                       *)
Take(l) ==
  /\ conn[l] = "waiting" /\ queue[l] # <<>>
  /\ queue' = [queue EXCEPT ![l] = Tail(@)]
  /\ buffered' = [buffered EXCEPT ![l] = @ - chunks[Head(queue[l])]]

(* Mutation: the chunk is written from its first byte on.                  *)
PumpNoRealign(l) ==
  /\ Take(l)
  /\ realign' = realign \ {l}
  /\ sent' = [sent EXCEPT ![l] = Append(@, Piece(Head(queue[l]), FALSE))]
  /\ conn' = [conn EXCEPT ![l] = "writing"]
  /\ UNCHANGED <<outputVars, preroll, attached, dropped, discarded, client>>

Pump(l) ==
  /\ Take(l)
  /\ IF l \in realign /\ Head(queue[l]) \in unsynced
     THEN /\ discarded' = discarded + 1
          /\ UNCHANGED <<realign, sent, conn>>
     ELSE /\ realign' = realign \ {l}
          /\ sent' = [sent EXCEPT ![l] = Append(@, Piece(Head(queue[l]), l \in realign))]
          /\ conn' = [conn EXCEPT ![l] = "writing"]
          /\ UNCHANGED discarded
  /\ UNCHANGED <<outputVars, preroll, attached, dropped, client>>

(* detach(), on the way out of the handler.                                *)
(* Mutation: the mark to realign is left behind.                           *)
DetachKeepsMark(l) ==
  /\ attached' = attached \ {l}
  /\ queue' = [queue EXCEPT ![l] = <<>>]
  /\ buffered' = [buffered EXCEPT ![l] = 0]
  /\ UNCHANGED realign

Detach(l) ==
  /\ attached' = attached \ {l}
  /\ queue' = [queue EXCEPT ![l] = <<>>]
  /\ buffered' = [buffered EXCEPT ![l] = 0]
  /\ realign' = realign \ {l}

(* The client's end is seen: drain() raises during the preroll; afterwards *)
(* the read of the wait ends, whatever the pump is doing, and it ends in   *)
(* the same way when the client sends anything.                            *)
(* Mutation: only a write that fails tells.                                *)
EndOnWrite(l) ==
  /\ conn[l] \in {"burst", "writing"} /\ client[l] = "gone"
  /\ Detach(l)
  /\ conn' = [conn EXCEPT ![l] = "closed"]
  /\ client' = [client EXCEPT ![l] = "listening"]
  /\ sent' = [sent EXCEPT ![l] = <<>>]
  /\ UNCHANGED <<outputVars, preroll, dropped, discarded>>

End(l) ==
  /\ \/ conn[l] = "burst" /\ client[l] = "gone"
     \/ conn[l] \in {"waiting", "writing"} /\ client[l] # "listening"
  /\ Detach(l)
  /\ conn' = [conn EXCEPT ![l] = "closed"]
  /\ client' = [client EXCEPT ![l] = "listening"]
  /\ sent' = [sent EXCEPT ![l] = <<>>]
  /\ UNCHANGED <<outputVars, preroll, dropped, discarded>>

(* The client closes at any time after it has connected, or sends more     *)
(* than its request.                                                       *)
HangUp(l) ==
  /\ conn[l] # "closed" /\ client[l] # "gone"
  /\ client' = [client EXCEPT ![l] = "gone"]
  /\ UNCHANGED <<outputVars, hubVars, conn, sent>>

Speak(l) ==
  /\ conn[l] # "closed" /\ client[l] = "listening"
  /\ client' = [client EXCEPT ![l] = "spoke"]
  /\ UNCHANGED <<outputVars, hubVars, conn, sent>>

Handle(l) == Refuse(l) \/ Greet(l) \/ Drained(l) \/ Pump(l) \/ End(l)

Next ==
  \/ Publish
  \/ \E l \in Listeners : Connect(l) \/ Handle(l) \/ HangUp(l) \/ Speak(l)

Spec == Init /\ [][Next]_vars

(* The event loop runs every handler that can go on.  A client that stays  *)
(* reads what it is sent; nobody need stay, and nobody need hang up.       *)
Fairness ==
  \A l \in Listeners :
    /\ WF_vars(Refuse(l) \/ Greet(l))
    /\ WF_vars(Drained(l))
    /\ WF_vars(Pump(l))
    /\ WF_vars(End(l))

FairSpec == Spec /\ Fairness

----------------------------------------------------------------------------
HubTypeOK ==
  /\ chunks \in Seq(Sizes) /\ Len(chunks) <= MaxChunks
  /\ unsynced \subseteq 2 .. Len(chunks)
  /\ preroll \in Seq(1 .. Len(chunks))
  /\ attached \subseteq Listeners
  /\ queue \in [Listeners -> Seq(1 .. Len(chunks))]
  /\ buffered \in [Listeners -> Nat]
  /\ realign \subseteq attached
  /\ dropped \in Nat /\ discarded \in Nat
  /\ conn \in [Listeners -> {"closed", "request", "burst", "waiting", "writing"}]
  /\ client \in [Listeners -> {"listening", "spoke", "gone"}]
  /\ sent \in [Listeners -> Seq([chunk : 1 .. Len(chunks), cut : BOOLEAN])]

(* A listener that does not read costs max_buffer_bytes, and one chunk if  *)
(* that alone is larger: the account in _buffered, which decides what is   *)
(* dropped, is what the queue really holds, whichever of publish() and     *)
(* consume() comes first.                                                  *)
BoundedBuffers ==
  \A l \in attached :
    /\ buffered[l] = Bytes(chunks, queue[l])
    /\ buffered[l] <= MaxBuffer \/ Len(queue[l]) = 1

(* What a player receives is playable (stream.py:7): it starts at a sync   *)
(* word; the chunks come in order, none twice; and after every gap the     *)
(* next byte is a sync word again.  Nothing is cut where nothing was       *)
(* dropped.                                                                *)
CleanFeed ==
  \A l \in Listeners :
    /\ sent[l] # <<>> => sent[l][1].cut \/ Aligned(sent[l][1].chunk)
    /\ \A i \in 2 .. Len(sent[l]) :
         LET before == sent[l][i - 1].chunk  piece == sent[l][i] IN
         \/ piece.chunk = before + 1 /\ ~piece.cut
         \/ piece.chunk > before + 1 /\ piece.cut

(* Every chunk that a player missed between two others has been counted in *)
(* dropped_chunks, or has been thrown away by consume(), which counts      *)
(* nothing.                                                                *)
Missed(l) ==
  IF sent[l] = <<>> THEN 0
  ELSE Last(sent[l]).chunk - Head(sent[l]).chunk + 1 - Len(sent[l])

GapsCounted == MapThenSumSet(Missed, Listeners) <= dropped + discarded

(* A probe that connects and goes away is detached, whatever its handler   *)
(* is in the middle of (stream.py:11).                                     *)
ProbesDetach == \A l \in Listeners : client[l] = "gone" ~> conn[l] = "closed"

(* A player that stays and reads hears the record to its last chunk, unless*)
(* it waits for a sync word that the last chunk does not have.             *)
EverythingDelivered ==
  \A l \in Listeners :
    <>[](l \in attached)
      => <>[](\/ chunks = <<>>
              \/ sent[l] # <<>> /\ Last(sent[l]).chunk = Len(chunks)
              \/ l \in realign /\ Len(chunks) \in unsynced)

============================================================================
