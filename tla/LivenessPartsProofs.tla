-------------------------- MODULE LivenessPartsProofs --------------------------
(***************************************************************************)
(* Proofs about the parts of LivenessParts, for any values of their        *)
(* parameters, and about the parts side by side.  First each part by       *)
(* itself: its inductive invariant, and that its own steps keep it; the    *)
(* delivery of output and the page have modules of their own.  Then all of *)
(* them: a step of PartsNext is a step of the part that the initial state  *)
(* chose, so that the part's invariant holds throughout.                   *)
(*                                                                         *)
(* Of the flow control no wakeup of the paused PTY is lost, memory is      *)
(* bounded, and the output keeps its order.  The bound is not inductive by *)
(* itself: an expansion may only add to what was below it when the read    *)
(* began, so the invariant also says how much room there is while an entry *)
(* is read and while the PTY runs.  Nor is the order: it has to be that of *)
(* the queue as well.                                                      *)
(***************************************************************************)
EXTENDS OutputDeliveryProofs, TerminalPageProofs

-----------------------------------------------------------------------------
(* The flow of the output                                                  *)

(* While an entry is read or the PTY runs there is room for its output. *)
Room == reading # 0 \/ ~paused => \A c \in Consumer : Flow!Owed(c) <= Flow!Most

(* The PTY only runs while the queue is charged less than the high water. *)
Uncharged == ~paused => bytes < HighWater

FlowInv == Flow!TypeOK /\ Flow!StallIsWatched /\ Flow!MemoryBounded /\ Room /\ Uncharged

LEMMA FlowSizes == /\ MaxEmitted \in Nat /\ MaxJoins \in Nat
               /\ HighWater \in Nat /\ LowWater \in Nat /\ LowWater < HighWater
               /\ FlushSize \in Nat /\ FlushSize >= 1
               /\ Replay \in Nat /\ Expansion \in Nat /\ Expansion >= 1
               /\ Renderer \in Consumer
BY FlowFits DEF Flow!ParametersFit

USE FlowSizes

LEMMA MostCovers == /\ Flow!Most \in Nat /\ HighWater - 1 + (FlushSize - 1) <= Flow!Most
                    /\ Replay + (FlushSize - 1) <= Flow!Most
BY DEF Flow!Most

LEMMA SeqWidens ==
  ASSUME NEW S, NEW T, S \subseteq T, NEW s \in Seq(S) PROVE s \in Seq(T)
OBVIOUS

LEMMA FlowStarts == Flow!Init => FlowInv
<1> SUFFICES ASSUME Flow!Init PROVE FlowInv
  OBVIOUS
<1>1. Flow!TypeOK
  <2>1. ~Flow!Active /\ Len(queue) = 0 /\ bytes = 0 /\ queue \in Seq(1 .. emitted)
        /\ out \in Seq(1 .. emitted)
    BY DEF Flow!Init, Flow!Active
  <2>2. bytes = Len(queue) + (IF Flow!Active THEN 1 ELSE 0)
    BY <2>1
  <2>3. /\ emitted \in 0 .. MaxEmitted /\ joins \in 0 .. MaxJoins
        /\ {reading, settling} \subseteq 0 .. emitted /\ 0 \in {reading, settling}
        /\ lost \subseteq 1 .. emitted /\ batch \in 0 .. FlushSize - 1
    BY DEF Flow!Init
  <2>4. /\ backlog \in [Consumer -> Nat] /\ present \subseteq Consumer
        /\ {paused, poll, disposed} \subseteq BOOLEAN
    BY DEF Flow!Init
  <2> QED BY <2>1, <2>2, <2>3, <2>4 DEF Flow!TypeOK
<1>2. \A c \in Consumer : Flow!Owed(c) = 0
  BY DEF Flow!Init, Flow!Owed
<1>3. Flow!MemoryBounded /\ Room
  BY <1>2, MostCovers DEF Flow!Init, Flow!MemoryBounded, Room
<1>4. Flow!StallIsWatched /\ Uncharged
  BY DEF Flow!Init, Flow!StallIsWatched, Uncharged
<1> QED BY <1>1, <1>3, <1>4 DEF FlowInv

LEMMA FlowTyped ==
  ASSUME Flow!TypeOK
  PROVE  /\ bytes \in Nat /\ emitted \in Nat /\ Len(queue) \in Nat
         /\ \A c \in Consumer : backlog[c] \in Nat /\ Flow!Owed(c) \in Nat
         /\ queue \in Seq(1 .. emitted) /\ out \in Seq(1 .. emitted)
<1>1. /\ emitted \in Nat /\ batch \in Nat /\ backlog \in [Consumer -> Nat]
      /\ queue \in Seq(1 .. emitted) /\ out \in Seq(1 .. emitted)
  BY DEF Flow!TypeOK
<1>2. Len(queue) \in Nat /\ bytes \in Nat
  BY <1>1 DEF Flow!TypeOK
<1>3. \A c \in Consumer : backlog[c] \in Nat /\ Flow!Owed(c) \in Nat
  BY <1>1 DEF Flow!Owed
<1> QED BY <1>1, <1>2, <1>3

(* What pausing does: the PTY is paused and polled if it has to be.        *)
LEMMA PauseEffect ==
  ASSUME NEW n \in Nat, NEW b \in [Consumer -> Nat], {paused, poll} \subseteq BOOLEAN,
         Flow!MaybePause(n, b)
  PROVE  /\ {paused', poll'} \subseteq BOOLEAN
         /\ paused => paused'
         /\ (paused => poll) => (paused' => poll')
         /\ ~paused' => n < HighWater /\ \A c \in Consumer : b[c] < HighWater
<1> DEFINE over == n >= HighWater \/ Flow!Backlogged(b)
<1>1. paused' = (paused \/ over) /\ poll' = (poll \/ over)
  BY DEF Flow!MaybePause
<1>2. ~over => n < HighWater /\ \A c \in Consumer : b[c] < HighWater
  BY DEF Flow!Backlogged
<1> HIDE DEF over
<1>3. paused \in BOOLEAN /\ poll \in BOOLEAN
  OBVIOUS
<1>4. over \in BOOLEAN
  BY DEF over
<1> QED BY <1>1, <1>2, <1>3, <1>4, Zenon

(* What a delivery of size units does to the load. *)
LEMMA DeliverEffect ==
  ASSUME Flow!TypeOK, NEW n \in Nat, NEW size \in Nat, NEW final \in BOOLEAN,
         Flow!Deliver(n, size, final)
  PROVE  /\ batch' \in 0 .. FlushSize - 1
         /\ backlog' \in [Consumer -> Nat]
         /\ \A c \in Consumer : Flow!Owed(c)' <= Flow!Owed(c) + size
         /\ Flow!MaybePause(n, backlog')
<1> DEFINE flushes == batch + size >= FlushSize \/ (final /\ size > 0)
           fed == [backlog EXCEPT ![Renderer] =
                     IF Renderer \in present THEN @ + size ELSE @]
<1>1. batch \in 0 .. FlushSize - 1 /\ backlog \in [Consumer -> Nat]
  BY DEF Flow!TypeOK
<1>2. fed \in [Consumer -> Nat]
  BY <1>1
<1>3. \A c \in Consumer :
        fed[c] = IF c = Renderer /\ Renderer \in present THEN backlog[c] + size
                 ELSE backlog[c]
  BY <1>1
<1>4. /\ batch' = IF flushes THEN 0 ELSE batch + size
      /\ backlog' = [c \in Consumer |->
           IF flushes /\ c \in present \ {Renderer}
           THEN fed[c] + batch + size ELSE fed[c]]
      /\ Flow!MaybePause(n, backlog')
  BY DEF Flow!Deliver
<1>5. batch' \in 0 .. FlushSize - 1 /\ backlog' \in [Consumer -> Nat]
  BY <1>1, <1>2, <1>4
<1>6. ASSUME NEW c \in Consumer
      PROVE  Flow!Owed(c)' <= Flow!Owed(c) + size
  <2>1. backlog'[c] = IF flushes /\ c \in present \ {Renderer}
                      THEN fed[c] + batch + size ELSE fed[c]
    BY <1>4
  <2>2. backlog[c] \in Nat
    BY <1>1
  <2> HIDE DEF fed
  <2>3. CASE c = Renderer
    BY <1>1, <1>3, <2>1, <2>2, <2>3 DEF Flow!Owed
  <2>4. CASE c # Renderer /\ flushes
    BY <1>1, <1>3, <1>4, <2>1, <2>2, <2>4 DEF Flow!Owed
  <2>5. CASE c # Renderer /\ ~flushes
    BY <1>1, <1>3, <1>4, <2>1, <2>2, <2>5 DEF Flow!Owed
  <2> QED BY <2>3, <2>4, <2>5
<1> QED BY <1>4, <1>5, <1>6

(* What draining an inactive queue does. *)
LEMMA DrainEffect ==
  ASSUME NEW S, 0 \notin S, NEW q \in Seq(S), NEW n \in Nat, backlog \in [Consumer -> Nat],
         {paused, poll} \subseteq BOOLEAN, paused => poll, Flow!Drain(q, n, backlog)
  PROVE  /\ queue' \in Seq(S) /\ reading' \in S \cup {0}
         /\ Len(queue') + (IF reading' # 0 THEN 1 ELSE 0) = Len(q)
         /\ {paused', poll'} \subseteq BOOLEAN
         /\ paused => paused'
         /\ paused' => poll'
         /\ queue' # <<>> /\ reading' = 0 => paused'
         /\ reading' # 0 => \A c \in Consumer : backlog[c] < HighWater
         /\ Len(q) # 0 /\ ~paused' => n < HighWater
                 /\ \A c \in Consumer : backlog[c] < HighWater
         /\ q = <<>> => UNCHANGED Flow!flow
<1>1. CASE q = <<>>
  BY <1>1 DEF Flow!Drain, Flow!flow
<1>2. CASE q # <<>> /\ Flow!Backlogged(backlog)
  <2>1. queue' = q /\ reading' = 0 /\ Flow!MaybePause(n, backlog)
    BY <1>2 DEF Flow!Drain
  <2>2. paused'
    BY <2>1, <1>2 DEF Flow!MaybePause
  <2> QED BY <1>2, <2>1, <2>2, PauseEffect
<1>3. CASE q # <<>> /\ ~Flow!Backlogged(backlog)
  <2>1. queue' = Tail(q) /\ reading' = Head(q) /\ Flow!MaybePause(n, backlog)
    BY <1>3 DEF Flow!Drain
  <2>2. /\ Head(q) \in S /\ Tail(q) \in Seq(S) /\ Len(Tail(q)) = Len(q) - 1
        /\ Len(q) \in Nat
    BY <1>3
  <2>3. \A c \in Consumer : backlog[c] < HighWater
    BY <1>3 DEF Flow!Backlogged
  <2>4. /\ {paused', poll'} \subseteq BOOLEAN
        /\ paused => paused'
        /\ paused' => poll'
        /\ ~paused' => n < HighWater
    BY <2>1, PauseEffect
  <2>5. reading' # 0
    BY <2>1, <2>2
  <2>6. /\ queue' \in Seq(S) /\ reading' \in S
        /\ Len(queue') + 1 = Len(q)
    BY <2>1, <2>2
  <2> QED BY <1>3, <2>3, <2>4, <2>5, <2>6
<1> QED BY <1>1, <1>2, <1>3

(* A chunk that is output at once. *)
LEMMA ChunkIInv ==
  ASSUME FlowInv, NEW final \in BOOLEAN, Flow!PlainChunk(final)
  PROVE  FlowInv'
<1> USE DEF FlowInv
<1>1. /\ ~disposed /\ ~paused /\ ~Flow!Active /\ queue = <<>>
      /\ emitted' = emitted + 1 /\ emitted + 1 <= MaxEmitted /\ out' = Append(out, emitted')
      /\ Flow!Deliver(bytes, 1, final)
      /\ UNCHANGED <<queue, reading, settling, bytes, lost, present, disposed, joins>>
  BY DEF Flow!PlainChunk, Flow!Queues, Flow!TypeOK, Flow!entries
<1>2. /\ batch' \in 0 .. FlushSize - 1 /\ backlog' \in [Consumer -> Nat]
      /\ \A c \in Consumer : Flow!Owed(c)' <= Flow!Owed(c) + 1
      /\ Flow!MaybePause(bytes, backlog')
  BY <1>1, FlowTyped, DeliverEffect
<1>3. bytes \in Nat /\ {paused, poll} \subseteq BOOLEAN /\ (paused => poll)
  BY <1>1, FlowTyped DEF Flow!TypeOK
<1>4. /\ {paused', poll'} \subseteq BOOLEAN /\ (paused' => poll')
      /\ ~paused' => bytes < HighWater /\ \A c \in Consumer : backlog'[c] < HighWater
  BY <1>2, <1>3, PauseEffect
<1>5. Flow!TypeOK'
  <2>1. /\ {reading, settling} \subseteq 0 .. emitted + 1
        /\ queue \in Seq(1 .. emitted + 1) /\ out \in Seq(1 .. emitted + 1)
        /\ lost \subseteq 1 .. emitted + 1 /\ emitted + 1 \in 0 .. MaxEmitted
    BY <1>1, SeqWidens DEF Flow!TypeOK
  <2>2. Append(out, emitted + 1) \in Seq(1 .. emitted + 1)
    BY <2>1, FlowTyped
  <2> QED BY <1>1, <1>2, <1>4, <2>1, <2>2 DEF Flow!TypeOK, Flow!Active
<1>6. ASSUME NEW c \in Consumer PROVE Flow!Owed(c) \in Nat /\ Flow!Owed(c)' \in Nat
  <2>1. Flow!Owed(c) \in Nat
    BY FlowTyped
  <2>2. backlog'[c] \in Nat /\ batch' \in Nat
    BY <1>2
  <2> QED BY <2>1, <2>2 DEF Flow!Owed
<1>7. Flow!MemoryBounded'
  BY <1>1, <1>2, <1>6, MostCovers DEF Flow!MemoryBounded, Room
<1>8. Room'
  <2>1. ASSUME NEW c \in Consumer, ~paused' PROVE Flow!Owed(c)' <= Flow!Most
    <3>1. backlog'[c] \in Nat /\ backlog'[c] < HighWater
      BY <1>2, <1>4, <2>1
    <3> QED BY <1>2, <3>1, MostCovers DEF Flow!Owed
  <2> QED BY <1>1, <2>1 DEF Room, Flow!Active
<1> QED
  BY <1>1, <1>4, <1>5, <1>7, <1>8 DEF Flow!StallIsWatched, Uncharged

(* A chunk that is charged to the queue. *)
LEMMA QueuedIInv ==
  ASSUME FlowInv, NEW hasFile \in BOOLEAN, Flow!QueuedChunk(hasFile)
  PROVE  FlowInv'
<1> USE DEF FlowInv
<1>1. /\ ~disposed /\ ~paused /\ emitted' = emitted + 1 /\ emitted + 1 <= MaxEmitted
      /\ bytes' = bytes + 1
      /\ UNCHANGED <<settling, out, lost, batch, backlog, present, disposed, joins>>
  BY FlowTyped DEF Flow!QueuedChunk, Flow!TypeOK, Flow!load
<1>2. /\ bytes + 1 \in Nat /\ bytes + 1 <= HighWater
      /\ Append(queue, emitted + 1) \in Seq(1 .. emitted + 1)
      /\ Len(Append(queue, emitted + 1)) = Len(queue) + 1
      /\ backlog \in [Consumer -> Nat] /\ {paused, poll} \subseteq BOOLEAN
  <2>1. emitted + 1 \in 1 .. emitted + 1 /\ queue \in Seq(1 .. emitted + 1)
    BY FlowTyped, SeqWidens
  <2> QED BY <1>1, <2>1, FlowTyped DEF Flow!TypeOK, Uncharged
<1>3. /\ queue' \in Seq(1 .. emitted + 1) /\ reading' \in 0 .. emitted + 1
      /\ bytes' = Len(queue') + (IF Flow!Active' THEN 1 ELSE 0)
      /\ 0 \in {reading', settling'}
      /\ {paused', poll'} \subseteq BOOLEAN /\ (paused' => poll')
      /\ queue' # <<>> /\ ~Flow!Active' => paused'
      /\ ~paused' => bytes' < HighWater
      /\ reading' = reading \/ \A c \in Consumer : backlog[c] < HighWater
  <2>1. CASE Flow!Active
    <3>1. /\ queue' = Append(queue, emitted + 1) /\ reading' = reading
          /\ Flow!MaybePause(bytes + 1, backlog)
      BY <1>1, <2>1 DEF Flow!QueuedChunk
    <3>2. /\ {paused', poll'} \subseteq BOOLEAN /\ (paused' => poll')
          /\ ~paused' => bytes' < HighWater
      BY <1>1, <1>2, <3>1, PauseEffect
    <3>3. Flow!Active' /\ reading \in 0 .. emitted + 1 /\ 0 \in {reading, settling}
      BY <1>1, <2>1, <3>1, FlowTyped DEF Flow!Active, Flow!TypeOK
    <3>4. bytes = Len(queue) + 1
      BY <2>1 DEF Flow!TypeOK
    <3> QED BY <1>1, <1>2, <3>1, <3>2, <3>3, <3>4, FlowTyped
  <2>2. CASE ~Flow!Active
    <3>1. Flow!Drain(Append(queue, emitted + 1), bytes + 1, backlog)
      BY <1>1, <2>2 DEF Flow!QueuedChunk
    <3>2. 0 \notin 1 .. emitted + 1 /\ Len(Append(queue, emitted + 1)) # 0
      BY <1>2, FlowTyped
    <3>3. /\ queue' \in Seq(1 .. emitted + 1) /\ reading' \in (1 .. emitted + 1) \cup {0}
          /\ Len(queue') + (IF reading' # 0 THEN 1 ELSE 0) = Len(queue) + 1
          /\ {paused', poll'} \subseteq BOOLEAN /\ (paused' => poll')
          /\ queue' # <<>> /\ reading' = 0 => paused'
          /\ reading' # 0 => \A c \in Consumer : backlog[c] < HighWater
          /\ ~paused' => bytes + 1 < HighWater
      BY <1>1, <1>2, <3>1, <3>2, DrainEffect
    <3>4. settling = 0 /\ reading = 0 /\ bytes = Len(queue)
      BY <2>2, FlowTyped DEF Flow!Active, Flow!TypeOK
    <3> QED BY <1>1, <3>3, <3>4, FlowTyped DEF Flow!Active
  <2> QED BY <2>1, <2>2
<1>4. Flow!TypeOK'
  <2>1. /\ settling \in 0 .. emitted + 1 /\ out \in Seq(1 .. emitted + 1)
        /\ lost \subseteq 1 .. emitted + 1 /\ emitted + 1 \in 0 .. MaxEmitted
    BY <1>1, FlowTyped, SeqWidens DEF Flow!TypeOK
  <2> QED BY <1>1, <1>3, <2>1 DEF Flow!TypeOK
<1>5. \A c \in Consumer : Flow!Owed(c)' = Flow!Owed(c)
  BY <1>1 DEF Flow!Owed
<1>6. Flow!MemoryBounded'
  BY <1>1, <1>2, <1>5 DEF Flow!MemoryBounded
<1>7. Room'
  BY <1>1, <1>5 DEF Room
<1> QED
  BY <1>1, <1>3, <1>4, <1>6, <1>7 DEF Flow!StallIsWatched, Uncharged

(* The end of the active entry, whether it was output or failed. *)
LEMMA SettleIInv ==
  ASSUME FlowInv, NEW n, ~disposed, Flow!Active, Flow!Settle(n), reading = 0 \/ settling = 0,
         lost' \in SUBSET (1 .. emitted),
         UNCHANGED <<emitted, out, Flow!load, present, disposed, joins>>
  PROVE  FlowInv'
<1> USE DEF FlowInv
<1>1. /\ bytes' = bytes - 1 /\ settling' = 0 /\ Flow!Drain(queue, bytes - 1, backlog)
      /\ UNCHANGED <<emitted, out, batch, backlog, present, disposed, joins>>
  BY DEF Flow!Settle, Flow!load
<1>2. /\ bytes = Len(queue) + 1 /\ bytes - 1 \in Nat /\ 0 \notin 1 .. emitted
      /\ backlog \in [Consumer -> Nat] /\ {paused, poll} \subseteq BOOLEAN
      /\ (paused => poll) /\ bytes <= HighWater
  BY FlowTyped DEF Flow!TypeOK, Flow!StallIsWatched, Flow!MemoryBounded
<1>3. /\ queue' \in Seq(1 .. emitted) /\ reading' \in (1 .. emitted) \cup {0}
      /\ Len(queue') + (IF reading' # 0 THEN 1 ELSE 0) = Len(queue)
      /\ {paused', poll'} \subseteq BOOLEAN /\ (paused => paused')
      /\ (paused' => poll')
      /\ queue' # <<>> /\ reading' = 0 => paused'
      /\ reading' # 0 => \A c \in Consumer : backlog[c] < HighWater
  BY <1>1, <1>2, FlowTyped, DrainEffect
<1>4. Flow!TypeOK'
  <2>1. bytes' = Len(queue') + (IF Flow!Active' THEN 1 ELSE 0)
    BY <1>1, <1>2, <1>3 DEF Flow!Active
  <2> QED BY <1>1, <1>2, <1>3, <2>1, FlowTyped, SMTT(30) DEF Flow!TypeOK
<1>5. ASSUME NEW c \in Consumer
      PROVE  /\ Flow!Owed(c)' = Flow!Owed(c) /\ Flow!Owed(c) \in Nat
             /\ backlog[c] < HighWater => Flow!Owed(c) <= Flow!Most
  BY <1>1, <1>2, FlowTyped, MostCovers, SMTT(30) DEF Flow!Owed, Flow!TypeOK
<1>6. Flow!MemoryBounded'
  BY <1>1, <1>2, <1>5 DEF Flow!MemoryBounded
<1>7. Room'
  <2>1. CASE reading' # 0
    BY <1>3, <1>5, <2>1 DEF Room
  <2>2. CASE reading' = 0 /\ ~paused'
    BY <1>3, <1>5, <2>2 DEF Room
  <2> QED BY <2>1, <2>2 DEF Room
<1>8. Flow!StallIsWatched' /\ Uncharged'
  BY <1>1, <1>2, <1>3, FlowTyped DEF Flow!StallIsWatched, Uncharged, Flow!Active
<1> QED BY <1>4, <1>6, <1>7, <1>8

(* The active entry is output: the one step that adds an expansion. *)
LEMMA ReadDoneIInv ==
  ASSUME FlowInv, NEW size \in 0 .. Expansion, NEW final \in BOOLEAN, Flow!ReadDone(size, final)
  PROVE  FlowInv'
<1> USE DEF FlowInv
<1>1. /\ ~disposed /\ reading # 0 /\ out' = Append(out, reading)
      /\ settling' = reading /\ reading' = 0 /\ Flow!Deliver(bytes, size, final)
      /\ UNCHANGED <<emitted, queue, bytes, lost, present, disposed, joins>>
  BY DEF Flow!ReadDone
<1>2. /\ bytes \in Nat /\ size \in Nat /\ reading \in 1 .. emitted
      /\ {paused, poll} \subseteq BOOLEAN /\ (paused => poll)
  BY <1>1, FlowTyped DEF Flow!TypeOK, Flow!StallIsWatched
<1>3. /\ batch' \in 0 .. FlushSize - 1 /\ backlog' \in [Consumer -> Nat]
      /\ \A c \in Consumer : Flow!Owed(c)' <= Flow!Owed(c) + size
      /\ Flow!MaybePause(bytes, backlog')
  BY <1>1, <1>2, DeliverEffect
<1>4. /\ {paused', poll'} \subseteq BOOLEAN /\ (paused' => poll')
      /\ ~paused' => bytes < HighWater /\ \A c \in Consumer : backlog'[c] < HighWater
  BY <1>2, <1>3, PauseEffect
<1>5. Flow!TypeOK'
  <2>1. Append(out, reading) \in Seq(1 .. emitted)
    BY <1>2, FlowTyped
  <2>2. Flow!Active /\ Flow!Active' /\ {reading', settling'} \subseteq 0 .. emitted
    BY <1>1, <1>2, FlowTyped DEF Flow!Active
  <2> QED BY <1>1, <1>3, <1>4, <2>1, <2>2 DEF Flow!TypeOK
<1>6. ASSUME NEW c \in Consumer PROVE Flow!Owed(c) \in Nat /\ Flow!Owed(c)' \in Nat
  <2>1. Flow!Owed(c) \in Nat
    BY FlowTyped
  <2>2. backlog'[c] \in Nat /\ batch' \in Nat
    BY <1>3
  <2> QED BY <2>1, <2>2 DEF Flow!Owed
<1>7. Flow!MemoryBounded'
  BY <1>1, <1>2, <1>3, <1>6, MostCovers, SMTT(30) DEF Flow!MemoryBounded, Room
<1>8. Room'
  <2>1. ASSUME NEW c \in Consumer, ~paused' PROVE Flow!Owed(c)' <= Flow!Most
    <3>1. backlog'[c] \in Nat /\ backlog'[c] < HighWater
      BY <1>3, <1>4, <2>1
    <3> QED BY <1>3, <3>1, MostCovers DEF Flow!Owed
  <2> QED BY <1>1, <2>1 DEF Room
<1> QED
  BY <1>1, <1>2, <1>4, <1>5, <1>7, <1>8 DEF Flow!StallIsWatched, Uncharged, Flow!Active

LEMMA BatchTimerIInv ==
  ASSUME FlowInv, Flow!BatchTimer
  PROVE  FlowInv'
<1> USE DEF FlowInv
<1>1. /\ ~disposed /\ batch' = 0
      /\ backlog' = [c \in Consumer |-> IF c \in present \ {Renderer}
                                        THEN backlog[c] + batch ELSE backlog[c]]
      /\ Flow!MaybePause(bytes, backlog')
      /\ UNCHANGED <<emitted, queue, reading, settling, bytes, out, lost, present,
                     disposed, joins>>
  BY DEF Flow!BatchTimer, Flow!entries
<1>2. /\ bytes \in Nat /\ batch \in Nat /\ backlog \in [Consumer -> Nat]
      /\ {paused, poll} \subseteq BOOLEAN /\ (paused => poll)
  BY <1>1, FlowTyped DEF Flow!TypeOK, Flow!StallIsWatched
<1>3. backlog' \in [Consumer -> Nat]
  BY <1>1, <1>2
<1>4. /\ {paused', poll'} \subseteq BOOLEAN /\ (paused' => poll') /\ (paused => paused')
      /\ ~paused' => bytes < HighWater
  BY <1>1, <1>2, <1>3, PauseEffect
<1>5. Flow!TypeOK'
  BY <1>1, <1>3, <1>4 DEF Flow!TypeOK, Flow!Active
<1>6. ASSUME NEW c \in Consumer
      PROVE Flow!Owed(c) \in Nat /\ Flow!Owed(c)' \in Nat /\ Flow!Owed(c)' <= Flow!Owed(c)
  BY <1>1, <1>2, <1>3 DEF Flow!Owed
<1>7. Flow!MemoryBounded'
  BY <1>1, <1>6, MostCovers DEF Flow!MemoryBounded
<1>8. Room'
  BY <1>1, <1>4, <1>6, MostCovers DEF Room
<1> QED
  BY <1>1, <1>4, <1>5, <1>7, <1>8 DEF Flow!StallIsWatched, Uncharged, Flow!Active

(* The poll resumes a PTY only when all is low, so that no entry waits.    *)
LEMMA PollIInv ==
  ASSUME FlowInv, Flow!Poll
  PROVE  FlowInv'
<1> USE DEF FlowInv
<1>1. /\ poll /\ paused' = (paused /\ ~Flow!AllLow) /\ poll' = paused'
      /\ UNCHANGED <<emitted, settling, bytes, out, lost, batch, backlog, present,
                     disposed, joins>>
  BY DEF Flow!Poll, Flow!load
<1>2. /\ backlog \in [Consumer -> Nat] /\ {paused, poll} \subseteq BOOLEAN
      /\ Flow!AllLow \in BOOLEAN /\ bytes \in Nat
  BY FlowTyped DEF Flow!TypeOK, Flow!AllLow
<1>3. {paused', poll'} \subseteq BOOLEAN /\ (paused' => poll')
  BY <1>1, <1>2
<1>4. CASE paused /\ ~Flow!Active /\ queue # <<>> /\ ~Flow!Backlogged(backlog)
  <2>1. queue' = Tail(queue) /\ reading' = Head(queue)
    BY <1>4 DEF Flow!Poll
  <2>2. /\ Tail(queue) \in Seq(1 .. emitted) /\ Head(queue) \in 1 .. emitted
        /\ Len(Tail(queue)) = Len(queue) - 1 /\ settling = 0
        /\ bytes = Len(queue)
    BY <1>4, FlowTyped, SMTT(30) DEF Flow!TypeOK, Flow!Active
  <2>3. Flow!TypeOK'
    <3>1. /\ reading' # 0 /\ {reading', settling'} \subseteq 0 .. emitted
          /\ 0 \in {reading', settling'}
      BY <1>1, <2>1, <2>2, FlowTyped
    <3>2. bytes' = Len(queue') + (IF Flow!Active' THEN 1 ELSE 0)
      BY <1>1, <2>1, <2>2, <3>1, FlowTyped DEF Flow!Active
    <3> QED BY <1>1, <1>3, <2>1, <2>2, <3>1, <3>2 DEF Flow!TypeOK
  <2>4. ASSUME NEW c \in Consumer PROVE Flow!Owed(c)' = Flow!Owed(c)
                 /\ Flow!Owed(c) <= Flow!Most
    <3>1. backlog[c] \in Nat /\ backlog[c] < HighWater
      BY <1>2, <1>4 DEF Flow!Backlogged
    <3> QED BY <1>1, <3>1, MostCovers DEF Flow!Owed, Flow!TypeOK
  <2>5. Flow!MemoryBounded' /\ Room'
    BY <1>1, <2>4, MostCovers DEF Flow!MemoryBounded, Room
  <2>6. Flow!StallIsWatched' /\ Uncharged'
    BY <1>1, <1>2, <1>3, <2>1, <2>2 DEF Flow!StallIsWatched, Uncharged, Flow!Active, Flow!AllLow
  <2> QED BY <2>3, <2>5, <2>6
<1>5. CASE ~(paused /\ ~Flow!Active /\ queue # <<>> /\ ~Flow!Backlogged(backlog))
  <2>1. UNCHANGED <<queue, reading>>
    BY <1>5 DEF Flow!Poll
  <2>2. Flow!TypeOK'
    BY <1>1, <1>3, <2>1 DEF Flow!TypeOK, Flow!Active
  <2>3. ASSUME NEW c \in Consumer
        PROVE  /\ Flow!Owed(c)' = Flow!Owed(c) /\ Flow!Owed(c) \in Nat
               /\ Flow!AllLow => Flow!Owed(c) <= Flow!Most
    <3>1. Flow!Owed(c)' = Flow!Owed(c) /\ Flow!Owed(c) \in Nat /\ backlog[c] \in Nat
      BY <1>1, FlowTyped DEF Flow!Owed
    <3>2. Flow!AllLow => backlog[c] <= HighWater - 1
      BY <3>1 DEF Flow!AllLow
    <3> QED BY <3>1, <3>2, MostCovers DEF Flow!Owed, Flow!TypeOK
  <2>4. Flow!MemoryBounded'
    BY <1>1, <2>3 DEF Flow!MemoryBounded
  <2>5. ~paused' => ~paused \/ Flow!AllLow
    BY <1>1, <1>2
  <2>6. Room'
    BY <2>1, <2>3, <2>5 DEF Room
  <2>7. Uncharged'
    BY <1>1, <1>2, <2>5 DEF Uncharged, Flow!AllLow
  <2>8. Flow!StallIsWatched'
    <3>1. ASSUME ~disposed, queue # <<>>, ~Flow!Active PROVE paused'
      <4>1. paused
        BY <3>1 DEF Flow!StallIsWatched
      <4>2. PICK c \in Consumer : backlog[c] >= HighWater
        BY <1>5, <3>1, <4>1 DEF Flow!Backlogged
      <4>3. ~Flow!AllLow
        BY <1>2, <4>2 DEF Flow!AllLow
      <4> QED BY <1>1, <4>1, <4>3
    <3> QED BY <1>1, <1>3, <2>1, <3>1 DEF Flow!StallIsWatched, Flow!Active
  <2> QED BY <2>2, <2>4, <2>6, <2>7, <2>8
<1> QED BY <1>4, <1>5

(* Consumers that come, go and take what they are given. *)
LEMMA ConsumerIInv ==
  ASSUME FlowInv, NEW c \in Consumer,
         \/ \E size \in 0 .. Replay : Flow!Join(c, size)
         \/ Flow!Leave(c)
         \/ Flow!Take(c)
  PROVE  FlowInv'
<1> USE DEF FlowInv
<1>1. UNCHANGED <<emitted, queue, reading, settling, bytes, out, lost, batch, paused,
                  poll, disposed>>
  BY DEF Flow!Join, Flow!Leave, Flow!Take, Flow!entries, Flow!flow
<1>2. PICK n \in Nat : /\ backlog' = [backlog EXCEPT ![c] = n]
                       /\ n <= Replay \/ n <= backlog[c]
  <2>1. CASE \E size \in 0 .. Replay : Flow!Join(c, size)
    <3>1. PICK size \in 0 .. Replay : Flow!Join(c, size)
      BY <2>1
    <3>2. backlog' = [backlog EXCEPT ![c] = size]
      BY <3>1 DEF Flow!Join
    <3>3. size \in Nat /\ size <= Replay
      BY FlowSizes
    <3> QED BY <3>2, <3>3
  <2>2. CASE Flow!Leave(c)
    <3>1. backlog' = [backlog EXCEPT ![c] = 0] /\ 0 <= Replay /\ 0 \in Nat
      BY <2>2 DEF Flow!Leave
    <3> QED BY <3>1
  <2>3. CASE Flow!Take(c)
    <3>1. backlog[c] \in Nat /\ backlog[c] > 0
      BY <2>3, FlowTyped DEF Flow!Take
    <3>2. /\ backlog' = [backlog EXCEPT ![c] = backlog[c] - 1]
          /\ backlog[c] - 1 \in Nat /\ backlog[c] - 1 <= backlog[c]
      BY <2>3, <3>1 DEF Flow!Take
    <3> QED BY <3>2
  <2> QED BY <2>1, <2>2, <2>3
<1>3. present' \subseteq Consumer /\ joins' \in 0 .. MaxJoins
  BY SMTT(30) DEF Flow!Join, Flow!Leave, Flow!Take, Flow!TypeOK
<1>4. Flow!TypeOK'
  BY <1>1, <1>2, <1>3 DEF Flow!TypeOK, Flow!Active
<1>5. ASSUME NEW d \in Consumer
      PROVE  /\ Flow!Owed(d) \in Nat /\ Flow!Owed(d)' \in Nat
             /\ Flow!Owed(d)' <= Flow!Most \/ Flow!Owed(d)' <= Flow!Owed(d)
  <2>1. backlog[d] \in Nat /\ batch \in 0 .. FlushSize - 1
        /\ backlog'[d] = IF d = c THEN n ELSE backlog[d]
    BY <1>2, FlowTyped DEF Flow!TypeOK
  <2> QED BY <1>1, <1>2, <2>1, MostCovers DEF Flow!Owed
<1>6. Flow!MemoryBounded'
  BY <1>1, <1>5, MostCovers DEF Flow!MemoryBounded
<1>7. Room'
  BY <1>1, <1>5, MostCovers DEF Room
<1> QED
  BY <1>1, <1>4, <1>6, <1>7 DEF Flow!StallIsWatched, Uncharged, Flow!Active

LEMMA DisposeIInv ==
  ASSUME FlowInv, Flow!Dispose
  PROVE  FlowInv'
<1> USE DEF FlowInv
<1>1. /\ disposed' /\ queue' = <<>> /\ reading' = 0 /\ settling' = 0 /\ bytes' = 0
      /\ batch' = 0 /\ poll' = FALSE /\ present' = {}
      /\ backlog' = [c \in Consumer |-> 0]
      /\ UNCHANGED <<emitted, out, lost, paused, joins>> /\ disposed' = TRUE
  BY DEF Flow!Dispose
<1>2. Flow!TypeOK'
  <2>1. /\ Len(queue') = 0 /\ queue' \in Seq(1 .. emitted) /\ ~Flow!Active'
        /\ 0 \in 0 .. emitted
    BY <1>1, FlowTyped DEF Flow!Active
  <2>2. bytes' = Len(queue') + (IF Flow!Active' THEN 1 ELSE 0)
    BY <1>1, <2>1
  <2>3. backlog' \in [Consumer -> Nat] /\ present' \subseteq Consumer
    BY <1>1
  <2>4. {paused', poll', disposed'} \subseteq BOOLEAN
    BY <1>1 DEF Flow!TypeOK
  <2>5. {reading', settling'} \subseteq 0 .. emitted' /\ 0 \in {reading', settling'}
    BY <1>1, <2>1
  <2>6. batch' \in 0 .. FlushSize - 1
    BY <1>1, FlowSizes
  <2>7. /\ emitted' \in 0 .. MaxEmitted /\ joins' \in 0 .. MaxJoins
        /\ out' \in Seq(1 .. emitted') /\ lost' \subseteq 1 .. emitted'
        /\ queue' \in Seq(1 .. emitted')
    BY <1>1, <2>1 DEF Flow!TypeOK
  <2> QED BY <2>2, <2>3, <2>4, <2>5, <2>6, <2>7 DEF Flow!TypeOK
<1>3. ASSUME NEW c \in Consumer PROVE Flow!Owed(c)' = 0
  BY <1>1 DEF Flow!Owed
<1>4. Flow!MemoryBounded' /\ Room' /\ Uncharged'
  BY <1>1, <1>3, MostCovers DEF Flow!MemoryBounded, Room, Uncharged
<1> QED BY <1>1, <1>2, <1>4 DEF Flow!StallIsWatched

LEMMA FlowStep == FlowInv /\ [Flow!Next]_(Flow!vars) => FlowInv'
<1> SUFFICES ASSUME FlowInv, [Flow!Next]_(Flow!vars) PROVE FlowInv'
  OBVIOUS
<1>1. CASE \E final \in BOOLEAN : Flow!PlainChunk(final)
  BY <1>1, ChunkIInv
<1>2. CASE \E hasFile \in BOOLEAN : Flow!QueuedChunk(hasFile)
  BY <1>2, QueuedIInv
<1>3. CASE \E size \in 0 .. Expansion, final \in BOOLEAN : Flow!ReadDone(size, final)
  BY <1>3, ReadDoneIInv
<1>4. CASE Flow!TasksDone
  <2>1. /\ ~disposed /\ Flow!Active /\ Flow!Settle(settling) /\ (reading = 0 \/ settling = 0)
        /\ lost' \in SUBSET (1 .. emitted)
        /\ UNCHANGED <<emitted, out, Flow!load, present, disposed, joins>>
    BY <1>4 DEF Flow!TasksDone, FlowInv, Flow!TypeOK, Flow!Active
  <2> QED BY <2>1, SettleIInv
<1>5. CASE Flow!ReadFails
  <2>1. /\ ~disposed /\ Flow!Active /\ Flow!Settle(reading) /\ (reading = 0 \/ settling = 0)
        /\ lost' \in SUBSET (1 .. emitted)
        /\ UNCHANGED <<emitted, out, Flow!load, present, disposed, joins>>
    <3>1. reading \in 1 .. emitted /\ lost \subseteq 1 .. emitted /\ 0 \in {reading, settling}
      BY <1>5, FlowTyped DEF Flow!ReadFails, FlowInv, Flow!TypeOK
    <3> QED BY <1>5, <3>1 DEF Flow!ReadFails, Flow!Active
  <2> QED BY <2>1, SettleIInv
<1>6. CASE Flow!BatchTimer
  BY <1>6, BatchTimerIInv
<1>7. CASE Flow!Poll
  BY <1>7, PollIInv
<1>8. CASE \E c \in Consumer : \/ \E size \in 0 .. Replay : Flow!Join(c, size)
                              \/ Flow!Leave(c)
                              \/ Flow!Take(c)
  BY <1>8, ConsumerIInv
<1>9. CASE Flow!Dispose
  BY <1>9, DisposeIInv
<1>10. CASE UNCHANGED Flow!vars
  <2>1. UNCHANGED <<emitted, queue, reading, settling, bytes, out, lost, batch, backlog,
                    present, paused, poll, disposed, joins>>
    BY <1>10 DEF Flow!vars, Flow!entries, Flow!load, Flow!flow
  <2> QED
    BY <2>1 DEF FlowInv, Flow!TypeOK, Flow!StallIsWatched, Flow!MemoryBounded, Room, Uncharged,
                Flow!Active, Flow!Owed
<1> QED BY <1>1, <1>2, <1>3, <1>4, <1>5, <1>6, <1>7, <1>8, <1>9, <1>10 DEF Flow!Next

LEMMA FlowInvariance == Flow!Spec => []FlowInv
<1> QED BY FlowStarts, FlowStep, PTL DEF Flow!Spec

(* The variables keep their types, and the charge of the queue is exact.   *)
THEOREM FlowIsTyped == Flow!Spec => []Flow!TypeOK
<1>1. FlowInv => Flow!TypeOK
  BY DEF FlowInv
<1> QED BY <1>1, FlowInvariance, PTL

(* A paused PTY and a waiting queue always have a poll that continues      *)
(* them, for all levels, sizes and consumers.                              *)
THEOREM NoLostWakeup == Flow!Spec => []Flow!StallIsWatched
<1>1. FlowInv => Flow!StallIsWatched
  BY DEF FlowInv
<1> QED BY <1>1, FlowInvariance, PTL

(* Memory stays bounded, for all levels, sizes and consumers. *)
THEOREM BacklogIsBounded == Flow!Spec => []Flow!MemoryBounded
<1>1. FlowInv => Flow!MemoryBounded
  BY DEF FlowInv
<1> QED BY <1>1, FlowInvariance, PTL
-----------------------------------------------------------------------------
(* Order                                                                   *)

Elems(s) == {s[i] : i \in DOMAIN s}

Increasing(s) == \A i, j \in 1 .. Len(s) : i < j => s[i] < s[j]

(* What was output, then the entry being read, then the queue. *)
InOrder(o, r, q) ==
    /\ Increasing(o) /\ Increasing(q)
    /\ \A i \in 1 .. Len(o), j \in 1 .. Len(q) : o[i] < q[j]
    /\ r # 0 => /\ \A i \in 1 .. Len(o) : o[i] < r
                /\ \A j \in 1 .. Len(q) : r < q[j]

(* What is known of a chunk that was emitted. *)
Held(o, r, q) == Elems(o) \cup Elems(q) \cup ({r} \ {0})

(* The order the output keeps is only kept because the entry being read    *)
(* and the queue continue it.                                              *)
Ordered ==
    /\ InOrder(out, reading, queue)
    /\ disposed \/ 1 .. emitted = lost \cup Held(out, reading, queue)

LEMMA OfAppend ==
  ASSUME NEW s \in Seq(Nat), NEW e \in Nat
  PROVE  /\ Append(s, e) \in Seq(Nat) /\ Elems(Append(s, e)) = Elems(s) \cup {e}
         /\ Len(s) \in Nat /\ Len(Append(s, e)) = Len(s) + 1
         /\ \A i \in 1 .. Len(s) : Append(s, e)[i] = s[i]
         /\ Append(s, e)[Len(s) + 1] = e
<1>1. /\ Append(s, e) \in Seq(Nat) /\ Len(s) \in Nat /\ Len(Append(s, e)) = Len(s) + 1
      /\ \A i \in 1 .. Len(s) : Append(s, e)[i] = s[i]
      /\ Append(s, e)[Len(s) + 1] = e
      /\ DOMAIN s = 1 .. Len(s) /\ DOMAIN Append(s, e) = 1 .. (Len(s) + 1)
  OBVIOUS
<1>2. 1 .. (Len(s) + 1) = (1 .. Len(s)) \cup {Len(s) + 1}
  BY <1>1
<1>3. Elems(Append(s, e)) = {Append(s, e)[i] : i \in 1 .. Len(s)} \cup {e}
  BY <1>1, <1>2 DEF Elems
<1>4. {Append(s, e)[i] : i \in 1 .. Len(s)} = Elems(s)
  BY <1>1 DEF Elems
<1> QED BY <1>1, <1>3, <1>4

LEMMA OfTail ==
  ASSUME NEW s \in Seq(Nat), s # <<>>
  PROVE  /\ Tail(s) \in Seq(Nat) /\ Head(s) \in Nat
         /\ Elems(s) = Elems(Tail(s)) \cup {Head(s)}
         /\ Len(s) \in Nat /\ Len(s) >= 1 /\ Len(Tail(s)) = Len(s) - 1
         /\ Head(s) = s[1] /\ \A i \in 1 .. Len(s) - 1 : Tail(s)[i] = s[i + 1]
<1>1. /\ Tail(s) \in Seq(Nat) /\ Head(s) \in Nat
      /\ Len(s) \in Nat /\ Len(s) >= 1 /\ Len(Tail(s)) = Len(s) - 1
      /\ Head(s) = s[1] /\ \A i \in 1 .. Len(s) - 1 : Tail(s)[i] = s[i + 1]
      /\ DOMAIN s = 1 .. Len(s) /\ DOMAIN Tail(s) = 1 .. Len(s) - 1
  OBVIOUS
<1>2. ASSUME NEW x \in Elems(s) PROVE x \in Elems(Tail(s)) \cup {Head(s)}
  <2>1. PICK i \in 1 .. Len(s) : x = s[i]
    BY <1>1 DEF Elems
  <2>2. CASE i = 1
    BY <1>1, <2>1, <2>2
  <2>3. CASE i # 1
    <3>1. i - 1 \in 1 .. Len(s) - 1 /\ x = Tail(s)[i - 1]
      BY <1>1, <2>1, <2>3
    <3> QED BY <1>1, <3>1 DEF Elems
  <2> QED BY <2>2, <2>3
<1>3. ASSUME NEW x \in Elems(Tail(s)) \cup {Head(s)} PROVE x \in Elems(s)
  <2>1. CASE x = Head(s)
    BY <1>1, <2>1 DEF Elems
  <2>2. CASE x \in Elems(Tail(s))
    <3>1. PICK i \in 1 .. Len(s) - 1 : x = Tail(s)[i]
      BY <1>1, <2>2 DEF Elems
    <3>2. i + 1 \in 1 .. Len(s) /\ x = s[i + 1]
      BY <1>1, <3>1
    <3> QED BY <1>1, <3>2 DEF Elems
  <2> QED BY <2>1, <2>2
<1> QED BY <1>1, <1>2, <1>3

(* A new chunk is put behind all the others. *)
LEMMA Admits ==
  ASSUME NEW o \in Seq(Nat), NEW r \in Nat, NEW q \in Seq(Nat), NEW e \in Nat,
         InOrder(o, r, q), r < e, e # 0,
         \A i \in 1 .. Len(o) : o[i] < e, \A i \in 1 .. Len(q) : q[i] < e
  PROVE  /\ InOrder(o, r, Append(q, e))
         /\ Held(o, r, Append(q, e)) = Held(o, r, q) \cup {e}
<1>1. /\ Len(q) \in Nat /\ Len(Append(q, e)) = Len(q) + 1
      /\ \A i \in 1 .. Len(q) : Append(q, e)[i] = q[i]
      /\ Append(q, e)[Len(q) + 1] = e
      /\ Elems(Append(q, e)) = Elems(q) \cup {e}
  BY OfAppend
<1>2. \A i \in 1 .. Len(q) + 1 : i \in 1 .. Len(q) \/ i = Len(q) + 1
  BY <1>1
<1>3. Increasing(Append(q, e))
  BY <1>1, <1>2 DEF InOrder, Increasing
<1>4. InOrder(o, r, Append(q, e))
  BY <1>1, <1>2, <1>3 DEF InOrder
<1> QED BY <1>1, <1>4 DEF Held

(* The entry being read is output, or a chunk for which nothing waits. *)
LEMMA Outputs ==
  ASSUME NEW o \in Seq(Nat), NEW r \in Nat \ {0}, NEW q \in Seq(Nat), InOrder(o, r, q)
  PROVE  /\ InOrder(Append(o, r), 0, q)
         /\ Held(Append(o, r), 0, q) = Held(o, r, q)
<1>1. /\ Len(o) \in Nat /\ Len(Append(o, r)) = Len(o) + 1
      /\ \A i \in 1 .. Len(o) : Append(o, r)[i] = o[i]
      /\ Append(o, r)[Len(o) + 1] = r
      /\ Elems(Append(o, r)) = Elems(o) \cup {r}
  BY OfAppend
<1>2. \A i \in 1 .. Len(o) + 1 : i \in 1 .. Len(o) \/ i = Len(o) + 1
  BY <1>1
<1>3. Increasing(Append(o, r))
  BY <1>1, <1>2 DEF InOrder, Increasing
<1>4. InOrder(Append(o, r), 0, q)
  BY <1>1, <1>2, <1>3 DEF InOrder
<1> QED BY <1>1, <1>4 DEF Held

(* The first of the queue is read next. *)
LEMMA Reads ==
  ASSUME NEW o \in Seq(Nat), NEW q \in Seq(Nat \ {0}), q # <<>>, InOrder(o, 0, q)
  PROVE  /\ InOrder(o, Head(q), Tail(q))
         /\ Held(o, Head(q), Tail(q)) = Held(o, 0, q)
<1>0. q \in Seq(Nat) /\ Head(q) # 0
  BY SeqWidens
<1>1. /\ Len(q) \in Nat /\ Len(q) >= 1 /\ Len(Tail(q)) = Len(q) - 1
      /\ Head(q) = q[1] /\ \A i \in 1 .. Len(q) - 1 : Tail(q)[i] = q[i + 1]
      /\ Elems(q) = Elems(Tail(q)) \cup {Head(q)}
  BY <1>0, OfTail
<1>2. \A i \in 1 .. Len(q) - 1 : i + 1 \in 1 .. Len(q) /\ 1 < i + 1
  BY <1>1
<1>3. Increasing(Tail(q)) /\ \A i \in 1 .. Len(q) - 1 : Head(q) < Tail(q)[i]
  BY <1>1, <1>2 DEF InOrder, Increasing
<1>4. InOrder(o, Head(q), Tail(q))
  BY <1>1, <1>2, <1>3 DEF InOrder
<1> QED BY <1>0, <1>1, <1>4 DEF Held

(* Drain(q, ...) leaves the entries that InOrder and Held speak of.        *)
LEMMA DrainOrder ==
  ASSUME NEW o \in Seq(Nat), NEW q \in Seq(Nat \ {0}), NEW n, NEW b, InOrder(o, 0, q),
         Flow!Drain(q, n, b)
  PROVE  InOrder(o, reading', queue') /\ Held(o, reading', queue') = Held(o, 0, q)
<1>1. \/ queue' = q /\ reading' = 0
      \/ q # <<>> /\ queue' = Tail(q) /\ reading' = Head(q)
  BY DEF Flow!Drain
<1> QED BY <1>1, Reads

(* Emitted chunks are numbers of which the next one is the largest.        *)
LEMMA Numbered ==
  ASSUME Flow!TypeOK
  PROVE  /\ emitted \in Nat /\ emitted + 1 \in Nat \ {0} /\ emitted < emitted + 1
         /\ out \in Seq(Nat) /\ queue \in Seq(Nat) /\ queue \in Seq(Nat \ {0})
         /\ reading \in Nat /\ reading < emitted + 1
         /\ \A i \in 1 .. Len(out) : out[i] < emitted + 1
         /\ \A i \in 1 .. Len(queue) : queue[i] < emitted + 1
<1>1. /\ emitted \in Nat /\ out \in Seq(1 .. emitted) /\ queue \in Seq(1 .. emitted)
      /\ reading \in 0 .. emitted
  BY FlowTyped DEF Flow!TypeOK
<1>2. /\ \A i \in 1 .. Len(out) : out[i] \in 1 .. emitted
      /\ \A i \in 1 .. Len(queue) : queue[i] \in 1 .. emitted
  BY <1>1
<1>3. 1 .. emitted \subseteq Nat \ {0}
  BY <1>1
<1>4. out \in Seq(Nat) /\ queue \in Seq(Nat \ {0}) /\ queue \in Seq(Nat)
  BY <1>1, <1>3, SeqWidens
<1> QED BY <1>1, <1>2, <1>4

LEMMA OrderStep == ASSUME FlowInv, Ordered, [Flow!Next]_(Flow!vars) PROVE Ordered'
<1>0. Flow!TypeOK
  BY DEF FlowInv
<1> DEFINE All == lost \cup Held(out, reading, queue)
<1>1. /\ InOrder(out, reading, queue) /\ (~disposed => 1 .. emitted = All)
  BY DEF Ordered
<1>2. InOrder(out, 0, queue)
  BY <1>1 DEF InOrder
<1>3. 1 .. (emitted + 1) = (1 .. emitted) \cup {emitted + 1}
  BY <1>0, Numbered
<1>4. CASE \E final \in BOOLEAN : Flow!PlainChunk(final)
  <2>1. /\ reading = 0 /\ queue = <<>> /\ emitted' = emitted + 1
        /\ out' = Append(out, emitted + 1) /\ UNCHANGED <<reading, queue, lost, disposed>>
    BY <1>4 DEF Flow!PlainChunk, Flow!Queues, Flow!Active, Flow!entries
  <2>2. InOrder(out, emitted + 1, queue)
    BY <1>0, <1>2, <2>1, Numbered DEF InOrder
  <2>3. /\ InOrder(out', 0, queue)
        /\ Held(out', 0, queue) = Held(out, emitted + 1, queue)
    BY <1>0, <2>1, <2>2, Numbered, Outputs
  <2>4. Held(out, emitted + 1, queue) = Held(out, reading, queue) \cup {emitted + 1}
    BY <1>0, <2>1, Numbered DEF Held
  <2> QED BY <1>1, <1>3, <2>1, <2>3, <2>4 DEF Ordered
<1>5. CASE \E hasFile \in BOOLEAN : Flow!QueuedChunk(hasFile)
  <2> DEFINE q == Append(queue, emitted + 1)
  <2>1. /\ emitted' = emitted + 1 /\ UNCHANGED <<out, lost, disposed>>
        /\ IF Flow!Active THEN queue' = q /\ reading' = reading
                     ELSE Flow!Drain(q, bytes', backlog)
    BY <1>5 DEF Flow!QueuedChunk
  <2>2. InOrder(out, reading, q) /\ Held(out, reading, q) = Held(out, reading,
                                                                 queue) \cup {emitted + 1}
    <3>1. /\ emitted + 1 \in Nat /\ emitted + 1 # 0 /\ reading \in Nat /\ reading < emitted + 1
          /\ out \in Seq(Nat) /\ queue \in Seq(Nat)
          /\ \A i \in 1 .. Len(out) : out[i] < emitted + 1
          /\ \A i \in 1 .. Len(queue) : queue[i] < emitted + 1
      BY <1>0, Numbered
    <3>2. PICK e \in Nat : e = emitted + 1
      BY <3>1
    <3>3. /\ InOrder(out, reading, Append(queue, e))
          /\ Held(out, reading, Append(queue, e)) = Held(out, reading, queue) \cup {e}
      <4>1. /\ reading < e /\ e # 0 /\ InOrder(out, reading, queue)
            /\ \A i \in 1 .. Len(out) : out[i] < e
            /\ \A i \in 1 .. Len(queue) : queue[i] < e
        BY <1>1, <3>1, <3>2
      <4>2. e \in Nat /\ reading \in Nat /\ out \in Seq(Nat) /\ queue \in Seq(Nat)
        BY <3>1, <3>2
      <4> QED BY <4>1, <4>2, Admits, SMTT(60)
    <3> QED BY <3>2, <3>3
  <2>3. q \in Seq(Nat \ {0})
    BY <1>0, Numbered
  <2> HIDE DEF q
  <2>4. InOrder(out, reading', queue') /\ Held(out, reading', queue') = Held(out, reading, q)
    <3>1. CASE Flow!Active
      BY <2>1, <2>2, <3>1
    <3>2. CASE ~Flow!Active
      <4>1. reading = 0
        BY <3>2 DEF Flow!Active
      <4> QED BY <1>0, <2>1, <2>2, <2>3, <3>2, <4>1, Numbered, DrainOrder
    <3> QED BY <3>1, <3>2
  <2> QED BY <1>1, <1>3, <2>1, <2>2, <2>4 DEF Ordered
<1>6. CASE \E size \in 0 .. Expansion, final \in BOOLEAN : Flow!ReadDone(size, final)
  <2>1. /\ reading # 0 /\ out' = Append(out, reading) /\ reading' = 0
        /\ UNCHANGED <<emitted, queue, lost, disposed>>
    BY <1>6 DEF Flow!ReadDone
  <2> QED BY <1>0, <1>1, <2>1, Numbered, Outputs DEF Ordered
<1>7. CASE Flow!TasksDone
  <2>1. reading = 0
    BY <1>0, <1>7 DEF Flow!TasksDone, Flow!TypeOK
  <2>2. Flow!Drain(queue, bytes', backlog) /\ UNCHANGED <<emitted, out, lost, disposed>>
    BY <1>7 DEF Flow!TasksDone, Flow!Settle
  <2> QED BY <1>0, <1>1, <2>1, <2>2, Numbered, DrainOrder DEF Ordered
<1>8. CASE Flow!ReadFails
  <2>1. /\ Flow!Drain(queue, bytes', backlog) /\ lost' = lost \cup {reading} /\ reading # 0
        /\ UNCHANGED <<emitted, out, disposed>>
    BY <1>8 DEF Flow!ReadFails, Flow!Settle
  <2>2. /\ InOrder(out, reading', queue')
        /\ Held(out, reading', queue') = Held(out, 0, queue)
    BY <1>0, <1>2, <2>1, Numbered, DrainOrder
  <2>3. lost' \cup Held(out, 0, queue) = All
    BY <2>1 DEF Held
  <2> QED BY <1>1, <2>1, <2>2, <2>3 DEF Ordered
<1>9. CASE Flow!Poll
  <2>1. UNCHANGED <<emitted, out, lost, disposed>>
    BY <1>9 DEF Flow!Poll
  <2>2. \/ UNCHANGED <<queue, reading>>
        \/ reading = 0 /\ queue # <<>> /\ queue' = Tail(queue) /\ reading' = Head(queue)
    BY <1>9 DEF Flow!Poll, Flow!Active
  <2>3. InOrder(out, reading', queue') /\ Held(out, reading', queue') = Held(out, reading,
                                                                             queue)
    BY <1>0, <1>1, <2>2, Numbered, Reads
  <2> QED BY <1>1, <2>1, <2>3 DEF Ordered
<1>10. CASE Flow!BatchTimer
  BY <1>1, <1>10 DEF Flow!BatchTimer, Flow!entries, Ordered
<1>11. CASE \E c \in Consumer : \/ \E size \in 0 .. Replay : Flow!Join(c, size)
                               \/ Flow!Leave(c)
                               \/ Flow!Take(c)
  BY <1>1, <1>11 DEF Flow!Join, Flow!Leave, Flow!Take, Flow!entries, Ordered
<1>12. CASE Flow!Dispose
  <2>1. disposed' /\ queue' = <<>> /\ reading' = 0 /\ out' = out
    BY <1>12 DEF Flow!Dispose
  <2>2. InOrder(out, 0, <<>>)
    BY <1>1 DEF InOrder, Increasing
  <2> QED BY <2>1, <2>2 DEF Ordered
<1>13. CASE UNCHANGED Flow!vars
  BY <1>1, <1>13 DEF Flow!vars, Flow!entries, Ordered
<1> QED
  BY <1>4, <1>5, <1>6, <1>7, <1>8, <1>9, <1>10, <1>11, <1>12, <1>13 DEF Flow!Next

LEMMA OrderStarts == Flow!Init => Ordered
<1> SUFFICES ASSUME Flow!Init PROVE Ordered
  OBVIOUS
<1>1. InOrder(<<>>, 0, <<>>) /\ Held(<<>>, 0, <<>>) = {} /\ 1 .. 0 = {}
  BY DEF InOrder, Increasing, Held, Elems
<1> QED BY <1>1 DEF Flow!Init, Ordered

LEMMA OrderHolds == FlowInv /\ Ordered => Flow!OrderKept
<1> SUFFICES ASSUME FlowInv, Ordered PROVE Flow!OrderKept
  OBVIOUS
<1>1. Len(out) \in Nat
  BY FlowTyped DEF FlowInv
<1>2. \A i \in 1 .. Len(out) - 1 : i \in 1 .. Len(out) /\ i + 1 \in 1 .. Len(out) /\ i < i + 1
  BY <1>1
<1>3. \A i \in 1 .. Len(out) - 1 : out[i] < out[i + 1]
  BY <1>2 DEF Ordered, InOrder, Increasing
<1> QED BY <1>3 DEF Ordered, Held, Elems, Flow!OrderKept

(* Chunks are output once and in order, and none is forgotten, however     *)
(* long the reads of the files between them take and whichever fail.       *)
THEOREM OrderIsKept == Flow!Spec => []Flow!OrderKept
<1>1. FlowInv /\ Ordered /\ [Flow!Next]_(Flow!vars) => Ordered'
  BY OrderStep
<1> QED BY <1>1, OrderStarts, OrderHolds, FlowInvariance, PTL DEF Flow!Spec

HIDE FlowSizes

-----------------------------------------------------------------------------
(* Browser control                                                         *)

(* A socket that was current is, or is closed, and what is being opened is *)
(* a socket.                                                               *)
BrowserInv ==
    /\ Browser!TypeOK
    /\ Browser!OneSocket
    /\ connecting = "socket" => opening # Browser!None

LEMMA BrowserStart == Browser!Init => BrowserInv
BY BrowserFits DEF Browser!Init, BrowserInv, Browser!TypeOK, Browser!OneSocket,
   Browser!None, Browser!Sockets, Browser!Callers

(* What the promises of callers leave typed. *)
CallersTyped ==
    /\ call \in [Browser!Callers -> Browser!Sockets \cup {Browser!None}]
    /\ step \in [Openers -> {"idle", "connecting", "calling", "opened", "fallback"}]
    /\ attempt \in [Openers -> 0 .. MaxAttempts]

LEMMA ConnectedTyped ==
  ASSUME Browser!TypeOK, NEW s \in Browser!Sockets, Browser!Connected(s)
  PROVE  CallersTyped' /\ connecting' = "idle" /\ opening' = Browser!None
BY DEF CallersTyped, Browser!TypeOK, Browser!Connected, Browser!Waiting

LEMMA NotConnectedTyped ==
  ASSUME Browser!TypeOK, Browser!NotConnected
  PROVE  CallersTyped' /\ connecting' = "idle" /\ opening' = Browser!None
BY DEF CallersTyped, Browser!TypeOK, Browser!NotConnected, Browser!Waiting

LEMMA RejectedTyped ==
  ASSUME Browser!TypeOK, NEW failed, NEW first, NEW theirs \in Browser!Sockets \cup {Browser!None},
         NEW manual, Browser!Rejected(failed, first, theirs, manual)
  PROVE  /\ CallersTyped'
         /\ connecting' \in {connecting, "extension"} /\ opening' = opening
         /\ ws' \in {theirs, Browser!None}
<1> DEFINE again == {o \in Openers \cap failed : attempt[o] < MaxAttempts}
           Settle(retry, s) ==
            /\ call' = [c \in Browser!Callers |-> IF c \in again THEN s
                          ELSE IF c \in failed THEN Browser!None ELSE call[c]]
            /\ step' = [o \in Openers |-> IF o \in again THEN retry
                          ELSE IF o \in failed THEN "fallback" ELSE step[o]]
            /\ ws' = s
<1>1. /\ attempt' = [o \in Openers |-> IF o \in again THEN attempt[o] + 1 ELSE attempt[o]]
      /\ Settle("connecting", Browser!None) \/ Settle("calling", theirs)
            \/ Settle("fallback", Browser!None)
      /\ connecting' \in {connecting, "extension"} /\ opening' = opening
  BY DEF Browser!Rejected
<1>2. attempt' \in [Openers -> 0 .. MaxAttempts]
  BY <1>1, BrowserFits DEF Browser!TypeOK
<1>3. ASSUME NEW retry \in {"connecting", "calling", "fallback"},
             NEW s \in {theirs, Browser!None}, Settle(retry, s)
      PROVE  /\ call' \in [Browser!Callers -> Browser!Sockets \cup {Browser!None}]
             /\ step' \in [Openers -> {"idle", "connecting", "calling", "opened", "fallback"}]
             /\ ws' \in {theirs, Browser!None}
  BY <1>3 DEF Browser!TypeOK
<1> HIDE DEF Settle, again
<1> QED BY <1>1, <1>2, <1>3 DEF CallersTyped

LEMMA DroppedKeeps ==
  ASSUME BrowserInv, NEW first, NEW manual, Browser!Dropped(first, manual),
         attached' = attached, wronged' \subseteq Browser!Sockets
  PROVE  BrowserInv'
<1> USE BrowserFits DEF BrowserInv, Browser!TypeOK, Browser!OneSocket
<1>1. /\ state' = [s \in Browser!Sockets |->
                     IF s = ws THEN Browser!Closing(s) ELSE state[s]]
      /\ client' = client
      /\ Browser!Rejected(Browser!Pending \cup first, first, client, manual)
  BY DEF Browser!Dropped
<1>2. /\ CallersTyped'
      /\ connecting' \in {connecting, "extension"} /\ opening' = opening
      /\ ws' \in {client, Browser!None}
  BY <1>1, RejectedTyped
<1>3. \A s : Browser!Closing(s) \in {"closing", "closed"}
  BY DEF Browser!Closing
<1>4. /\ state' \in [Browser!Sockets -> {"unused", "opening", "open", "silent", "closing", "closed"}]
      /\ \A s \in attached : s # ws' => state'[s] \in {"closing", "closed"}
  BY <1>1, <1>3
<1> QED BY <1>1, <1>2, <1>4 DEF CallersTyped

(* attach() keeps what is not current any more closed. *)
LEMMA AttachedKeeps ==
  ASSUME Browser!TypeOK, Browser!OneSocket, NEW s \in Browser!Sockets,
         NEW states \in [Browser!Sockets -> {"unused", "opening", "open", "silent", "closing", "closed"}],
         \A t \in Browser!Sockets \ {s} : states[t] = state[t]
  PROVE  /\ Browser!Attached(s, states) \in
               [Browser!Sockets -> {"unused", "opening", "open", "silent", "closing", "closed"}]
         /\ \A t \in attached : t # s =>
               Browser!Attached(s, states)[t] \in {"closing", "closed"}
BY DEF Browser!TypeOK, Browser!OneSocket, Browser!Attached, Browser!Closing

LEMMA BrowserStep == ASSUME BrowserInv, [Browser!Next]_(Browser!vars) PROVE BrowserInv'
<1> DEFINE states == {"unused", "opening", "open", "silent", "closing", "closed"}
           steps == {"idle", "connecting", "calling", "opened", "fallback"}
           sockets == Browser!Sockets \cup {Browser!None}
<1> USE BrowserFits DEF BrowserInv, Browser!TypeOK, Browser!OneSocket
<1>0. /\ Browser!Sockets \subseteq Nat \ {0} /\ Browser!None = 0
      /\ Openers \subseteq Browser!Callers
  BY DEF Browser!Sockets, Browser!None, Browser!Callers
<1>1. ASSUME NEW o \in Openers, Browser!OpenTab(o) PROVE BrowserInv'
  <2> DEFINE takes == ~Browser!IsConnected /\ connecting = "idle" /\ client # Browser!None
             socket == IF takes THEN client ELSE ws
  <2>1. /\ ws' = socket
        /\ state' = IF takes THEN Browser!Attached(socket, state) ELSE state
        /\ call' \in {call, [call EXCEPT ![o] = socket]}
        /\ \E r \in steps : step' = [step EXCEPT ![o] = r]
        /\ attempt' = [attempt EXCEPT ![o] = 1]
        /\ connecting' \in {connecting, "extension"}
        /\ client' = client /\ opening' = opening /\ attached' = attached
        /\ wronged' = wronged
    BY <1>1 DEF Browser!OpenTab
  <2>2. socket \in sockets /\ (takes => client \in Browser!Sockets)
    OBVIOUS
  <2>3. /\ state' \in [Browser!Sockets -> states]
        /\ \A t \in attached : t # ws' => state'[t] \in {"closing", "closed"}
    <3>1. CASE takes
      BY <2>1, <2>2, <3>1, AttachedKeeps
    <3>2. CASE ~takes
      BY <2>1, <3>2
    <3> QED BY <3>1, <3>2
  <2>4. CallersTyped'
    BY <1>0, <2>1, <2>2 DEF CallersTyped
  <2> HIDE DEF takes, socket
  <2> QED BY <2>1, <2>2, <2>3, <2>4 DEF CallersTyped
<1>2. CASE Browser!SendProbe
  BY <1>0, <1>2 DEF Browser!SendProbe, Browser!sockets, Browser!establishing,
     Browser!IsConnected, Browser!ReadsOpen
<1>3. ASSUME NEW c \in Browser!Callers, Browser!Reply(c) PROVE BrowserInv'
  BY <1>0, <1>3 DEF Browser!Reply, Browser!sockets, Browser!establishing
<1>4. ASSUME NEW c \in Browser!Callers, Browser!TimesOut(c) PROVE BrowserInv'
  <2>1. wronged' \subseteq Browser!Sockets
    BY <1>0, <1>4 DEF Browser!TimesOut
  <2> QED BY <1>4, <2>1, DroppedKeeps DEF Browser!TimesOut
<1>5. CASE Browser!Reset
  BY <1>5, DroppedKeeps DEF Browser!Reset
<1>6. ASSUME NEW s \in Browser!Sockets, Browser!ExtensionConnects(s) PROVE BrowserInv'
  <2> DEFINE now == Browser!Attached(s, [state EXCEPT ![s] = "open"])
  <2>1. /\ now \in [Browser!Sockets -> states]
        /\ \A t \in attached : t # s => now[t] \in {"closing", "closed"}
    BY AttachedKeeps
  <2>2. /\ state' = [t \in Browser!Sockets |-> IF t = client THEN "closing" ELSE now[t]]
        /\ ws' = s /\ client' = s /\ wronged' = wronged
        /\ attached' = attached \cup {s}
    BY <1>6 DEF Browser!ExtensionConnects
  <2>3. /\ state' \in [Browser!Sockets -> states]
        /\ \A t \in attached' : t # ws' => state'[t] \in {"closing", "closed"}
        /\ ws' \in sockets /\ client' \in sockets /\ wronged' \subseteq Browser!Sockets
        /\ attached' \subseteq Browser!Sockets
    <3> HIDE DEF now
    <3> QED BY <2>1, <2>2
  <2>4. CASE connecting = "extension"
    BY <1>6, <2>3, <2>4, ConnectedTyped DEF Browser!ExtensionConnects, CallersTyped
  <2>5. CASE connecting # "extension"
    BY <1>6, <2>3, <2>5
       DEF Browser!ExtensionConnects, Browser!establishing, Browser!callers
  <2> QED BY <2>4, <2>5
<1>7. CASE Browser!WaitEnds
  BY <1>7 DEF Browser!WaitEnds, Browser!sockets, Browser!callers
<1>8. CASE Browser!Detected
  <2> USE <1>8 DEF Browser!Detected
  <2>1. CASE Browser!NotConnected /\ UNCHANGED <<state, ws>>
    BY <2>1, NotConnectedTyped DEF CallersTyped
  <2>2. CASE /\ client # Browser!None /\ Browser!Connected(client)
             /\ ws' = client /\ state' = Browser!Attached(client, state)
    <3>1. client \in Browser!Sockets
      BY <2>2
    <3>2. /\ state' \in [Browser!Sockets -> states]
          /\ \A t \in attached : t # ws' => state'[t] \in {"closing", "closed"}
      BY <2>2, <3>1, AttachedKeeps
    <3> QED BY <2>2, <3>1, <3>2, ConnectedTyped DEF CallersTyped
  <2>3. CASE /\ client = Browser!None /\ connecting' = "socket"
             /\ UNCHANGED <<ws, Browser!callers>>
             /\ \E s \in Browser!Unused :
                   opening' = s /\ state' = [state EXCEPT ![s] = "opening"]
    BY <1>0, <2>3 DEF Browser!callers, Browser!Unused
  <2> QED BY <2>1, <2>2, <2>3
<1>9. CASE Browser!OpenSucceeds
  <2>1. opening \in Browser!Sockets
    BY <1>9 DEF Browser!OpenSucceeds
  <2>2. /\ state' \in [Browser!Sockets -> states]
        /\ \A t \in attached : t # opening => state'[t] \in {"closing", "closed"}
    BY <1>9, <2>1, AttachedKeeps DEF Browser!OpenSucceeds
  <2>3. /\ ws' = opening /\ client' = client /\ wronged' = wronged
        /\ attached' = attached \cup {opening} /\ Browser!Connected(opening)
    BY <1>9 DEF Browser!OpenSucceeds
  <2> QED BY <2>1, <2>2, <2>3, ConnectedTyped DEF CallersTyped
<1>10. CASE Browser!OpenFails
  <2>1. /\ state' \in [Browser!Sockets -> states]
        /\ \A t \in attached : t # ws => state'[t] \in {"closing", "closed"}
        /\ ws' = ws /\ client' = client /\ attached' = attached /\ wronged' = wronged
    BY <1>0, <1>10 DEF Browser!OpenFails
  <2>2. CASE Browser!IsConnected
    <3>1. ws \in Browser!Sockets
      BY <2>2 DEF Browser!IsConnected, Browser!ReadsOpen
    <3> QED BY <1>10, <2>1, <2>2, <3>1, ConnectedTyped DEF Browser!OpenFails, CallersTyped
  <2>3. CASE ~Browser!IsConnected
    BY <1>10, <2>1, <2>3 DEF Browser!OpenFails, Browser!callers
  <2> QED BY <2>2, <2>3
<1>11. ASSUME NEW s \in Browser!Sockets, Browser!FallsSilent(s) PROVE BrowserInv'
  BY <1>0, <1>11 DEF Browser!FallsSilent, Browser!establishing, Browser!callers
<1>12. ASSUME NEW s \in Browser!Sockets, Browser!Wakes(s) PROVE BrowserInv'
  BY <1>0, <1>12 DEF Browser!Wakes, Browser!establishing, Browser!callers
<1>13. CASE Browser!PeerCloses
  <2>1. CASE ws = client
    BY <1>0, <1>13, <2>1 DEF Browser!PeerCloses, Browser!establishing, Browser!callers
  <2>2. CASE ws # client
    BY <1>13, <2>2, DroppedKeeps DEF Browser!PeerCloses
  <2> QED BY <2>1, <2>2
<1>14. ASSUME NEW s \in Browser!Sockets, Browser!Closed(s) PROVE BrowserInv'
  <2>1. /\ state' \in [Browser!Sockets -> states]
        /\ \A t \in attached : t # ws \/ ws = s => state'[t] \in {"closing", "closed"}
        /\ client' \in sockets /\ attached' = attached /\ wronged' = wronged
    BY <1>0, <1>14 DEF Browser!Closed
  <2>2. CASE ws = s
    <3>1. Browser!Rejected(Browser!Pending, {}, Browser!None, FALSE)
      BY <1>14, <2>2 DEF Browser!Closed
    <3>2. /\ CallersTyped'
          /\ connecting' \in {connecting, "extension"} /\ opening' = opening
          /\ ws' = Browser!None
      BY <3>1, RejectedTyped
    <3> QED BY <2>1, <2>2, <3>2 DEF CallersTyped
  <2>3. CASE ws # s
    BY <1>14, <2>1, <2>3 DEF Browser!Closed, Browser!establishing, Browser!callers
  <2> QED BY <2>2, <2>3
<1>15. CASE UNCHANGED Browser!vars
  BY <1>15 DEF Browser!vars, Browser!sockets, Browser!establishing, Browser!callers
<1> QED BY <1>1, <1>2, <1>3, <1>4, <1>5, <1>6, <1>7, <1>8, <1>9, <1>10, <1>11, <1>12,
           <1>13, <1>14, <1>15 DEF Browser!Next

(* Every socket that was current and is not any more is closed or was      *)
(* asked to close, however callers, probes and the extension establish,    *)
(* replace, drop and attach again (attach in cdp-connection.ts).           *)
THEOREM BrowserHasOneSocket == Browser!Spec => []Browser!OneSocket
<1>1. Browser!Init => BrowserInv
  BY BrowserStart
<1>2. BrowserInv /\ [Browser!Next]_(Browser!vars) => BrowserInv'
  BY BrowserStep
<1>3. BrowserInv => Browser!OneSocket
  BY DEF BrowserInv
<1> QED BY <1>1, <1>2, <1>3, PTL DEF Browser!Spec

-----------------------------------------------------------------------------
(* The agent runner                                                        *)

(* Before it is stopped the job closes nothing, and only a job that has    *)
(* spawned its child does.                                                 *)
ClosesOnceStopped ==
    /\ work \in {"waits", "works"} => ~stopped /\ ~closing.on
    /\ work = "waits" => leader = "none"
    /\ work = "works" => leader # "none"
    /\ closing.on => leader # "none"
    /\ closing.exited \/ closing.forced => closing.on

(* What a close in progress knows of the processes is true: the child that *)
(* has exited is reaped, and SIGKILL has left none of the group that runs. *)
KnowsTheGroup ==
    /\ job = "run" /\ work = "closes" => closing.on
    /\ closing.exited => leader = "reaped"
    /\ job = "run" /\ closing.forced => rest = "none" /\ leader # "runs"
    /\ leader \in {"none", "failed"} => rest = "none"

AgentInv == Agent!TypeOK /\ ClosesOnceStopped /\ KnowsTheGroup /\ Agent!SettledIsGone

LEMMA AgentStart == Agent!Init => AgentInv
<1> SUFFICES ASSUME Agent!Init PROVE AgentInv
  OBVIOUS
<1>1. {drained, stopped, aborted} \subseteq BOOLEAN
  BY DEF Agent!Init
<1> QED BY <1>1, AgentFits
        DEF Agent!Init, AgentInv, Agent!TypeOK, ClosesOnceStopped, KnowsTheGroup,
            Agent!SettledIsGone, Agent!NotClosing, Agent!Off

Closings == [on : BOOLEAN, exited : BOOLEAN, forced : BOOLEAN, left : 0 .. Agent!Off]

(* Ends the wait that closing may be: nothing is closed any more, and the  *)
(* job that waited has settled.                                            *)
FinishesNow ==
    /\ closing' \in Closings
    /\ ~closing'.on /\ ~closing'.exited /\ ~closing'.forced
    /\ work' = IF work = "closes" THEN "settled" ELSE work

LEMMA FinishEffect == ASSUME Agent!Finish PROVE FinishesNow
<1>1. closing' = Agent!NotClosing
  BY DEF Agent!Finish
<1>2. /\ Agent!NotClosing \in Closings
      /\ ~Agent!NotClosing.on /\ ~Agent!NotClosing.exited /\ ~Agent!NotClosing.forced
  BY AgentFits DEF Agent!NotClosing, Closings, Agent!Off
<1> QED BY <1>1, <1>2 DEF Agent!Finish, FinishesNow

LEMMA OnExitEffect ==
  ASSUME closing \in Closings, NEW exists, Agent!OnExit(exists)
  PROVE  \/ closing.on /\ (closing.forced \/ ~exists) /\ FinishesNow
         \/ /\ ~(closing.on /\ (closing.forced \/ ~exists))
            /\ closing' \in Closings /\ work' = work
            /\ closing'.on <=> closing.on
            /\ closing'.forced <=> closing.forced
            /\ closing'.exited => closing.exited \/ closing.on
<1>1. CASE closing.on /\ (closing.forced \/ ~exists)
  BY <1>1, FinishEffect DEF Agent!OnExit
<1>2. CASE ~(closing.on /\ (closing.forced \/ ~exists))
  BY <1>2 DEF Agent!OnExit, Closings
<1> QED BY <1>1, <1>2

LEMMA BeginCloseEffect ==
  ASSUME NEW waits \in BOOLEAN, Agent!BeginClose(waits)
  PROVE  /\ stopped' \in BOOLEAN /\ stopped' /\ closing' \in Closings /\ ~closing'.forced
         /\ \/ /\ ~closing'.on /\ ~closing'.exited
               /\ Agent!HasExited /\ ~Agent!GroupExists /\ work' = "settled"
            \/ /\ closing'.on /\ (closing'.exited => Agent!HasExited)
               /\ ~(Agent!HasExited /\ ~Agent!GroupExists)
               /\ work' = IF waits THEN "closes" ELSE "settled"
<1>0. stopped' \in BOOLEAN /\ stopped'
  BY DEF Agent!BeginClose
<1>1. CASE Agent!HasExited /\ ~Agent!GroupExists
  <2>1. /\ Agent!NotClosing \in Closings
        /\ ~Agent!NotClosing.on /\ ~Agent!NotClosing.exited /\ ~Agent!NotClosing.forced
    BY AgentFits DEF Agent!NotClosing, Closings, Agent!Off
  <2> QED BY <1>0, <1>1, <2>1 DEF Agent!BeginClose
<1>2. CASE ~(Agent!HasExited /\ ~Agent!GroupExists)
  <2> DEFINE c == [on |-> TRUE, exited |-> Agent!HasExited, forced |-> FALSE, left |-> Delay]
  <2>1. c \in Closings /\ c.on /\ ~c.forced /\ (c.exited => Agent!HasExited)
    <3>1. Delay \in 0 .. Agent!Off
      BY AgentFits DEF Agent!Off
    <3>2. PICK b \in BOOLEAN : b <=> Agent!HasExited
      OBVIOUS
    <3> QED BY <3>1 DEF Closings, Agent!HasExited
  <2>2. closing' = c /\ work' = IF waits THEN "closes" ELSE "settled"
    BY <1>2 DEF Agent!BeginClose
  <2> QED BY <1>0, <1>2, <2>1, <2>2
<1> QED BY <1>1, <1>2

LEMMA ForcedEffect ==
  ASSUME closing \in Closings, Agent!Forced
  PROVE  \/ (closing.exited \/ Agent!HasExited) /\ FinishesNow
         \/ /\ ~(closing.exited \/ Agent!HasExited)
            /\ closing' \in Closings /\ work' = work
            /\ closing'.on <=> closing.on
            /\ closing'.forced /\ ~closing'.exited
<1>1. CASE closing.exited \/ Agent!HasExited
  BY <1>1, FinishEffect DEF Agent!Forced
<1>2. CASE ~(closing.exited \/ Agent!HasExited)
  <2>1. Agent!Off \in 0 .. Agent!Off
    BY AgentFits DEF Agent!Off
  <2>2. closing' = [closing EXCEPT !.forced = TRUE, !.left = Agent!Off] /\ work' = work
    BY <1>2 DEF Agent!Forced
  <2> QED BY <1>2, <2>1, <2>2 DEF Closings
<1> QED BY <1>1, <1>2

LEMMA AgentStep == ASSUME AgentInv, [Agent!Next]_(Agent!vars) PROVE AgentInv'
<1> USE AgentFits DEF AgentInv, Agent!TypeOK, ClosesOnceStopped, KnowsTheGroup,
        Agent!SettledIsGone, Agent!GroupExists, Agent!Grouped, Agent!HasExited,
        Closings, Agent!request, Agent!process
<1>0. closing \in Closings
  BY DEF Closings
<1>1. CASE Agent!Forks
  BY <1>1 DEF Agent!Forks
<1>2. CASE Agent!RestEnds
  BY <1>2 DEF Agent!RestEnds
<1>3. CASE Agent!LeaderEnds
  BY <1>3 DEF Agent!LeaderEnds
<1>4. CASE Agent!Exit
  BY <1>0, <1>4, OnExitEffect DEF Agent!Exit, FinishesNow
<1>5. CASE Agent!Close
  <2>1. drained' \in BOOLEAN
    BY <1>5 DEF Agent!Close
  <2>2. CASE harness = "custom" /\ work = "works"
    BY <1>5, <2>1, <2>2 DEF Agent!Close
  <2>3. CASE ~(harness = "custom" /\ work = "works")
    <3>1. Agent!OnExit(Agent!GroupExists)
      BY <1>5, <2>3 DEF Agent!Close
    <3> QED BY <1>0, <1>5, <2>1, <3>1, OnExitEffect DEF Agent!Close, FinishesNow
  <2> QED BY <2>2, <2>3
<1>6. CASE Agent!SpawnFails
  BY <1>6, FinishEffect DEF Agent!SpawnFails, FinishesNow
<1>7. CASE Agent!ForceKill
  BY <1>0, <1>7, ForcedEffect DEF Agent!ForceKill, FinishesNow
<1>8. CASE Agent!Elapse
  <2>1. closing.left - 1 \in 0 .. Agent!Off
    BY <1>8 DEF Agent!Elapse, Agent!Off
  <2>2. closing' = [closing EXCEPT !.left = @ - 1]
    BY <1>8 DEF Agent!Elapse
  <2>3. /\ closing' \in Closings
        /\ closing'.on = closing.on /\ closing'.exited = closing.exited
        /\ closing'.forced = closing.forced
    BY <1>0, <2>1, <2>2
  <2> QED BY <1>8, <2>3 DEF Agent!Elapse
<1>9. CASE Agent!Begins
  <2>1. CASE aborted
    BY <1>9, <2>1 DEF Agent!Begins
  <2>2. CASE ~aborted
    BY <1>9, <2>2 DEF Agent!Begins
  <2> QED BY <2>1, <2>2
<1>10. CASE Agent!Refuses
  BY <1>10 DEF Agent!Refuses
<1>11. CASE Agent!Concludes
  <2>1. Agent!BeginClose(job = "run")
    BY <1>11 DEF Agent!Concludes
  <2> QED BY <1>11, <2>1, BeginCloseEffect DEF Agent!Concludes
<1>12. CASE Agent!TimesOut
  <2>1. Agent!BeginClose(TRUE)
    BY <1>12 DEF Agent!TimesOut
  <2> QED BY <1>12, <2>1, BeginCloseEffect DEF Agent!TimesOut
<1>13. CASE Agent!CompactTimesOut
  BY <1>13 DEF Agent!CompactTimesOut
<1>14. CASE Agent!Abort
  <2>1. aborted' \in BOOLEAN
    BY <1>14 DEF Agent!Abort
  <2>2. CASE work = "works"
    <3>1. Agent!BeginClose(TRUE)
      BY <1>14, <2>2 DEF Agent!Abort
    <3> QED BY <1>14, <2>1, <2>2, <3>1, BeginCloseEffect DEF Agent!Abort
  <2>3. CASE work # "works"
    BY <1>14, <2>1, <2>3 DEF Agent!Abort
  <2> QED BY <2>2, <2>3
<1>15. CASE UNCHANGED Agent!vars
  BY <1>15 DEF Agent!vars
<1> QED BY <1>1, <1>2, <1>3, <1>4, <1>5, <1>6, <1>7, <1>8, <1>9, <1>10, <1>11, <1>12,
           <1>13, <1>14, <1>15 DEF Agent!Next

(* A run that was stopped settles only when its process group has ended or *)
(* was sent SIGKILL (closeChildProcess in pi-rpc-client.ts).               *)
THEOREM SettledRunIsGone == Agent!Spec => []Agent!SettledIsGone
<1>1. Agent!Init => AgentInv
  BY AgentStart
<1>2. AgentInv /\ [Agent!Next]_(Agent!vars) => AgentInv'
  BY AgentStep
<1>3. AgentInv => Agent!SettledIsGone
  BY DEF AgentInv
<1> QED BY <1>1, <1>2, <1>3, PTL DEF Agent!Spec

-----------------------------------------------------------------------------
(* Git metadata                                                            *)

(* What the two git commands of a pass have seen, and what a viewer shows. *)
Summaries == {r \in Seq(Nat) : Len(r) = 2}
Pages == {<<>>} \cup (Places \X Summaries)

Coordinators == [inFlight : BOOLEAN, pending : BOOLEAN, read : Seq(Nat),
                 last : {<<>>} \cup Summaries]
Watches == [up : BOOLEAN, note : BOOLEAN, timer : BOOLEAN, trailing : BOOLEAN]

(* Neither has a tree changed more often than there were news, nor are     *)
(* more frames held.                                                       *)
GitInv ==
    /\ news \in 0 .. MaxNews
    /\ tree \in [Places -> 0 .. news]
    /\ here \in [Sessions -> Places]
    /\ att \in [Viewers -> {"gone", "pending", "live"}]
    /\ frames \in [Viewers -> 0 .. news]
    /\ shown \in [Viewers -> Pages]
    /\ co \in [Places -> Coordinators]
    /\ watch \in [Places -> Watches]
    /\ missed \in [Places -> BOOLEAN]

(* A page is empty or of a place. *)
LEMMA PageIs ==
  ASSUME NEW x \in Pages
  PROVE  x # <<>> => x[1] \in Places /\ Len(x[2]) = 2
<1>1. CASE x = <<>>
  BY <1>1
<1>2. CASE x \in Places \X Summaries
  BY <1>2 DEF Summaries
<1> QED BY <1>1, <1>2 DEF Pages

LEMMA GitIsTyped == GitInv => Git!TypeOK
<1> SUFFICES ASSUME GitInv PROVE Git!TypeOK
  OBVIOUS
<1>1. /\ tree \in [Places -> 0 .. MaxNews] /\ frames \in [Viewers -> 0 .. MaxNews]
      /\ here \in [Sessions -> Places] /\ missed \in [Places -> BOOLEAN]
      /\ att \in [Viewers -> {"gone", "pending", "live"}]
  BY GitFits DEF GitInv, Git!ParametersFit
<1>2. \A v \in Viewers : shown[v] # <<>> => shown[v][1] \in Places /\ Len(shown[v][2]) = 2
  BY PageIs DEF GitInv
<1>3. \A p \in Places : co[p].read \in Seq(Nat) /\ Len(co[p].last) \in {0, 2}
  <2> TAKE p \in Places
  <2>1. co[p] \in Coordinators
    BY DEF GitInv
  <2>2. co[p].read \in Seq(Nat) /\ co[p].last \in {<<>>} \cup Summaries
    BY <2>1 DEF Coordinators
  <2>3. CASE co[p].last = <<>>
    BY <2>2, <2>3
  <2>4. CASE co[p].last \in Summaries
    BY <2>2, <2>4 DEF Summaries
  <2> QED BY <2>2, <2>3, <2>4
<1> QED BY <1>1, <1>2, <1>3 DEF Git!TypeOK

LEMMA GitStarts == Git!Init => GitInv
<1> SUFFICES ASSUME Git!Init PROVE GitInv
  OBVIOUS
<1>1. <<>> \in Seq(Nat) /\ <<>> \in Pages
  BY DEF Pages
<1>2. Git!NewCoordinator \in Coordinators
  BY <1>1 DEF Git!NewCoordinator, Coordinators
<1>3. Git!NewWatch \in Watches
  BY DEF Git!NewWatch, Watches
<1>4. news \in 0 .. MaxNews
  BY GitFits DEF Git!Init, Git!ParametersFit
<1> QED BY <1>1, <1>2, <1>3, <1>4, GitFits DEF Git!Init, GitInv, Git!ParametersFit

LEMMA SignalledTyped ==
  ASSUME NEW c \in Coordinators
  PROVE  Git!Signalled(c) \in Coordinators
<1>1. <<>> \in Seq(Nat)
  OBVIOUS
<1> QED BY <1>1 DEF Git!Signalled, Coordinators

LEMMA JoinedTyped ==
  ASSUME NEW c \in Coordinators
  PROVE  Git!Joined(c) \in Coordinators
BY SignalledTyped DEF Git!Joined

LEMMA AfterPassTyped ==
  ASSUME NEW c \in Coordinators
  PROVE  Git!AfterPass(c) \in Coordinators
<1> DEFINE done == [c EXCEPT !.inFlight = FALSE, !.pending = FALSE, !.read = <<>>]
<1>1. <<>> \in Seq(Nat)
  OBVIOUS
<1>2. done \in Coordinators
  BY <1>1 DEF Coordinators
<1> HIDE DEF done
<1>3. Git!AfterPass(c) = IF c.pending THEN Git!Signalled(done) ELSE done
  BY DEF Git!AfterPass, done
<1> QED BY <1>2, <1>3, SignalledTyped

LEMMA ReplayedTyped ==
  ASSUME NEW p \in Places, NEW c \in Coordinators, NEW before \in Pages
  PROVE  Git!Replayed(p, c, before) \in Pages
<1>1. c.last \in {<<>>} \cup Summaries
  BY DEF Coordinators
<1> QED BY <1>1 DEF Git!Replayed, Git!Summary, Pages

LEMMA TriggeredTyped ==
  ASSUME NEW w \in Watches
  PROVE  Git!Triggered(w) \in Watches
BY DEF Git!Triggered, Watches

LEMMA KeptTyped ==
  ASSUME GitInv, NEW staying
  PROVE  /\ Git!Kept(co, staying) \in [Places -> Coordinators]
         /\ Git!KeptWatch(staying) \in [Places -> Watches]
<1>1. Git!NewCoordinator \in Coordinators
  <2>1. <<>> \in Seq(Nat)
    OBVIOUS
  <2> QED BY <2>1 DEF Git!NewCoordinator, Coordinators
<1>2. Git!NewWatch \in Watches
  BY DEF Git!NewWatch, Watches
<1> QED BY <1>1, <1>2 DEF Git!Kept, Git!KeptWatch, GitInv

(* Where a viewer's session is. *)
LEMMA PlaceOf == ASSUME GitInv, NEW v \in Viewers PROVE here[SessionOf[v]] \in Places
BY GitFits DEF GitInv, Git!ParametersFit

(* The bounds grow with the news. *)
LEMMA NewsGrow ==
  ASSUME GitInv, news < MaxNews, news' = news + 1, MaxNews \in Nat
  PROVE  /\ news' \in 0 .. MaxNews
         /\ tree \in [Places -> 0 .. news'] /\ frames \in [Viewers -> 0 .. news']
<1>1. news \in Nat /\ news' \in 0 .. MaxNews
  BY DEF GitInv
<1>2. \A q \in Places : tree[q] \in 0 .. news + 1
  BY <1>1 DEF GitInv
<1>3. \A v \in Viewers : frames[v] \in 0 .. news + 1
  BY <1>1 DEF GitInv
<1> QED BY <1>1, <1>2, <1>3 DEF GitInv

LEMMA GitStep == ASSUME GitInv, [Git!Next]_(Git!vars) PROVE GitInv'
<1> USE DEF Git!viewers, Git!bounds
<1>0. MaxNews \in Nat /\ news \in 0 .. MaxNews
  BY GitFits DEF GitInv, Git!ParametersFit
<1>00. \A p \in Places : watch[p] \in Watches
  BY DEF GitInv
<1>1. ASSUME NEW p \in Places, Git!Change(p) PROVE GitInv'
  <2>1. /\ tree' \in [Places -> 0 .. news'] /\ news' \in 0 .. MaxNews
        /\ frames' \in [Viewers -> 0 .. news']
    <3>1. /\ news' = news + 1 /\ news < MaxNews /\ frames' = frames
          /\ tree' = [tree EXCEPT ![p] = @ + 1]
      BY <1>1 DEF Git!Change
    <3>2. tree[p] + 1 \in 0 .. news + 1
      BY <1>0 DEF GitInv
    <3> QED BY <1>0, <3>1, <3>2, NewsGrow
  <2>2. watch' \in [Places -> Watches] /\ missed' \in [Places -> BOOLEAN]
    <3>1. [watch[p] EXCEPT !.note = TRUE] \in Watches
      BY <1>00 DEF Watches
    <3>2. /\ watch' = watch \/ watch' = [watch EXCEPT ![p] = [@ EXCEPT !.note = TRUE]]
          /\ missed' = missed \/ missed' = [missed EXCEPT ![p] = TRUE]
      BY <1>1 DEF Git!Change
    <3>3. watch' \in [Places -> Watches]
      BY <3>1, <3>2 DEF GitInv
    <3>4. missed' \in [Places -> BOOLEAN]
      BY <3>2 DEF GitInv
    <3> QED BY <3>3, <3>4
  <2> QED BY <1>1, <2>1, <2>2 DEF Git!Change, GitInv
<1>2. ASSUME NEW p \in Places, Git!Notice(p) PROVE GitInv'
  <2>1. watch' \in [Places -> Watches]
    BY <1>2, TriggeredTyped DEF Git!Notice, GitInv
  <2>2. co' \in [Places -> Coordinators]
    BY <1>2, SignalledTyped DEF Git!Notice, GitInv
  <2> QED BY <1>2, <2>1, <2>2 DEF Git!Notice, GitInv
<1>3. ASSUME NEW p \in Places, Git!Flush(p) PROVE GitInv'
  <2>1. watch' \in [Places -> Watches]
    <3>1. [watch[p] EXCEPT !.timer = @ /\ watch[p].trailing, !.trailing = FALSE] \in Watches
      BY <1>00 DEF Watches
    <3>2. watch' = [watch EXCEPT ![p] = [watch[p] EXCEPT !.timer = @ /\ watch[p].trailing,
                                                         !.trailing = FALSE]]
      BY <1>3 DEF Git!Flush, GitInv, Watches
    <3> QED BY <3>1, <3>2 DEF GitInv
  <2>2. co' \in [Places -> Coordinators]
    BY <1>3, SignalledTyped DEF Git!Flush, GitInv
  <2> QED BY <1>3, <2>1, <2>2 DEF Git!Flush, GitInv
<1>4. ASSUME NEW s \in Sessions, Git!Prompt(s) PROVE GitInv'
  <2>1. here[s] \in Places
    BY DEF GitInv
  <2>2. co' \in [Places -> Coordinators]
    BY <1>4, <2>1, SignalledTyped DEF Git!Prompt, GitInv
  <2>3. /\ news' \in 0 .. MaxNews /\ tree' \in [Places -> 0 .. news']
        /\ frames' \in [Viewers -> 0 .. news']
    BY <1>0, <1>4, NewsGrow DEF Git!Prompt
  <2> QED BY <1>4, <2>2, <2>3 DEF Git!Prompt, GitInv
<1>5. ASSUME NEW p \in Places, Git!WatchFails(p) PROVE GitInv'
  <2>1. [watch[p] EXCEPT !.up = FALSE, !.note = FALSE] \in Watches /\ watch[p].note \in BOOLEAN
    BY <1>00 DEF Watches
  <2>2. watch' = [watch EXCEPT ![p] = [watch[p] EXCEPT !.up = FALSE, !.note = FALSE]]
    BY <1>5 DEF Git!WatchFails, GitInv, Watches
  <2>3. missed' \in [Places -> BOOLEAN]
    BY <1>5, <2>1 DEF Git!WatchFails, GitInv
  <2>4. /\ news' \in 0 .. MaxNews /\ tree' \in [Places -> 0 .. news']
        /\ frames' \in [Viewers -> 0 .. news']
    BY <1>0, <1>5, NewsGrow DEF Git!WatchFails
  <2> QED BY <1>5, <2>1, <2>2, <2>3, <2>4 DEF Git!WatchFails, GitInv
<1>6. ASSUME NEW p \in Places, Git!WatchRecovers(p) PROVE GitInv'
  <2>1. [watch[p] EXCEPT !.up = TRUE] \in Watches
    BY <1>00 DEF Watches
  <2> QED BY <1>6, <2>1 DEF Git!WatchRecovers, GitInv
<1>7. ASSUME NEW p \in Places, Git!Read(p) PROVE GitInv'
  <2>1. tree[p] \in Nat /\ co[p] \in Coordinators
    BY <1>0 DEF GitInv
  <2>2. Append(co[p].read, tree[p]) \in Seq(Nat)
    BY <2>1 DEF Coordinators
  <2>3. [co[p] EXCEPT !.read = Append(@, tree[p])] \in Coordinators
    BY <2>1, <2>2 DEF Coordinators
  <2> QED BY <1>7, <2>3 DEF Git!Read, GitInv
<1>8. ASSUME NEW p \in Places, Git!Pass(p) PROVE GitInv'
  <2>1. co[p] \in Coordinators /\ co[p].read \in Summaries
    BY <1>8 DEF Git!Pass, GitInv, Coordinators, Summaries
  <2>2. [co[p] EXCEPT !.last = co[p].read] \in Coordinators
    BY <2>1 DEF Coordinators
  <2>3. co' \in [Places -> Coordinators]
    BY <1>8, <2>2, AfterPassTyped DEF Git!Pass, GitInv
  <2>4. <<p, co[p].read>> \in Pages
    BY <2>1 DEF Pages
  <2>5. shown' \in [Viewers -> Pages]
    BY <1>8, <2>4 DEF Git!Pass, GitInv
  <2>6. missed' \in [Places -> BOOLEAN]
    BY <1>8 DEF Git!Pass, GitInv
  <2> QED BY <1>8, <2>3, <2>5, <2>6 DEF Git!Pass, GitInv
<1>9. ASSUME NEW p \in Places, Git!PassFails(p) PROVE GitInv'
  <2>1. Git!EmptySummary \in Summaries
    BY <1>0 DEF Git!EmptySummary, Summaries
  <2>2. [co[p] EXCEPT !.last = Git!EmptySummary] \in Coordinators
    BY <2>1 DEF Coordinators, GitInv
  <2>3. co' \in [Places -> Coordinators]
    BY <1>9, <2>2, AfterPassTyped DEF Git!PassFails, GitInv
  <2>4. <<p, Git!EmptySummary>> \in Pages
    BY <2>1 DEF Pages
  <2>5. shown' \in [Viewers -> Pages]
    BY <1>9, <2>4 DEF Git!PassFails, GitInv
  <2>6. missed' \in [Places -> BOOLEAN]
    BY <1>9 DEF Git!PassFails, GitInv
  <2>7. /\ news' \in 0 .. MaxNews /\ tree' \in [Places -> 0 .. news']
        /\ frames' \in [Viewers -> 0 .. news']
    BY <1>0, <1>9, NewsGrow DEF Git!PassFails
  <2> QED BY <1>9, <2>3, <2>5, <2>6, <2>7 DEF Git!PassFails, GitInv
<1>10. ASSUME NEW v \in Viewers, Git!Attach(v) PROVE GitInv'
  <2> DEFINE p == here[SessionOf[v]]
  <2>1. p \in Places
    BY PlaceOf
  <2> HIDE DEF p
  <2>2. /\ visits' = visits + 1
        /\ att' = [att EXCEPT ![v] = "pending"]
        /\ frames' = [frames EXCEPT ![v] = 0]
        /\ shown' = [shown EXCEPT ![v] = Git!Replayed(p, co[p], <<>>)]
        /\ co' = [co EXCEPT ![p] = Git!Joined(@)]
        /\ missed' = IF Git!Watched(p) THEN missed ELSE [missed EXCEPT ![p] = FALSE]
        /\ UNCHANGED <<tree, here, watch, news>>
    BY <1>10 DEF Git!Attach, p
  <2>3. Git!Replayed(p, co[p], <<>>) \in Pages
    <3>1. <<>> \in Pages
      BY DEF Pages
    <3> QED BY <2>1, <3>1, ReplayedTyped DEF GitInv
  <2>4. co' \in [Places -> Coordinators]
    BY <2>1, <2>2, JoinedTyped DEF GitInv
  <2>5. frames' \in [Viewers -> 0 .. news]
    BY <1>0, <2>2 DEF GitInv
  <2>6. shown' \in [Viewers -> Pages]
    BY <2>2, <2>3 DEF GitInv
  <2>7. missed' \in [Places -> BOOLEAN]
    BY <2>2 DEF GitInv
  <2> QED BY <2>2, <2>4, <2>5, <2>6, <2>7 DEF GitInv
<1>11. ASSUME NEW v \in Viewers, Git!Detach(v) PROVE GitInv'
  <2>1. co' \in [Places -> Coordinators] /\ watch' \in [Places -> Watches]
    BY <1>11, KeptTyped DEF Git!Detach
  <2>2. shown' \in [Viewers -> Pages]
    <3>1. <<>> \in Pages
      BY DEF Pages
    <3> QED BY <1>11, <3>1 DEF Git!Detach, GitInv
  <2>3. frames' \in [Viewers -> 0 .. news]
    BY <1>0, <1>11 DEF Git!Detach, GitInv
  <2>4. att' \in [Viewers -> {"gone", "pending", "live"}]
    BY <1>11 DEF Git!Detach, GitInv
  <2> QED BY <1>11, <2>1, <2>2, <2>3, <2>4 DEF Git!Detach, GitInv
<1>12. ASSUME NEW v \in Viewers, Git!SendHeld(v) PROVE GitInv'
  <2>1. shown' \in [Viewers -> Pages]
    <3>1. <<>> \in Pages
      BY DEF Pages
    <3> QED BY <1>12, <3>1 DEF Git!SendHeld, GitInv
  <2>2. frames' \in [Viewers -> 0 .. news]
    BY <1>0, <1>12 DEF Git!SendHeld, GitInv
  <2> QED BY <1>12, <2>1, <2>2 DEF Git!SendHeld, GitInv
<1>13. ASSUME NEW v \in Viewers, Git!GoLive(v) PROVE GitInv'
  <2>1. here[SessionOf[v]] \in Places
    BY PlaceOf
  <2>2. Git!Replayed(here[SessionOf[v]], co[here[SessionOf[v]]], shown[v]) \in Pages
    BY <2>1, ReplayedTyped DEF GitInv
  <2>3. shown' \in [Viewers -> Pages]
    BY <1>13, <2>2 DEF Git!GoLive, GitInv
  <2>4. att' \in [Viewers -> {"gone", "pending", "live"}]
    BY <1>13 DEF Git!GoLive, GitInv
  <2> QED BY <1>13, <2>3, <2>4 DEF Git!GoLive, GitInv
<1>14. ASSUME NEW s \in Sessions, NEW p \in Places, Git!Move(s, p) PROVE GitInv'
  <2> DEFINE mine == {v \in Viewers : SessionOf[v] = s /\ Git!Attached(v)}
             moved == [here EXCEPT ![s] = p]
             kept == Git!Kept(co, Git!Occupied(att, moved))
  <2>1. /\ news < MaxNews /\ news' = news + 1
        /\ here' = moved
        /\ frames' = [v \in Viewers |->
              IF v \in mine /\ att[v] = "pending" THEN frames[v] + 1 ELSE frames[v]]
        /\ shown' = [v \in Viewers |->
              IF v \in mine
              THEN Git!Replayed(p, co[p], IF att[v] = "live" THEN <<>> ELSE shown[v])
              ELSE shown[v]]
        /\ co' = IF mine = {} THEN kept ELSE [kept EXCEPT ![p] = Git!Joined(@)]
        /\ watch' = Git!KeptWatch(Git!Occupied(att, moved))
        /\ missed' = IF mine = {} \/ Git!Watched(p) THEN missed
             ELSE [missed EXCEPT ![p] = FALSE]
        /\ UNCHANGED <<tree, att, visits>>
    BY <1>14 DEF Git!Move
  <2>2. here' \in [Sessions -> Places]
    BY <2>1 DEF GitInv
  <2>3. kept \in [Places -> Coordinators] /\ watch' \in [Places -> Watches]
    BY <2>1, KeptTyped
  <2> HIDE DEF mine, moved, kept
  <2>4. co' \in [Places -> Coordinators]
    BY <2>1, <2>3, JoinedTyped
  <2>5. ASSUME NEW v \in Viewers
        PROVE  Git!Replayed(p, co[p], IF att[v] = "live" THEN <<>> ELSE shown[v]) \in Pages
    <3>1. (IF att[v] = "live" THEN <<>> ELSE shown[v]) \in Pages
      BY DEF Pages, GitInv
    <3> QED BY <3>1, ReplayedTyped DEF GitInv
  <2>6. shown' \in [Viewers -> Pages]
    BY <2>1, <2>5 DEF GitInv
  <2>7. /\ news' \in 0 .. MaxNews /\ tree' \in [Places -> 0 .. news']
        /\ frames' \in [Viewers -> 0 .. news']
    <3>1. tree \in [Places -> 0 .. news'] /\ news' \in 0 .. MaxNews
      BY <1>0, <2>1, NewsGrow
    <3>2. \A v \in Viewers : frames[v] \in 0 .. news /\ frames[v] + 1 \in 0 .. news'
      BY <1>0, <2>1 DEF GitInv
    <3> QED BY <1>0, <2>1, <3>1, <3>2
  <2>8. missed' \in [Places -> BOOLEAN]
    BY <2>1 DEF GitInv
  <2> QED BY <2>1, <2>2, <2>3, <2>4, <2>6, <2>7, <2>8 DEF GitInv
<1>15. CASE UNCHANGED Git!vars
  BY <1>15 DEF Git!vars, GitInv
<1> QED BY <1>1, <1>2, <1>3, <1>4, <1>5, <1>6, <1>7, <1>8, <1>9, <1>10, <1>11, <1>12,
           <1>13, <1>14, <1>15 DEF Git!Next

-----------------------------------------------------------------------------
(* Keep-awake                                                              *)

Settings == [mode : Awake!Modes, gate : BOOLEAN, peers : BOOLEAN, floor : Floors]
Worlds == [program : Awake!Programs, recent : BOOLEAN, peer : BOOLEAN,
           charge : 1 .. MaxCharge]
Detectors == [auto : BOOLEAN, peer : BOOLEAN, poke : BOOLEAN, gateTimer : BOOLEAN,
              poll : {"no", "walking", "walked"}, queued : BOOLEAN, misled : BOOLEAN,
              seen : BOOLEAN]
Guards == [low : BOOLEAN, probed : BOOLEAN, timer : BOOLEAN, checking : BOOLEAN,
           against : Floors]

AwakeInv ==
    /\ prefs \in Settings /\ world \in Worlds /\ det \in Detectors /\ guard \in Guards
    /\ held \in BOOLEAN /\ unheard \in BOOLEAN /\ ungated \in BOOLEAN /\ died \in BOOLEAN

LEMMA AwakeIsTyped == AwakeInv => Awake!TypeOK
BY DEF AwakeInv, Awake!TypeOK, Settings, Worlds, Detectors, Guards

LEMMA AwakeStarts == Awake!Init => AwakeInv
<1> SUFFICES ASSUME Awake!Init PROVE AwakeInv
  OBVIOUS
<1>1. prefs \in Settings /\ world \in Worlds /\ det \in Detectors
  BY DEF Awake!Init, Settings, Worlds, Detectors, Awake!Modes, Awake!Programs
<1>2. PICK checking \in BOOLEAN :
        /\ guard = [low |-> FALSE, probed |-> FALSE, timer |-> FALSE,
                    checking |-> checking, against |-> prefs.floor]
        /\ held = (prefs.mode = "on" /\ ~checking)
  BY DEF Awake!Init
<1>3. guard \in Guards
  BY <1>1, <1>2 DEF Guards, Settings
<1>4. held \in BOOLEAN
  BY <1>2
<1>5. unheard \in BOOLEAN /\ ungated \in BOOLEAN /\ died \in BOOLEAN
  BY DEF Awake!Init
<1> QED BY <1>1, <1>3, <1>4, <1>5 DEF AwakeInv

LEMMA CheckingTyped ==
  ASSUME NEW p \in Settings, NEW d, NEW g \in Guards
  PROVE  Awake!Checking(p, d, g) \in Guards
BY DEF Awake!Checking, Guards, Settings

LEMMA ScheduledTyped ==
  ASSUME NEW p \in Settings, NEW d, NEW g \in Guards
  PROVE  Awake!Scheduled(p, d, g) \in Guards
<1>1. [g EXCEPT !.timer = TRUE] \in Guards /\ [g EXCEPT !.timer = FALSE] \in Guards
  BY DEF Guards
<1> QED BY <1>1, CheckingTyped DEF Awake!Scheduled

LEMMA RecomputeTyped ==
  ASSUME NEW p \in Settings, NEW d, NEW g \in Guards, Awake!Recompute(p, d, g)
  PROVE  guard' \in Guards /\ held' \in BOOLEAN /\ died' \in BOOLEAN
<1>1. guard' \in Guards
  BY ScheduledTyped DEF Awake!Recompute
<1>2. held' = (Awake!Want(p, d) /\ (p.floor = Awake!NoFloor \/ (g.probed /\ ~g.low)))
  BY DEF Awake!Recompute
<1>3. held' \in BOOLEAN
  BY <1>2, Zenon
<1>4. died' \in BOOLEAN
  BY DEF Awake!Recompute
<1> QED BY <1>1, <1>3, <1>4

LEMMA AfterTyped == ASSUME NEW d \in Detectors PROVE Awake!After(d) \in Detectors
BY DEF Awake!After, Detectors

LEMMA ConcludedTyped ==
  ASSUME NEW p, NEW w, NEW d \in Detectors, NEW program
  PROVE  Awake!Concluded(p, w, d, program) \in Detectors
<1> DEFINE byProgram == program /\ (~p.gate \/ w.recent)
           byPeer == p.peers /\ w.peer
           auto == byProgram \/ byPeer
           gate == ~byPeer /\ (d.gateTimer \/ (p.gate /\ byProgram))
<1>1. Awake!Concluded(p, w, d, program)
        = [d EXCEPT !.auto = auto, !.peer = byPeer, !.gateTimer = gate]
  BY DEF Awake!Concluded
<1>2. auto \in BOOLEAN /\ byPeer \in BOOLEAN /\ gate \in BOOLEAN
  BY Zenon
<1> HIDE DEF auto, byPeer, gate
<1> QED BY <1>1, <1>2 DEF Detectors

LEMMA ConcludeTyped ==
  ASSUME NEW p \in Settings, NEW w, NEW d \in Detectors, NEW g \in Guards, NEW program,
         Awake!Conclude(p, w, d, g, program)
  PROVE  det' \in Detectors /\ guard' \in Guards /\ held' \in BOOLEAN /\ died' \in BOOLEAN
<1>1. Awake!Concluded(p, w, d, program) \in Detectors
  BY ConcludedTyped
<1> QED BY <1>1, AfterTyped, RecomputeTyped DEF Awake!Conclude

LEMMA AskedTyped == ASSUME NEW d \in Detectors PROVE Awake!Asked(d) \in Detectors
BY DEF Awake!Asked, Detectors

LEMMA PollTyped ==
  ASSUME AwakeInv, NEW p \in Settings, NEW w, NEW d \in Detectors, NEW g \in Guards,
         NEW h \in BOOLEAN, Awake!Poll(p, w, d, g, h)
  PROVE  /\ det' \in Detectors /\ guard' \in Guards
         /\ held' \in BOOLEAN /\ died' \in BOOLEAN
         /\ unheard' \in BOOLEAN /\ ungated' \in BOOLEAN
<1> DEFINE now == p.mode = "automatic" /\ d.poll = "no" /\ w.program = "hooked"
<1>1. CASE now
  <2>1. Awake!Conclude(p, w, d, g, TRUE) /\ unheard' = FALSE /\ ungated' = FALSE
    BY <1>1 DEF Awake!Poll, Awake!Noticed
  <2> QED BY <2>1, ConcludeTyped
<1>2. CASE ~now
  <2>1. /\ det' = IF p.mode = "automatic" THEN Awake!Asked(d) ELSE d
        /\ guard' = g /\ held' = h
        /\ unheard' = unheard /\ ungated' = ungated /\ died' = died
    BY <1>2 DEF Awake!Poll
  <2>2. det' \in Detectors
    BY <2>1, AskedTyped
  <2> QED BY <2>1, <2>2 DEF AwakeInv
<1> QED BY <1>1, <1>2

LEMMA PokedTyped == ASSUME NEW d \in Detectors PROVE Awake!Poked(d) \in Detectors
BY DEF Awake!Poked, Detectors

LEMMA AwakeStep == ASSUME AwakeInv, [Awake!Next]_(Awake!vars) PROVE AwakeInv'
<1> USE DEF AwakeInv
<1>1. CASE Awake!PokeFires
  <2>1. [det EXCEPT !.poke = FALSE] \in Detectors
    BY DEF Detectors
  <2> QED BY <1>1, <2>1, PollTyped DEF Awake!PokeFires
<1>2. CASE Awake!GateTimerFires
  <2>1. [det EXCEPT !.gateTimer = FALSE] \in Detectors
    BY DEF Detectors
  <2> QED BY <1>2, <2>1, PollTyped DEF Awake!GateTimerFires
<1>3. CASE Awake!NextPoll
  BY <1>3, ConcludeTyped DEF Awake!NextPoll, Awake!Noticed
<1>4. CASE Awake!Walk
  <2>1. PICK seen \in BOOLEAN : det' = [det EXCEPT !.poll = "walked", !.seen = seen]
    BY <1>4 DEF Awake!Walk
  <2>2. det' \in Detectors
    BY <2>1 DEF Detectors
  <2> QED BY <1>4, <2>2 DEF Awake!Walk, Awake!Noticed
<1>5. CASE Awake!PollEnds
  <2>1. CASE prefs.mode = "automatic"
    BY <1>5, <2>1, ConcludeTyped DEF Awake!PollEnds
  <2>2. CASE prefs.mode # "automatic"
    <3>1. det' \in Detectors
      BY <1>5, <2>2 DEF Awake!PollEnds, Detectors
    <3> QED BY <1>5, <2>2, <3>1 DEF Awake!PollEnds
  <2> QED BY <2>1, <2>2
<1>6. CASE Awake!BatteryTimerFires
  <2>1. [guard EXCEPT !.timer = FALSE] \in Guards
    BY DEF Guards
  <2> QED BY <1>6, <2>1, CheckingTyped DEF Awake!BatteryTimerFires
<1>7. ASSUME NEW failed \in BOOLEAN, Awake!CheckEnds(failed) PROVE AwakeInv'
  <2>1. PICK low \in BOOLEAN :
          Awake!Recompute(prefs, det,
            [guard EXCEPT !.checking = FALSE, !.probed = TRUE, !.low = low])
    BY <1>7, Zenon DEF Awake!CheckEnds
  <2>2. [guard EXCEPT !.checking = FALSE, !.probed = TRUE, !.low = low] \in Guards
    BY DEF Guards
  <2> QED BY <1>7, <2>1, <2>2, RecomputeTyped DEF Awake!CheckEnds
<1>8. CASE Awake!ProcessDies
  BY <1>8 DEF Awake!ProcessDies
<1>9. ASSUME NEW m \in Awake!Modes, Awake!SetMode(m) PROVE AwakeInv'
  <2> DEFINE p == [prefs EXCEPT !.mode = m]
             forgets == [det EXCEPT !.auto = FALSE, !.peer = FALSE, !.gateTimer = FALSE]
             h == Awake!Want(p, det)
                    /\ (p.floor = Awake!NoFloor \/ (guard.probed /\ ~guard.low))
  <2>1. p \in Settings
    BY DEF Settings
  <2>2. forgets \in Detectors
    BY DEF Detectors
  <2>3. h \in BOOLEAN
    BY Zenon
  <2> HIDE DEF p, forgets, h
  <2>4. CASE m = "automatic"
    <3>1. Awake!Poll(p, world, det, Awake!Scheduled(p, det, guard), h)
      BY <1>9, <2>4 DEF Awake!SetMode, p, h
    <3> QED BY <1>9, <2>1, <2>3, <3>1, PollTyped, ScheduledTyped DEF Awake!SetMode, p
  <2>5. CASE m # "automatic"
    <3>1. det' = forgets /\ Awake!Recompute(p, forgets, guard)
         /\ unheard' = unheard /\ ungated' = ungated
      BY <1>9, <2>5 DEF Awake!SetMode, p, forgets
    <3> QED BY <1>9, <2>1, <2>2, <3>1, RecomputeTyped DEF Awake!SetMode, p
  <2> QED BY <2>4, <2>5
<1>10. ASSUME NEW k \in Awake!Programs, Awake!SetCommands(k) PROVE AwakeInv'
  <2>1. PICK misled \in BOOLEAN :
          Awake!Poll(prefs, [world EXCEPT !.program = k], [det EXCEPT !.misled = misled],
                     guard, held)
    BY <1>10, Zenon DEF Awake!SetCommands
  <2>2. [det EXCEPT !.misled = misled] \in Detectors
    BY DEF Detectors
  <2>3. world' \in Worlds /\ prefs' = prefs
    BY <1>10 DEF Awake!SetCommands, Worlds
  <2> QED BY <2>1, <2>2, <2>3, PollTyped
<1>11. CASE Awake!GateOn
  <2>1. [prefs EXCEPT !.gate = TRUE] \in Settings
    BY DEF Settings
  <2> QED BY <1>11, <2>1, PollTyped DEF Awake!GateOn
<1>12. CASE Awake!GateOff
  <2>1. [prefs EXCEPT !.gate = FALSE] \in Settings
    BY DEF Settings
  <2>2. [det EXCEPT !.gateTimer = FALSE] \in Detectors
    BY DEF Detectors
  <2>3. ungated' \in BOOLEAN
    BY <1>12, Zenon DEF Awake!GateOff
  <2> QED BY <1>12, <2>1, <2>2, <2>3, RecomputeTyped DEF Awake!GateOff
<1>13. ASSUME NEW on \in BOOLEAN, Awake!SetPeers(on) PROVE AwakeInv'
  <2>1. [prefs EXCEPT !.peers = on] \in Settings
    BY DEF Settings
  <2> QED BY <1>13, <2>1, PollTyped DEF Awake!SetPeers
<1>14. ASSUME NEW f \in Floors, Awake!SetFloor(f) PROVE AwakeInv'
  <2> DEFINE p == [prefs EXCEPT !.floor = f]
             g == [guard EXCEPT !.timer = FALSE]
  <2>1. p \in Settings /\ prefs' = p
    BY <1>14 DEF Settings, Awake!SetFloor
  <2>2. g \in Guards /\ [g EXCEPT !.low = FALSE] \in Guards
    BY DEF Guards
  <2>3. CASE f = Awake!NoFloor
    <3>1. Awake!Recompute(p, det, [g EXCEPT !.low = FALSE])
      BY <1>14, <2>3 DEF Awake!SetFloor
    <3> HIDE DEF p, g
    <3> QED BY <1>14, <2>1, <2>2, <3>1, RecomputeTyped DEF Awake!SetFloor
  <2>4. CASE f # Awake!NoFloor
    <3>1. /\ guard' = IF Awake!Want(p, det) THEN Awake!Checking(p, det, g) ELSE g
          /\ held' = held /\ died' = died
      BY <1>14, <2>4 DEF Awake!SetFloor
    <3> HIDE DEF p, g
    <3> QED BY <1>14, <2>1, <2>2, <3>1, CheckingTyped DEF Awake!SetFloor
  <2> QED BY <2>3, <2>4
<1>15. ASSUME NEW k \in Awake!Programs, Awake!ProgramChanges(k) PROVE AwakeInv'
  <2>1. world' \in Worlds
    BY <1>15 DEF Awake!ProgramChanges, Worlds
  <2> QED BY <1>15, <2>1, PokedTyped DEF Awake!ProgramChanges
<1>16. CASE Awake!PeerChanges
  <2>1. world' \in Worlds
    BY <1>16 DEF Awake!PeerChanges, Worlds
  <2> QED BY <1>16, <2>1, PokedTyped DEF Awake!PeerChanges
<1>17. CASE Awake!Output
  <2>1. world' \in Worlds
    BY <1>17 DEF Awake!Output, Worlds
  <2>2. det' \in {det, Awake!Poked(det), [det EXCEPT !.gateTimer = TRUE]}
    BY <1>17 DEF Awake!Output
  <2>3. [det EXCEPT !.gateTimer = TRUE] \in Detectors
    BY DEF Detectors
  <2> QED BY <1>17, <2>1, <2>2, <2>3, PokedTyped DEF Awake!Output
<1>18. CASE Awake!Silence
  <2>1. world' \in Worlds
    BY <1>18 DEF Awake!Silence, Worlds
  <2> QED BY <1>18, <2>1 DEF Awake!Silence
<1>19. ASSUME NEW c \in 1 .. MaxCharge, Awake!ChargeChanges(c) PROVE AwakeInv'
  <2>1. world' \in Worlds
    BY <1>19 DEF Awake!ChargeChanges, Worlds
  <2> QED BY <1>19, <2>1 DEF Awake!ChargeChanges
<1>20. CASE UNCHANGED Awake!vars
  BY <1>20 DEF Awake!vars
<1> QED BY <1>1, <1>2, <1>3, <1>4, <1>5, <1>6, <1>7, <1>8, <1>9, <1>10, <1>11, <1>12,
           <1>13, <1>14, <1>15, <1>16, <1>17, <1>18, <1>19, <1>20 DEF Awake!Next

-----------------------------------------------------------------------------
(* The extension                                                           *)

WorkerEnd == [Socket -> {"free", "connecting", "open", "over"}]
DaemonEnd == [Socket -> {"none", "due", "open", "over"}]

RelayInv ==
    /\ worker \in BOOLEAN /\ armed \in BOOLEAN /\ listening \in BOOLEAN
    /\ cur \in Socket \union {NoSocket} /\ hub \in Socket \union {NoSocket}
    /\ ends \in WorkerEnd /\ peer \in DaemonEnd /\ upsets \in 0 .. MaxUpsets

LEMMA RelayIsTyped == RelayInv => Relay!TypeOK
BY DEF RelayInv, Relay!TypeOK, WorkerEnd, DaemonEnd

LEMMA RelayStarts == Relay!Init => RelayInv
<1> SUFFICES ASSUME Relay!Init PROVE RelayInv
  OBVIOUS
<1>1. ends \in WorkerEnd /\ peer \in DaemonEnd
  BY DEF Relay!Init, WorkerEnd, DaemonEnd
<1>2. worker \in BOOLEAN /\ armed \in BOOLEAN /\ listening \in BOOLEAN
  BY DEF Relay!Init
<1>3. cur \in Socket \union {NoSocket} /\ hub \in Socket \union {NoSocket}
  BY DEF Relay!Init
<1>4. upsets \in 0 .. MaxUpsets
  BY RelayFits DEF Relay!Init
<1> QED BY <1>1, <1>2, <1>3, <1>4 DEF RelayInv

LEMMA RenewTyped ==
  ASSUME RelayInv, Relay!Renew
  PROVE  /\ cur' \in Socket \union {NoSocket} /\ armed' \in BOOLEAN
         /\ ends' \in WorkerEnd /\ peer' \in DaemonEnd
<1>1. PICK s \in Socket :
        /\ cur' = s /\ armed' = FALSE
        /\ ends' = [t \in Socket |-> IF t = s THEN "connecting"
                                     ELSE IF t = cur /\ Relay!Current THEN "over"
                                     ELSE ends[t]]
        /\ peer' = [t \in Socket |-> IF t = s THEN "due"
                                     ELSE IF t = cur /\ peer[t] = "open" THEN "over"
                                     ELSE peer[t]]
  BY DEF Relay!Renew, Relay!Free
<1>2. ends' \in WorkerEnd
  BY <1>1 DEF RelayInv, WorkerEnd
<1>3. peer' \in DaemonEnd
  BY <1>1 DEF RelayInv, DaemonEnd
<1>4. armed' \in BOOLEAN
  BY <1>1
<1> QED BY <1>1, <1>2, <1>3, <1>4

LEMMA RelayStep == ASSUME RelayInv, [Relay!Next]_(Relay!vars) PROVE RelayInv'
<1> USE RelayFits DEF RelayInv, Relay!worker
<1>1. CASE Relay!Click
  BY <1>1, RenewTyped DEF Relay!Click
<1>2. CASE Relay!Alarm
  BY <1>2, RenewTyped DEF Relay!Alarm, Relay!Connect
<1>3. CASE Relay!TimerFires
  BY <1>3, RenewTyped DEF Relay!TimerFires
<1>4. ASSUME NEW s \in Socket, Relay!CloseEvent(s) PROVE RelayInv'
  BY <1>4 DEF Relay!CloseEvent, Relay!Closed, WorkerEnd
<1>5. CASE Relay!WorkerEnds
  <2>1. ends' \in WorkerEnd
    BY <1>5 DEF Relay!WorkerEnds, WorkerEnd
  <2>2. peer' \in DaemonEnd
    BY <1>5 DEF Relay!WorkerEnds, DaemonEnd
  <2>3. worker' \in BOOLEAN /\ armed' \in BOOLEAN
    BY <1>5, Zenon DEF Relay!WorkerEnds
  <2>4. cur' \in Socket \union {NoSocket} /\ hub' \in Socket \union {NoSocket}
    BY <1>5 DEF Relay!WorkerEnds
  <2>5. upsets' \in 0 .. MaxUpsets
    BY <1>5 DEF Relay!WorkerEnds
  <2> QED BY <1>5, <2>1, <2>2, <2>3, <2>4, <2>5 DEF Relay!WorkerEnds
<1>6. ASSUME NEW s \in Socket, Relay!Accept(s) PROVE RelayInv'
  BY <1>6 DEF Relay!Accept, WorkerEnd, DaemonEnd
<1>7. ASSUME NEW s \in Socket, Relay!Refused(s) PROVE RelayInv'
  BY <1>7 DEF Relay!Refused, WorkerEnd, DaemonEnd
<1>8. ASSUME NEW s \in Socket, Relay!Hears(s) PROVE RelayInv'
  BY <1>8 DEF Relay!Hears, Relay!Forgets, DaemonEnd
<1>9. CASE Relay!Drop
  BY <1>9 DEF Relay!Drop, WorkerEnd, DaemonEnd
<1>10. CASE Relay!Stop
  <2>1. ends' \in WorkerEnd
    BY <1>10 DEF Relay!Stop, WorkerEnd
  <2>2. peer' \in DaemonEnd
    BY <1>10 DEF Relay!Stop, DaemonEnd
  <2>3. listening' \in BOOLEAN /\ worker' \in BOOLEAN /\ armed' \in BOOLEAN
    BY <1>10, Zenon DEF Relay!Stop
  <2>4. cur' \in Socket \union {NoSocket} /\ hub' \in Socket \union {NoSocket}
    BY <1>10 DEF Relay!Stop
  <2>5. upsets' \in 0 .. MaxUpsets
    BY <1>10 DEF Relay!Stop
  <2> QED BY <1>10, <2>1, <2>2, <2>3, <2>4, <2>5 DEF Relay!Stop
<1>11. CASE Relay!Start
  BY <1>11 DEF Relay!Start
<1>12. CASE UNCHANGED Relay!vars
  BY <1>12 DEF Relay!vars
<1> QED BY <1>1, <1>2, <1>3, <1>4, <1>5, <1>6, <1>7, <1>8, <1>9, <1>10, <1>11, <1>12
        DEF Relay!Next

-----------------------------------------------------------------------------
(* Side by side                                                            *)

(* The part that the initial state chose keeps its invariant. *)
PartsInv ==
    /\ part \in {"flow", "delivery", "git", "browser", "page", "awake", "agent",
                "relay"}
    /\ part = "flow" => (FlowInv /\ Ordered)
    /\ part = "delivery" => IInv
    /\ part = "git" => GitInv
    /\ part = "browser" => BrowserInv
    /\ part = "page" => PageInv
    /\ part = "awake" => AwakeInv
    /\ part = "agent" => AgentInv
    /\ part = "relay" => RelayInv

LEMMA PartsStart == PartsInit => PartsInv
<1>1. PartsInit /\ part = "flow" => (FlowInv /\ Ordered)
  BY FlowStarts, OrderStarts DEF PartsInit
<1>2. PartsInit /\ part = "delivery" => IInv
  BY InitHolds, DeliveryFits DEF PartsInit
<1>3. PartsInit /\ part = "git" => GitInv
  BY GitStarts DEF PartsInit
<1>4. PartsInit /\ part = "browser" => BrowserInv
  BY BrowserStart DEF PartsInit
<1>5. PartsInit /\ part = "page" => PageInv
  BY PageStarts, PageFits DEF PartsInit
<1>6. PartsInit /\ part = "awake" => AwakeInv
  BY AwakeStarts DEF PartsInit
<1>7. PartsInit /\ part = "agent" => AgentInv
  BY AgentStart DEF PartsInit
<1>8. PartsInit /\ part = "relay" => RelayInv
  BY RelayStarts DEF PartsInit
<1> QED BY <1>1, <1>2, <1>3, <1>4, <1>5, <1>6, <1>7, <1>8 DEF PartsInv, PartsInit

(* A step of the whole is a step of the part, or leaves the part alone. *)
LEMMA FlowPartMoves ==
  ASSUME [PartsNext]_everything, part = "flow"
  PROVE  part' = "flow" /\ [Flow!Next]_(Flow!vars)
<1>1. CASE PartsNext
  BY <1>1 DEF PartsNext, Frame
<1>2. CASE UNCHANGED everything
  BY <1>2 DEF everything, ofFlow, Flow!vars, Flow!entries, Flow!load,
       Flow!flow
<1> QED BY <1>1, <1>2

LEMMA DeliveryPartMoves ==
  ASSUME [PartsNext]_everything, part = "delivery"
  PROVE  part' = "delivery" /\ [Next]_vars
<1>1. CASE PartsNext
  BY <1>1 DEF PartsNext, Frame
<1>2. CASE UNCHANGED everything
  BY <1>2 DEF everything, ofDelivery, vars, session
<1> QED BY <1>1, <1>2

LEMMA GitPartMoves ==
  ASSUME [PartsNext]_everything, part = "git"
  PROVE  part' = "git" /\ [Git!Next]_(Git!vars)
<1>1. CASE PartsNext
  BY <1>1 DEF PartsNext, Frame
<1>2. CASE UNCHANGED everything
  BY <1>2 DEF everything, ofGit, Git!vars, Git!viewers, Git!bounds
<1> QED BY <1>1, <1>2

LEMMA BrowserPartMoves ==
  ASSUME [PartsNext]_everything, part = "browser"
  PROVE  part' = "browser" /\ [Browser!Next]_(Browser!vars)
<1>1. CASE PartsNext
  BY <1>1 DEF PartsNext, Frame
<1>2. CASE UNCHANGED everything
  BY <1>2 DEF everything, ofBrowser, Browser!vars, Browser!sockets,
       Browser!establishing, Browser!callers
<1> QED BY <1>1, <1>2

LEMMA PagePartMoves ==
  ASSUME [PartsNext]_everything, part = "page"
  PROVE  part' = "page" /\ [Page!Next]_(Page!vars)
<1>1. CASE PartsNext
  BY <1>1 DEF PartsNext, Frame
<1>2. CASE UNCHANGED everything
  BY <1>2 DEF everything, ofPage, Page!vars, Page!server, Page!page,
       Page!shown
<1> QED BY <1>1, <1>2

LEMMA AwakePartMoves ==
  ASSUME [PartsNext]_everything, part = "awake"
  PROVE  part' = "awake" /\ [Awake!Next]_(Awake!vars)
<1>1. CASE PartsNext
  BY <1>1 DEF PartsNext, Frame
<1>2. CASE UNCHANGED everything
  BY <1>2 DEF everything, ofAwake, Awake!vars
<1> QED BY <1>1, <1>2

LEMMA AgentPartMoves ==
  ASSUME [PartsNext]_everything, part = "agent"
  PROVE  part' = "agent" /\ [Agent!Next]_(Agent!vars)
<1>1. CASE PartsNext
  BY <1>1 DEF PartsNext, Frame
<1>2. CASE UNCHANGED everything
  BY <1>2 DEF everything, ofAgent, Agent!vars, Agent!process,
       Agent!request
<1> QED BY <1>1, <1>2

LEMMA RelayPartMoves ==
  ASSUME [PartsNext]_everything, part = "relay"
  PROVE  part' = "relay" /\ [Relay!Next]_(Relay!vars)
<1>1. CASE PartsNext
  BY <1>1 DEF PartsNext, Frame
<1>2. CASE UNCHANGED everything
  BY <1>2 DEF everything, ofRelay, Relay!vars, Relay!worker
<1> QED BY <1>1, <1>2

LEMMA PartsStep == PartsInv /\ [PartsNext]_everything => PartsInv'
<1> SUFFICES ASSUME PartsInv, [PartsNext]_everything PROVE PartsInv'
  OBVIOUS
<1>0. part' = part
  BY DEF PartsNext, Frame, everything
<1>1. part' = "flow" => (FlowInv /\ Ordered)'
  BY <1>0, FlowPartMoves, FlowStep, OrderStep DEF PartsInv
<1>2. part' = "delivery" => IInv'
  BY <1>0, DeliveryPartMoves, Step, DeliveryFits DEF PartsInv
<1>3. part' = "git" => GitInv'
  BY <1>0, GitPartMoves, GitStep DEF PartsInv
<1>4. part' = "browser" => BrowserInv'
  BY <1>0, BrowserPartMoves, BrowserStep DEF PartsInv
<1>5. part' = "page" => PageInv'
  BY <1>0, PagePartMoves, PageStep, PageFits DEF PartsInv
<1>6. part' = "awake" => AwakeInv'
  BY <1>0, AwakePartMoves, AwakeStep DEF PartsInv
<1>7. part' = "agent" => AgentInv'
  BY <1>0, AgentPartMoves, AgentStep DEF PartsInv
<1>8. part' = "relay" => RelayInv'
  BY <1>0, RelayPartMoves, RelayStep DEF PartsInv
<1> QED BY <1>0, <1>1, <1>2, <1>3, <1>4, <1>5, <1>6, <1>7, <1>8 DEF PartsInv

LEMMA PartsInvariance == PartsSpec => []PartsInv
BY PartsStart, PartsStep, PTL DEF PartsSpec

(* Every variable of every part keeps its type.                            *)
THEOREM PartsAreTyped == PartsSpec => []PartsTypeOK
<1>1. PartsInv => PartsTypeOK
  BY GitIsTyped, AwakeIsTyped, RelayIsTyped
     DEF PartsInv, PartsTypeOK, FlowInv, IInv, BrowserInv, PageInv, AgentInv
<1> QED BY <1>1, PartsInvariance, PTL

(* Chunks are output once and in order, and none is forgotten, however     *)
(* long the reads of the files between them take and whichever fail.       *)
THEOREM ChunksStayInOrder == PartsSpec => []OrderKept
<1>1. PartsInv => OrderKept
  BY OrderHolds DEF PartsInv, OrderKept
<1> QED BY <1>1, PartsInvariance, PTL

(* While the PTY is paused, or entries wait that nobody reads, a poll is   *)
(* armed that will go on.                                                  *)
THEOREM StallsAreWatched == PartsSpec => []StallIsWatched
<1>1. PartsInv => StallIsWatched
  BY DEF PartsInv, StallIsWatched, FlowInv
<1> QED BY <1>1, PartsInvariance, PTL

(* What waits, and what a consumer is owed, stays within its bound.        *)
THEOREM MemoryIsBounded == PartsSpec => []MemoryBounded
<1>1. PartsInv => MemoryBounded
  BY DEF PartsInv, MemoryBounded, FlowInv
<1> QED BY <1>1, PartsInvariance, PTL

(* No byte is lost, repeated or reordered on its way to a viewer, unless   *)
(* input has cut into its promotion; and what is not flushed yet has its   *)
(* timer.                                                                  *)
THEOREM OutputIsComplete == PartsSpec => []OutputComplete
<1>1. PartsInv => OutputComplete
  BY DeliveryFits, SoNothingIsLost
     DEF PartsInv, OutputComplete, IInv
<1> QED BY <1>1, PartsInvariance, PTL

(* A viewer can tell the replay from live output and a frame from what is  *)
(* around it, and hears of the exit last.                                  *)
THEOREM OutputIsOrdered == PartsSpec => []OutputOrdered
<1>1. PartsInv => OutputOrdered
  BY DeliveryFits, SoMarkerDivides, SoFramesBracketed
     DEF PartsInv, OutputOrdered, IInv, Ended
<1> QED BY <1>1, PartsInvariance, PTL

(* The browser is never left with two sockets to the daemon: the one that  *)
(* is not current any more was asked to close.                             *)
THEOREM SocketIsOne == PartsSpec => []OneSocket
<1>1. PartsInv => OneSocket
  BY DEF PartsInv, OneSocket, BrowserInv
<1> QED BY <1>1, PartsInvariance, PTL

(* What passes the terminal's onData event goes to the shell on the        *)
(* screen, and a shell that is over is never asked for again.              *)
THEOREM KeysFollowTheScreen == PartsSpec => []ShownIsTyped
<1>1. PartsInv => ShownIsTyped
  BY DEF PartsInv, ShownIsTyped, PageInv, IdsKept, SocketKept, ScreenKept,
     Page!ShownIsTyped, Page!Sends, Page!DeadIsLeft
<1> QED BY <1>1, PartsInvariance, PTL

(* A run that was stopped leaves no process behind when it settles.        *)
THEOREM SettledRunsAreGone == PartsSpec => []SettledIsGone
<1>1. PartsInv => SettledIsGone
  BY DEF PartsInv, SettledIsGone, AgentInv
<1> QED BY <1>1, PartsInvariance, PTL
=============================================================================
