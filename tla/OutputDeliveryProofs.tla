-------------------------- MODULE OutputDeliveryProofs --------------------------
(***************************************************************************)
(* Proofs about OutputDelivery, for any sizes of batches, rings and queues *)
(* and any number of chunks and attachments: what a viewer is sent is all  *)
(* there, in order, marked and framed.                                     *)
(***************************************************************************)
EXTENDS OutputDelivery, SequenceTheorems, FiniteSetTheorems, TLAPS

Marker == Note("replay-end")
FanOut == {"output", "output-frame-start", "output-frame-end"}

(* Outputs are of chunks after lo and up to hi, each after the one before. *)
Real(s, lo, hi) ==
    \A i \in Of(s, {"output"}) : lo < s[i].from /\ s[i].from <= s[i].to /\ s[i].to <= hi
Linked(s, lo) ==
    \A i \in Of(s, {"output"}) :
        \/ s[i].from = lo + 1
        \/ \E j \in Of(s, {"output"}) : j < i /\ s[j].to + 1 = s[i].from
Rising(s, kind) ==
    \A i, j \in Of(s, {kind}) : i < j => s[i].to < s[j].from

(* The replay is one piece, comes first, and reaches up to lo. *)
Replayed(s, lo) ==
    /\ \A i \in Of(s, {"replay"}) : s[i].from = s[i].to
    /\ \A j \in Of(s, {"replay"}) :
         \/ \A k \in Of(s, {"replay"}) : j <= k
         \/ \E i \in Of(s, {"replay"}) : i < j /\ s[i].to + 1 = s[j].from
    /\ \A i \in Of(s, {"replay"}), j \in Of(s, FanOut \cup {"replay-end"}) : i < j
    /\ Of(s, {"replay-end"}) # {} /\ Of(s, {"replay"}) # {}
         => \E i \in Of(s, {"replay"}) : s[i].to >= lo
    /\ \A i, j \in Of(s, {"replay-end"}) : i = j

Marked(s) == \A i \in Of(s, FanOut) : \E m \in Of(s, {"replay-end"}) : m < i

Framed(s, fr) ==
    /\ \A i \in Of(s, {"output-frame-start"}) : ~InFrame(s, i)
    /\ \A i \in Of(s, {"output-frame-end"}) : InFrame(s, i)
    /\ \A i \in Of(s, {"output"}) :
         IF InFrame(s, i) THEN s[i].from .. s[i].to \subseteq fr
         ELSE s[i].from .. s[i].to \cap fr = {}

(* What a viewer that attached after chunk lo may have been sent when the  *)
(* last chunk that was flushed is hi.                                      *)
Story(s, lo, hi, fr, cut) ==
    /\ Real(s, lo, hi) /\ Linked(s, lo) /\ Marked(s)
    /\ cut \/ /\ Rising(s, "output") /\ Rising(s, "replay") /\ Replayed(s, lo)
              /\ Framed(s, fr)

(* It ends where the session is. *)
LastIs(s, lo, hi) ==
    IF Of(s, {"output"}) = {} THEN hi = lo
    ELSE \E i \in Of(s, {"output"}) : s[i].to = hi /\ \A j \in Of(s, {"output"}) : j <= i
Ends(s, lo, hi, frame) ==
    /\ LastIs(s, lo, hi)
    /\ frame <=> InFrame(s, Len(s) + 1)
    /\ Of(s, {"replay-end"}) # {}

(* All that a viewer was sent and will be, as things are. *)
Coming(c) ==
    c.todo \o (IF c.marked THEN <<>> ELSE <<Marker>>)
           \o SubSeq(c.queue, c.taken + 1, Len(c.queue))
Pipe(c) ==
    IF c.stage = "pending" THEN (c.wire \o c.encoding) \o Coming(c) ELSE c.wire \o c.encoding
Queue(c) == <<Marker>> \o c.queue

Stream(c, lo, hi, fr, frame, cut) ==
    /\ Story(c.wire, lo, hi, fr, cut)
    /\ c.open => Story(Pipe(c), lo, hi, fr, cut) /\ Ends(Pipe(c), lo, hi, frame)
    /\ c.open /\ c.stage = "pending" =>
         Story(Queue(c), lo, hi, fr, FALSE) /\ Ends(Queue(c), lo, hi, frame)

Viewer == [stage : {"absent", "pending", "live"}, open : BOOLEAN, wire : Seq(Message),
           overflowed : BOOLEAN, waiting : BOOLEAN, mode : {"raw", "ctx"},
           queue : Seq(Message), encoding : Seq(Message), promoting : BOOLEAN,
           todo : Seq(Message), marked : BOOLEAN, taken : Nat]

Boundary == {"output-frame-start", "output-frame-end"}

(* No word of the end of the session. *)
Quiet(s) == Of(s, {"exit", "killed"}) = {}

(* What the stages of a viewer go with. *)
Shape(c, cut) ==
    /\ c.overflowed => ~c.open
    /\ c.stage # "pending" => c.queue = <<>> /\ ~c.waiting
    /\ c.stage = "absent" => ~c.open /\ ~c.promoting /\ c.encoding = <<>>
    /\ c.stage # "absent" => Quiet(c.wire) /\ Quiet(c.encoding)
    /\ c.stage = "pending" /\ ~c.promoting =>
         /\ c.encoding = <<>> /\ c.todo = <<>> /\ ~c.marked /\ c.taken = 0
         /\ ~c.overflowed => c.wire = <<>>
    /\ c.stage = "pending" /\ c.promoting =>
         c.mode = "ctx" /\ ~c.waiting /\ Len(c.encoding) = 1
    /\ c.stage = "live" =>
         ~c.promoting /\ (c.mode = "raw" => c.encoding = <<>>)
    /\ c.marked => c.todo = <<>>
    /\ \A i \in DOMAIN c.todo : c.todo[i].kind = "replay"
    /\ \A i \in DOMAIN c.queue : c.queue[i].kind \in FanOut
    /\ c.open /\ c.stage = "pending" => c.taken <= Len(c.queue)
    /\ c.open /\ c.stage = "pending" /\ Of(c.queue, Boundary) = {} =>
         Of(c.wire, Boundary) = {} /\ Of(c.encoding, Boundary) = {}
    /\ c.open /\ (c.stage = "live" \/ (c.stage = "pending" /\ c.marked)) =>
         Of(c.wire, {"replay-end"}) # {}

Sound(c, lo, hi, fr, frame, cut) ==
    c \in Viewer /\ Fits(c.queue) /\ Shape(c, cut) /\ Stream(c, lo, hi, fr, frame, cut)

Ended ==
    /\ client.stage # "absent" => alive
    /\ Of(client.wire, {"exit", "killed"}) # {} => ~alive
    /\ ExitComesLast

(* What is left of this for a viewer whose promotion was cut into: it is   *)
(* live or gone, its queue, encoder and promotion are empty, and whatever  *)
(* is live came after the marker.                                          *)
Cut(c) ==
    /\ c \in Viewer /\ c.stage \in {"absent", "live"}
    /\ c.queue = <<>> /\ c.encoding = <<>> /\ ~c.promoting /\ ~c.waiting
    /\ c.stage = "absent" => ~c.open
    /\ c.stage = "live" => c.mode = "raw" /\ Quiet(c.wire)
    /\ c.stage = "live" /\ c.open => Of(c.wire, {"replay-end"}) # {}
    /\ Marked(c.wire)

Fine(c, lo, hi, fr, frame, cut) ==
    IF cut THEN Cut(c) ELSE Sound(c, lo, hi, fr, frame, cut)

IInv ==
    /\ TypeOK /\ BatchIsTimed /\ Ended
    /\ Fine(client, since, flushed, framed, frameOpen, cutShort)

(* As long as no input has cut into a promotion. *)
Whole == IInv /\ ~cutShort

-----------------------------------------------------------------------------
(* Lemmas about sequences of messages                                      *)

(* Writing one more piece at the end is writing it to what came before. *)
LEMMA Associative ==
  ASSUME NEW s \in Seq(Message), NEW t \in Seq(Message), NEW u \in Seq(Message)
  PROVE  (s \o t) \o u = s \o (t \o u)
BY ConcatAssociative

(* A position of a kind is one of the sequence, and holds a message of it. *)
LEMMA MessageFields ==
  ASSUME ParametersFit, NEW s \in Seq(Message), NEW K, NEW i \in Of(s, K)
  PROVE  /\ i \in Nat /\ 1 <= i /\ i <= Len(s) /\ Len(s) \in Nat
         /\ s[i] \in Message /\ s[i].kind \in K
         /\ s[i].from \in Nat /\ s[i].to \in Nat
<1>1. Len(s) \in Nat /\ DOMAIN s = 1 .. Len(s) /\ s \in [1 .. Len(s) -> Message]
  BY LenProperties
<1>2. i \in 1 .. Len(s) /\ s[i].kind \in K
  BY <1>1 DEF Of
<1>3. s[i] \in Message
  BY <1>1, <1>2
<1>4. s[i].from \in 0 .. MaxChunks /\ s[i].to \in 0 .. MaxChunks /\ MaxChunks \in Nat
  BY <1>3 DEF Message, ParametersFit
<1> QED BY <1>1, <1>2, <1>3, <1>4

(* The positions of some kinds in two pieces written one after the other. *)
LEMMA OfConcat ==
  ASSUME NEW s \in Seq(Message), NEW t \in Seq(Message), NEW K
  PROVE  /\ s \o t \in Seq(Message) /\ Len(s \o t) = Len(s) + Len(t)
         /\ Len(s) \in Nat /\ Len(t) \in Nat
         /\ \A i \in Of(s, K) : /\ i \in Of(s \o t, K) /\ (s \o t)[i] = s[i]
                               /\ i \in 1 .. Len(s)
         /\ \A i \in Of(t, K) : /\ Len(s) + i \in Of(s \o t, K)
                               /\ (s \o t)[Len(s) + i] = t[i] /\ i \in 1 .. Len(t)
         /\ \A i \in Of(s \o t, K) : \/ i \in Of(s, K)
                                     \/ \E j \in Of(t, K) : i = Len(s) + j
<1>1. /\ Len(s) \in Nat /\ DOMAIN s = 1 .. Len(s)
      /\ Len(t) \in Nat /\ DOMAIN t = 1 .. Len(t)
  BY LenProperties
<1>2. /\ s \o t \in Seq(Message) /\ Len(s \o t) = Len(s) + Len(t)
      /\ \A i \in 1 .. Len(s) + Len(t) :
           (s \o t)[i] = IF i <= Len(s) THEN s[i] ELSE t[i - Len(s)]
  BY ConcatProperties
<1>3. DOMAIN (s \o t) = 1 .. Len(s) + Len(t)
  BY <1>2, LenProperties
<1>4. ASSUME NEW i \in Of(s, K)
      PROVE  i \in Of(s \o t, K) /\ (s \o t)[i] = s[i] /\ i \in 1 .. Len(s)
  BY <1>1, <1>2, <1>3 DEF Of
<1>5. ASSUME NEW i \in Of(t, K)
      PROVE  /\ Len(s) + i \in Of(s \o t, K) /\ (s \o t)[Len(s) + i] = t[i]
             /\ i \in 1 .. Len(t)
  <2>1. i \in 1 .. Len(t) /\ t[i].kind \in K
    BY <1>1 DEF Of
  <2>2. /\ Len(s) + i \in 1 .. Len(s) + Len(t) /\ ~(Len(s) + i <= Len(s))
        /\ (Len(s) + i) - Len(s) = i
    BY <1>1, <2>1
  <2>3. (s \o t)[Len(s) + i] = t[i]
    BY <1>2, <2>2
  <2> QED BY <1>3, <2>1, <2>2, <2>3 DEF Of
<1>6. ASSUME NEW i \in Of(s \o t, K)
      PROVE  i \in Of(s, K) \/ \E j \in Of(t, K) : i = Len(s) + j
  <2>1. i \in 1 .. Len(s) + Len(t) /\ (s \o t)[i].kind \in K
    BY <1>3 DEF Of
  <2>2. CASE i <= Len(s)
    BY <1>1, <1>2, <2>1, <2>2 DEF Of
  <2>3. CASE ~(i <= Len(s))
    <3>1. i - Len(s) \in 1 .. Len(t) /\ i = Len(s) + (i - Len(s))
      BY <1>1, <2>1, <2>3
    <3>2. (s \o t)[i] = t[i - Len(s)]
      BY <1>2, <2>1, <2>3
    <3>3. i - Len(s) \in Of(t, K)
      BY <1>1, <2>1, <3>1, <3>2 DEF Of
    <3> QED BY <3>1, <3>3
  <2> QED BY <2>2, <2>3
<1> QED BY <1>1, <1>2, <1>4, <1>5, <1>6

(* The frames before a position are those of what comes before it.         *)
LEMMA FramePrefix ==
  ASSUME ParametersFit, NEW s \in Seq(Message), NEW t \in Seq(Message),
         NEW n \in Nat, n <= Len(s) + 1
  PROVE  InFrame(s \o t, n) <=> InFrame(s, n)
<1> DEFINE starts == {"output-frame-start"}
           ends == {"output-frame-end"}
<1>1. Len(s) \in Nat
  BY LenProperties
<1>2. \A K : \A i \in Of(s \o t, K) : i \in Nat /\ (i \in Of(s, K) \/ ~(i < n))
  <2> SUFFICES ASSUME NEW K, NEW i \in Of(s \o t, K)
               PROVE  i \in Nat /\ (i \in Of(s, K) \/ ~(i < n))
    OBVIOUS
  <2>1. CASE i \in Of(s, K)
    BY <2>1, MessageFields
  <2>2. CASE \E j \in Of(t, K) : i = Len(s) + j
    <3>1. PICK j \in Of(t, K) : i = Len(s) + j
      BY <2>2
    <3>2. j \in Nat /\ 1 <= j
      BY <3>1, MessageFields
    <3> QED BY <1>1, <3>1, <3>2
  <2> QED BY <2>1, <2>2, OfConcat
<1>3. \A K : Of(s, K) \subseteq Of(s \o t, K)
  BY OfConcat
<1>4. \A K : \A i \in Of(s, K) : i \in Nat
  BY MessageFields
<1>5. ASSUME InFrame(s \o t, n) PROVE InFrame(s, n)
  BY <1>2, <1>3, <1>4, <1>5 DEF InFrame
<1>6. ASSUME InFrame(s, n) PROVE InFrame(s \o t, n)
  <2>1. PICK b \in Of(s, starts) : b < n /\ \A e \in Of(s, ends) : e < b \/ n <= e
    BY <1>6 DEF InFrame
  <2>2. ASSUME NEW e \in Of(s \o t, ends) PROVE e < b \/ n <= e
    BY <1>2, <2>1
  <2> QED BY <1>3, <2>1, <2>2 DEF InFrame
<1> QED BY <1>5, <1>6

(* What holds of all that is on its way holds of what was sent.            *)
LEMMA StoryPrefix ==
  ASSUME ParametersFit, NEW s \in Seq(Message), NEW t \in Seq(Message),
         NEW lo \in Nat, NEW hi \in Nat, NEW fr, NEW cut \in BOOLEAN,
         Story(s \o t, lo, hi, fr, cut)
  PROVE  Story(s, lo, hi, fr, cut)
<1>1. \A K : \A i \in Of(s, K) :
        i \in Of(s \o t, K) /\ (s \o t)[i] = s[i] /\ i \in Nat /\ i <= Len(s)
  BY OfConcat
<1>2. \A K : \A i \in Of(s \o t, K) :
        i \in Nat /\ Len(s) \in Nat /\ (i \in Of(s, K) \/ Len(s) < i)
  <2> SUFFICES ASSUME NEW K, NEW i \in Of(s \o t, K), i \notin Of(s, K)
               PROVE  i \in Nat /\ Len(s) \in Nat /\ Len(s) < i
    BY <1>1, LenProperties
  <2>1. PICK j \in Of(t, K) : i = Len(s) + j
    BY OfConcat
  <2>2. j \in Nat /\ 1 <= j /\ Len(s) \in Nat
    BY MessageFields, OfConcat
  <2> QED BY <2>1, <2>2
<1>3. Real(s, lo, hi)
  BY <1>1 DEF Story, Real
<1>4. Linked(s, lo)
  <2> SUFFICES ASSUME NEW i \in Of(s, {"output"}), s[i].from # lo + 1
               PROVE  \E j \in Of(s, {"output"}) : j < i /\ s[j].to + 1 = s[i].from
    BY DEF Linked
  <2>1. PICK j \in Of(s \o t, {"output"}) : j < i /\ (s \o t)[j].to + 1 = s[i].from
    BY <1>1 DEF Story, Linked
  <2>2. j \in Of(s, {"output"})
    BY <1>1, <1>2, <2>1
  <2> QED BY <1>1, <2>1, <2>2
<1>5. Marked(s)
  <2> SUFFICES ASSUME NEW i \in Of(s, FanOut)
               PROVE  \E m \in Of(s, {"replay-end"}) : m < i
    BY DEF Marked
  <2>1. PICK m \in Of(s \o t, {"replay-end"}) : m < i
    BY <1>1 DEF Story, Marked
  <2> QED BY <1>1, <1>2, <2>1
<1>6. ASSUME ~cut
      PROVE  Rising(s, "output") /\ Rising(s, "replay") /\ Replayed(s, lo) /\ Framed(s, fr)
  <2>0. /\ Rising(s \o t, "output") /\ Rising(s \o t, "replay")
        /\ Replayed(s \o t, lo) /\ Framed(s \o t, fr)
    BY <1>6 DEF Story
  <2>1. \A kind : Rising(s \o t, kind) => Rising(s, kind)
    <3> SUFFICES ASSUME NEW kind, Rising(s \o t, kind),
                        NEW i \in Of(s, {kind}), NEW j \in Of(s, {kind}), i < j
                 PROVE  s[i].to < s[j].from
      BY DEF Rising
    <3>1. /\ i \in Of(s \o t, {kind}) /\ (s \o t)[i] = s[i]
          /\ j \in Of(s \o t, {kind}) /\ (s \o t)[j] = s[j]
      BY <1>1
    <3> QED BY <3>1 DEF Rising
  <2>2. Replayed(s, lo)
    <3>1. \A i \in Of(s, {"replay"}) : s[i].from = s[i].to
      BY <1>1, <2>0 DEF Replayed
    <3>2. ASSUME NEW j \in Of(s, {"replay"}),
                 NEW k \in Of(s, {"replay"}), ~(j <= k)
          PROVE  \E i \in Of(s, {"replay"}) : i < j /\ s[i].to + 1 = s[j].from
      <4>1. PICK i \in Of(s \o t, {"replay"}) : i < j /\ (s \o t)[i].to + 1 = s[j].from
        BY <1>1, <2>0, <3>2 DEF Replayed
      <4>2. i \in Of(s, {"replay"})
        BY <1>1, <1>2, <4>1
      <4> QED BY <1>1, <4>1, <4>2
    <3>3. \A i \in Of(s, {"replay"}), j \in Of(s, FanOut \cup {"replay-end"}) : i < j
      BY <1>1, <2>0 DEF Replayed
    <3>4. ASSUME NEW m \in Of(s, {"replay-end"}), NEW k \in Of(s, {"replay"})
          PROVE  \E i \in Of(s, {"replay"}) : s[i].to >= lo
      <4>1. PICK i \in Of(s \o t, {"replay"}) : (s \o t)[i].to >= lo
        BY <1>1, <2>0, <3>4 DEF Replayed
      <4>2. m \in Of(s \o t, FanOut \cup {"replay-end"}) /\ m <= Len(s) /\ m \in Nat
        BY <1>1 DEF Of
      <4>3. i < m
        BY <2>0, <4>1, <4>2 DEF Replayed
      <4>4. i \in Of(s, {"replay"})
        <5>1. i \in Nat /\ Len(s) \in Nat /\ (i \in Of(s, {"replay"}) \/ Len(s) < i)
          BY <1>2, <4>1
        <5> QED BY <4>2, <4>3, <5>1
      <4> QED BY <1>1, <4>1, <4>4
    <3>5. \A i, j \in Of(s, {"replay-end"}) : i = j
      BY <1>1, <2>0 DEF Replayed
    <3> QED BY <3>1, <3>2, <3>3, <3>4, <3>5 DEF Replayed
  <2>3. Framed(s, fr)
    <3>1. \A K : \A i \in Of(s, K) : InFrame(s \o t, i) <=> InFrame(s, i)
      <4> SUFFICES ASSUME NEW K, NEW i \in Of(s, K) PROVE InFrame(s \o t, i) <=> InFrame(s, i)
        OBVIOUS
      <4>1. i \in Nat /\ i <= Len(s) + 1
        BY MessageFields
      <4> QED BY <4>1, FramePrefix
    <3> QED BY <1>1, <2>0, <3>1 DEF Framed
  <2> QED BY <2>0, <2>1, <2>2, <2>3
<1> QED BY <1>3, <1>4, <1>5, <1>6 DEF Story

(* What one more message adds. *)
LEMMA OneMore ==
  ASSUME NEW s \in Seq(Message), NEW m \in Message
  PROVE  /\ <<m>> \in Seq(Message) /\ s \o <<m>> \in Seq(Message)
         /\ Len(s) \in Nat /\ Len(s \o <<m>>) = Len(s) + 1
         /\ (s \o <<m>>)[Len(s) + 1] = m
         /\ \A K : /\ m.kind \in K => Len(s) + 1 \in Of(s \o <<m>>, K)
                   /\ \A i \in Of(s, K) : /\ i \in Of(s \o <<m>>, K)
                                        /\ (s \o <<m>>)[i] = s[i]
                                        /\ i \in Nat /\ i < Len(s) + 1
                   /\ \A i \in Of(s \o <<m>>, K) :
                        i \in Of(s, K) \/ (i = Len(s) + 1 /\ m.kind \in K)
<1> DEFINE one == <<m>>
           st == s \o one
<1>1. one \in Seq(Message) /\ Len(one) = 1 /\ one[1] = m /\ DOMAIN one = {1}
  OBVIOUS
<1> HIDE DEF one
<1>2. /\ st \in Seq(Message) /\ Len(st) = Len(s) + 1 /\ Len(s) \in Nat
      /\ st[Len(s) + 1] = m
  <2>1. st \in Seq(Message) /\ Len(st) = Len(s) + Len(one) /\ Len(s) \in Nat
    BY <1>1, OfConcat
  <2>2. st[Len(s) + 1] = one[(Len(s) + 1) - Len(s)]
    BY <1>1, <2>1, ConcatProperties
  <2> QED BY <1>1, <2>1, <2>2
<1>3. \A K : \A i \in Of(one, K) : i = 1 /\ m.kind \in K
  BY <1>1 DEF Of
<1>4. \A K : m.kind \in K => 1 \in Of(one, K)
  BY <1>1 DEF Of
<1>5. ASSUME NEW K
      PROVE  /\ m.kind \in K => Len(s) + 1 \in Of(st, K)
             /\ \A i \in Of(s, K) : /\ i \in Of(st, K) /\ st[i] = s[i]
                                  /\ i \in Nat /\ i < Len(s) + 1
             /\ \A i \in Of(st, K) : i \in Of(s, K) \/ (i = Len(s) + 1 /\ m.kind \in K)
  <2>1. /\ \A i \in Of(s, K) : i \in Of(st, K) /\ st[i] = s[i] /\ i \in 1 .. Len(s)
        /\ \A i \in Of(one, K) : Len(s) + i \in Of(st, K)
        /\ \A i \in Of(st, K) : i \in Of(s, K) \/ \E j \in Of(one, K) : i = Len(s) + j
    BY <1>1, OfConcat
  <2> QED BY <1>2, <1>3, <1>4, <2>1
<1> QED BY <1>1, <1>2, <1>5 DEF one

(* Whether a frame is open after one more message. *)
LEMMA FrameAfter ==
  ASSUME ParametersFit, NEW s \in Seq(Message), NEW m \in Message
  PROVE  InFrame(s \o <<m>>, Len(s) + 2) <=>
           \/ m.kind = "output-frame-start"
           \/ InFrame(s, Len(s) + 1) /\ m.kind # "output-frame-end"
<1> DEFINE n == Len(s) + 1
           st == s \o <<m>>
           starts == {"output-frame-start"}
           ends == {"output-frame-end"}
<1>1. n \in Nat /\ Len(s) + 2 = n + 1
  BY LenProperties
<1>2. \A K : /\ m.kind \in K => n \in Of(st, K)
             /\ \A i \in Of(s, K) : i \in Of(st, K) /\ i \in Nat /\ i < n
             /\ \A i \in Of(st, K) : i \in Of(s, K) \/ (i = n /\ m.kind \in K)
  BY OneMore
<1>3. \A K : /\ \A i \in Of(st, K) : i \in Nat /\ i < n + 1
             /\ m.kind \notin K => Of(st, K) = Of(s, K)
  <2>1. ASSUME NEW K PROVE \A i \in Of(st, K) : i \in Nat /\ i < n + 1
    BY <1>1, <1>2
  <2>2. ASSUME NEW K, m.kind \notin K PROVE Of(st, K) = Of(s, K)
    BY <1>2, <2>2
  <2> QED BY <2>1, <2>2
<1> SUFFICES InFrame(st, n + 1) <=> \/ m.kind = "output-frame-start"
                                    \/ InFrame(s, n) /\ m.kind # "output-frame-end"
  BY <1>1
<1> HIDE DEF n, st
<1>4. CASE m.kind = "output-frame-start"
  <2>1. n \in Of(st, starts) /\ n < n + 1
    BY <1>1, <1>2, <1>4
  <2>2. \A e \in Of(st, ends) : e < n
    BY <1>2, <1>4
  <2> QED BY <1>4, <2>1, <2>2 DEF InFrame
<1>5. CASE m.kind = "output-frame-end"
  <2>1. n \in Of(st, ends) /\ ~(n + 1 <= n)
    BY <1>1, <1>2, <1>5
  <2>2. \A b \in Of(st, starts) : ~(n < b)
    BY <1>1, <1>3
  <2> QED BY <1>1, <1>5, <2>1, <2>2 DEF InFrame
<1>6. CASE m.kind \notin {"output-frame-start", "output-frame-end"}
  <2>1. Of(st, starts) = Of(s, starts) /\ Of(st, ends) = Of(s, ends)
    BY <1>3, <1>6
  <2>2. \A i \in Of(s, starts) \cup Of(s, ends) : i < n /\ i < n + 1 /\ i \in Nat
    BY <1>1, <1>2, <1>3
  <2>3. InFrame(st, n + 1) <=> InFrame(s, n)
    BY <1>1, <2>1, <2>2 DEF InFrame
  <2> QED BY <1>6, <2>3
<1> QED BY <1>4, <1>5, <1>6

(* One message of the fan-out, and where the session is before and after.  *)
Continues(m, hi, fr, frame, hi2, fr2, frame2) ==
    \/ /\ m.kind = "output-frame-start" /\ ~frame /\ frame2
       /\ hi2 = hi /\ fr2 = fr
    \/ /\ m.kind = "output-frame-end" /\ frame /\ ~frame2
       /\ hi2 = hi /\ fr2 = fr
    \/ /\ m.kind = "output" /\ m.from = hi + 1 /\ m.to = hi2 /\ hi < hi2
       /\ frame2 = frame
       /\ fr2 = IF frame THEN fr \cup (hi + 1 .. hi2) ELSE fr

(* A story that ends where the session is goes on with what the session    *)
(* does next.                                                              *)
LEMMA StoryMore ==
  ASSUME ParametersFit, NEW s \in Seq(Message), NEW m \in Message,
         NEW lo \in Nat, NEW hi \in Nat, NEW fr \in SUBSET (1 .. hi),
         NEW frame \in BOOLEAN, NEW cut \in BOOLEAN,
         Story(s, lo, hi, fr, cut), Ends(s, lo, hi, frame), lo <= hi,
         NEW hi2 \in Nat, NEW fr2, NEW frame2 \in BOOLEAN,
         Continues(m, hi, fr, frame, hi2, fr2, frame2)
  PROVE  Story(s \o <<m>>, lo, hi2, fr2, cut) /\ Ends(s \o <<m>>, lo, hi2, frame2)
<1> DEFINE n == Len(s) + 1
           st == s \o <<m>>
<1> USE DEF Continues
<1>0. /\ st \in Seq(Message) /\ n \in Nat /\ Len(st) = n /\ st[n] = m
      /\ m.kind \in FanOut /\ hi <= hi2 /\ <<m>> \in Seq(Message) /\ n <= Len(s) + 1
  BY OneMore DEF FanOut
<1>1. \A K : /\ m.kind \in K => n \in Of(st, K)
             /\ \A i \in Of(s, K) : i \in Of(st, K) /\ st[i] = s[i] /\ i \in Nat /\ i < n
             /\ \A i \in Of(st, K) : i \in Of(s, K) \/ (i = n /\ m.kind \in K)
  BY OneMore
<1>2. /\ Len(s) + 2 = Len(st) + 1
      /\ InFrame(st, Len(st) + 1) <=> \/ m.kind = "output-frame-start"
                                      \/ InFrame(s, n) /\ m.kind # "output-frame-end"
  BY <1>0, FrameAfter
<1>3. InFrame(st, n) <=> InFrame(s, n)
  BY <1>0, FramePrefix
<1>4. ASSUME NEW K, NEW i \in Of(s, K) PROVE InFrame(st, i) <=> InFrame(s, i)
  <2>1. i \in Nat /\ i <= Len(s) + 1
    BY MessageFields
  <2> QED BY <1>0, <2>1, FramePrefix
<1>5. \A K : \A i \in Of(s, K) : s[i].from \in Nat /\ s[i].to \in Nat /\ s[i].kind \in K
  BY MessageFields
<1>6. Of(s, {"replay-end"}) # {} /\ LastIs(s, lo, hi) /\ (frame <=> InFrame(s, n))
  BY DEF Ends
<1> HIDE DEF n, st
<1>7. /\ \A K : m.kind \notin K => Of(st, K) = Of(s, K)
      /\ Of(st, {"replay-end"}) = Of(s, {"replay-end"})
      /\ Of(st, {"replay"}) = Of(s, {"replay"})
  <2>1. \A K : m.kind \notin K => Of(st, K) = Of(s, K)
    BY <1>1
  <2> QED BY <1>0, <2>1 DEF FanOut
<1>8. Real(st, lo, hi2)
  <2> SUFFICES ASSUME NEW i \in Of(st, {"output"})
               PROVE  lo < st[i].from /\ st[i].from <= st[i].to /\ st[i].to <= hi2
    BY DEF Real
  <2>1. CASE i \in Of(s, {"output"})
    <3>1. lo < s[i].from /\ s[i].from <= s[i].to /\ s[i].to <= hi
      BY <2>1 DEF Story, Real
    <3> QED BY <1>0, <1>1, <1>5, <2>1, <3>1
  <2>2. CASE i = n /\ m.kind = "output"
    BY <1>0, <2>2
  <2> QED BY <1>1, <2>1, <2>2
<1>9. Linked(st, lo)
  <2> SUFFICES ASSUME NEW i \in Of(st, {"output"}), st[i].from # lo + 1
               PROVE  \E j \in Of(st, {"output"}) : j < i /\ st[j].to + 1 = st[i].from
    BY DEF Linked
  <2>1. CASE i \in Of(s, {"output"})
    <3>1. PICK j \in Of(s, {"output"}) : j < i /\ s[j].to + 1 = s[i].from
      BY <1>1, <2>1 DEF Story, Linked
    <3> QED BY <1>1, <2>1, <3>1
  <2>2. CASE i = n /\ m.kind = "output"
    <3>1. hi # lo
      BY <1>0, <2>2
    <3>2. PICK j \in Of(s, {"output"}) : s[j].to = hi
      BY <1>6, <3>1 DEF LastIs
    <3> QED BY <1>0, <1>1, <2>2, <3>2
  <2> QED BY <1>1, <2>1, <2>2
<1>10. Marked(st)
  <2> SUFFICES ASSUME NEW i \in Of(st, FanOut)
               PROVE  \E k \in Of(s, {"replay-end"}) : k < i
    BY <1>7 DEF Marked
  <2>1. CASE i \in Of(s, FanOut)
    BY <2>1 DEF Story, Marked
  <2>2. CASE i = n
    BY <1>1, <1>6, <2>2
  <2> QED BY <1>1, <2>1, <2>2
<1>11. ASSUME ~cut
       PROVE  /\ Rising(st, "output") /\ Rising(st, "replay")
              /\ Replayed(st, lo) /\ Framed(st, fr2)
  <2>0. Rising(s, "output") /\ Rising(s, "replay") /\ Replayed(s, lo) /\ Framed(s, fr)
    BY <1>11 DEF Story
  <2>1. Rising(st, "output")
    <3> SUFFICES ASSUME NEW i \in Of(st, {"output"}), NEW j \in Of(st, {"output"}), i < j
                 PROVE  st[i].to < st[j].from
      BY DEF Rising
    <3>1. i \in Of(s, {"output"})
      BY <1>0, <1>1
    <3>2. CASE j \in Of(s, {"output"})
      BY <1>1, <2>0, <3>1, <3>2 DEF Rising
    <3>3. CASE j = n /\ m.kind = "output"
      <4>1. s[i].to <= hi /\ s[i].to \in Nat
        BY <1>5, <3>1 DEF Story, Real
      <4>2. st[i] = s[i] /\ st[j].from = hi + 1
        BY <1>0, <1>1, <3>1, <3>3
      <4> QED BY <4>1, <4>2
    <3> QED BY <1>1, <3>2, <3>3
  <2>2. Rising(st, "replay")
    BY <1>1, <1>7, <2>0 DEF Rising
  <2>3. Replayed(st, lo)
    <3>1. \A i \in Of(st, {"replay"}), j \in Of(st, FanOut \cup {"replay-end"}) : i < j
      <4> SUFFICES ASSUME NEW i \in Of(s, {"replay"}),
                          NEW j \in Of(st, FanOut \cup {"replay-end"})
                   PROVE  i < j
        BY <1>7
      <4>1. CASE j \in Of(s, FanOut \cup {"replay-end"})
        BY <2>0, <4>1 DEF Replayed
      <4>2. CASE j = n
        BY <1>1, <4>2
      <4> QED BY <1>1, <4>1, <4>2
    <3>2. \A i \in Of(s, {"replay"}) : st[i] = s[i]
      BY <1>1
    <3> QED BY <1>7, <2>0, <3>1, <3>2 DEF Replayed
  <2>4. Framed(st, fr2)
    <3>1. ASSUME NEW i \in Of(st, {"output-frame-start"}) PROVE ~InFrame(st, i)
      <4>1. CASE i \in Of(s, {"output-frame-start"})
        BY <1>4, <2>0, <4>1 DEF Framed
      <4>2. CASE i = n /\ m.kind = "output-frame-start"
        BY <1>3, <1>6, <4>2
      <4> QED BY <1>1, <4>1, <4>2
    <3>2. ASSUME NEW i \in Of(st, {"output-frame-end"}) PROVE InFrame(st, i)
      <4>1. CASE i \in Of(s, {"output-frame-end"})
        BY <1>4, <2>0, <4>1 DEF Framed
      <4>2. CASE i = n /\ m.kind = "output-frame-end"
        BY <1>3, <1>6, <4>2
      <4> QED BY <1>1, <4>1, <4>2
    <3>3. ASSUME NEW i \in Of(st, {"output"})
          PROVE  IF InFrame(st, i) THEN st[i].from .. st[i].to \subseteq fr2
                 ELSE st[i].from .. st[i].to \cap fr2 = {}
      <4>1. CASE i \in Of(s, {"output"})
        <5>1. /\ IF InFrame(s, i) THEN s[i].from .. s[i].to \subseteq fr
                 ELSE s[i].from .. s[i].to \cap fr = {}
              /\ s[i].to <= hi /\ s[i].from \in Nat /\ s[i].to \in Nat /\ st[i] = s[i]
          BY <1>1, <1>5, <2>0, <4>1 DEF Framed, Story, Real
        <5>2. \A x \in s[i].from .. s[i].to : x \in fr2 <=> x \in fr
          BY <1>0, <5>1
        <5> QED BY <1>4, <4>1, <5>1, <5>2
      <4>2. CASE i = n /\ m.kind = "output"
        <5>1. /\ InFrame(st, i) <=> frame
              /\ st[i].from = hi + 1 /\ st[i].to = hi2
              /\ fr2 = IF frame THEN fr \cup (hi + 1 .. hi2) ELSE fr
          BY <1>0, <1>3, <1>6, <4>2
        <5>2. \A x \in fr : x \in Nat /\ x <= hi
          OBVIOUS
        <5> QED BY <1>0, <5>1, <5>2
      <4> QED BY <1>1, <4>1, <4>2
    <3> QED BY <3>1, <3>2, <3>3 DEF Framed
  <2> QED BY <2>1, <2>2, <2>3, <2>4
<1>12. LastIs(st, lo, hi2)
  <2>1. CASE m.kind = "output"
    <3>1. n \in Of(st, {"output"}) /\ st[n].to = hi2
      BY <1>0, <1>1, <2>1
    <3>2. \A j \in Of(st, {"output"}) : j <= n
      BY <1>0, <1>1
    <3> QED BY <3>1, <3>2 DEF LastIs
  <2>2. CASE m.kind # "output"
    <3>1. Of(st, {"output"}) = Of(s, {"output"}) /\ hi2 = hi
      BY <1>7, <2>2
    <3>2. \A i \in Of(s, {"output"}) : st[i] = s[i]
      BY <1>1
    <3> QED BY <1>6, <3>1, <3>2 DEF LastIs
  <2> QED BY <2>1, <2>2
<1>13. frame2 <=> InFrame(st, Len(st) + 1)
  BY <1>2, <1>6
<1>14. Story(st, lo, hi2, fr2, cut)
  BY <1>8, <1>9, <1>10, <1>11 DEF Story
<1>15. Ends(st, lo, hi2, frame2)
  BY <1>6, <1>7, <1>12, <1>13 DEF Ends
<1> QED BY <1>14, <1>15 DEF st
(* What was sent does not depend on what is flushed later.                 *)
LEMMA StoryLater ==
  ASSUME ParametersFit, NEW s \in Seq(Message), NEW lo \in Nat,
         NEW hi \in Nat, NEW hi2 \in Nat, hi <= hi2,
         NEW fr, NEW fr2, \A x \in 1 .. hi : x \in fr <=> x \in fr2,
         NEW cut \in BOOLEAN, NEW cut2 \in BOOLEAN, cut => cut2, Story(s, lo, hi, fr, cut)
  PROVE  Story(s, lo, hi2, fr2, cut2)
<1>1. \A i \in Of(s, {"output"}) :
        s[i].from \in Nat /\ s[i].to \in Nat /\ lo < s[i].from /\ s[i].to <= hi
  BY MessageFields DEF Story, Real
<1>2. Real(s, lo, hi2)
  BY <1>1 DEF Story, Real
<1>3. Framed(s, fr) => Framed(s, fr2)
  <2> SUFFICES ASSUME Framed(s, fr), NEW i \in Of(s, {"output"})
               PROVE  IF InFrame(s, i) THEN s[i].from .. s[i].to \subseteq fr2
                      ELSE s[i].from .. s[i].to \cap fr2 = {}
    BY DEF Framed
  <2>1. \A x \in s[i].from .. s[i].to : x \in 1 .. hi
    BY <1>1
  <2>2. IF InFrame(s, i) THEN s[i].from .. s[i].to \subseteq fr
        ELSE s[i].from .. s[i].to \cap fr = {}
    BY DEF Framed
  <2> QED BY <2>1, <2>2
<1> QED BY <1>2, <1>3 DEF Story

(* As OfConcat, with the order of the two pieces. *)
LEMMA AfterConcat ==
  ASSUME ParametersFit, NEW s \in Seq(Message), NEW t \in Seq(Message)
  PROVE  /\ s \o t \in Seq(Message) /\ Len(s \o t) = Len(s) + Len(t)
         /\ Len(s) \in Nat /\ Len(t) \in Nat
         /\ \A K : /\ \A i \in Of(s, K) : /\ i \in Of(s \o t, K) /\ (s \o t)[i] = s[i]
                                        /\ i \in Nat /\ 1 <= i /\ i <= Len(s)
                   /\ \A i \in Of(t, K) : /\ Len(s) + i \in Of(s \o t, K)
                                        /\ (s \o t)[Len(s) + i] = t[i]
                                        /\ i \in Nat /\ 1 <= i
                   /\ \A i \in Of(s \o t, K) : /\ i \in Nat
                                             /\ \/ i \in Of(s, K) /\ i <= Len(s)
                                                \/ \E j \in Of(t, K) : i = Len(s) + j /\ Len(s) < i
<1>1. /\ s \o t \in Seq(Message) /\ Len(s \o t) = Len(s) + Len(t)
      /\ Len(s) \in Nat /\ Len(t) \in Nat
  BY OfConcat
<1>2. ASSUME NEW K
      PROVE  /\ \A i \in Of(s, K) : /\ i \in Of(s \o t, K) /\ (s \o t)[i] = s[i]
                                  /\ i \in Nat /\ 1 <= i /\ i <= Len(s)
             /\ \A i \in Of(t, K) : /\ Len(s) + i \in Of(s \o t, K)
                                  /\ (s \o t)[Len(s) + i] = t[i] /\ i \in Nat /\ 1 <= i
             /\ \A i \in Of(s \o t, K) : /\ i \in Nat
                                       /\ \/ i \in Of(s, K) /\ i <= Len(s)
                                          \/ \E j \in Of(t, K) : i = Len(s) + j /\ Len(s) < i
  <2>1. /\ \A i \in Of(s, K) : /\ i \in Of(s \o t, K) /\ (s \o t)[i] = s[i]
                             /\ i \in 1 .. Len(s)
        /\ \A i \in Of(t, K) : /\ Len(s) + i \in Of(s \o t, K)
                             /\ (s \o t)[Len(s) + i] = t[i] /\ i \in 1 .. Len(t)
        /\ \A i \in Of(s \o t, K) : i \in Of(s, K) \/ \E j \in Of(t, K) : i = Len(s) + j
    BY OfConcat
  <2> QED BY <1>1, <2>1
<1> QED BY <1>1, <1>2

(* What has no message of some kinds adds none. *)
LEMMA NoneAdded ==
  ASSUME ParametersFit, NEW s \in Seq(Message), NEW t \in Seq(Message), NEW K, Of(t, K) = {}
  PROVE  Of(s \o t, K) = Of(s, K)
<1>1. \A i \in Of(s, K) : i \in Of(s \o t, K)
  BY OfConcat
<1>2. \A i \in Of(s \o t, K) : i \in Of(s, K) \/ \E j \in Of(t, K) : i = Len(s) + j
  BY OfConcat
<1> QED BY <1>1, <1>2

(* Two pieces without word of the end have none together. *)
LEMMA QuietConcat ==
  ASSUME ParametersFit, NEW s \in Seq(Message), NEW t \in Seq(Message), Quiet(s), Quiet(t)
  PROVE  Quiet(s \o t)
<1>1. Of(s, {"exit", "killed"}) = {} /\ Of(t, {"exit", "killed"}) = {}
  BY DEF Quiet
<1>2. Of(s \o t, {"exit", "killed"}) = Of(s, {"exit", "killed"})
  BY <1>1, NoneAdded
<1> QED BY <1>1, <1>2 DEF Quiet

(* After a prefix without boundaries the frames are those of the rest.     *)
LEMMA FrameSuffix ==
  ASSUME ParametersFit, NEW s \in Seq(Message), NEW t \in Seq(Message),
         Of(s, Boundary) = {}, NEW n \in Nat
  PROVE  InFrame(s \o t, Len(s) + n) <=> InFrame(t, n)
<1> DEFINE starts == {"output-frame-start"}
           ends == {"output-frame-end"}
           l == Len(s)
           st == s \o t
<1>1. Of(s, starts) = {} /\ Of(s, ends) = {}
  BY DEF Of, Boundary
<1>2. l \in Nat /\ \A K : /\ \A i \in Of(t, K) : l + i \in Of(st, K) /\ i \in Nat
                          /\ Of(s, K) = {} =>
                               \A i \in Of(st, K) : \E j \in Of(t, K) : i = l + j
  BY AfterConcat
<1> HIDE DEF l, st
<1>3. ASSUME InFrame(st, l + n) PROVE InFrame(t, n)
  <2>1. PICK b \in Of(st, starts) : b < l + n /\ \A e \in Of(st, ends) : e < b \/ l + n <= e
    BY <1>3 DEF InFrame
  <2>2. PICK c \in Of(t, starts) : b = l + c
    BY <1>1, <1>2
  <2>3. \A e \in Of(t, ends) : e < c \/ n <= e
    BY <1>2, <2>1, <2>2
  <2> QED BY <1>2, <2>1, <2>2, <2>3 DEF InFrame
<1>4. ASSUME InFrame(t, n) PROVE InFrame(st, l + n)
  <2>1. PICK b \in Of(t, starts) : b < n /\ \A e \in Of(t, ends) : e < b \/ n <= e
    BY <1>4 DEF InFrame
  <2>2. ASSUME NEW e \in Of(st, ends) PROVE e < l + b \/ l + n <= e
    <3>1. PICK j \in Of(t, ends) : e = l + j
      BY <1>1, <1>2
    <3>2. j \in Nat /\ b \in Nat /\ (j < b \/ n <= j)
      BY <1>2, <2>1
    <3> QED BY <1>2, <3>1, <3>2
  <2> QED BY <1>2, <2>1, <2>2 DEF InFrame
<1> QED BY <1>3, <1>4 DEF l, st

(* The announcement of the promotion and the replay of the scrollback.     *)
Prelude(p, lo) ==
    /\ Of(p, FanOut \cup {"replay-end"}) = {}
    /\ Rising(p, "replay")
    /\ \A i \in Of(p, {"replay"}) : p[i].from = p[i].to
    /\ \A j \in Of(p, {"replay"}) :
         \/ \A k \in Of(p, {"replay"}) : j <= k
         \/ \E i \in Of(p, {"replay"}) : i < j /\ p[i].to + 1 = p[j].from
    /\ Of(p, {"replay"}) # {} => \E i \in Of(p, {"replay"}) : p[i].to >= lo

(* A promotion puts them in front of the pending queue.                    *)
LEMMA StoryShift ==
  ASSUME ParametersFit, NEW p \in Seq(Message), NEW t \in Seq(Message),
         NEW lo \in Nat, NEW hi \in Nat, NEW fr, NEW frame,
         Prelude(p, lo), Of(t, {"replay"}) = {},
         Story(t, lo, hi, fr, FALSE), Ends(t, lo, hi, frame)
  PROVE  Story(p \o t, lo, hi, fr, FALSE) /\ Ends(p \o t, lo, hi, frame)
<1> DEFINE l == Len(p)
           pt == p \o t
<1>1. /\ pt \in Seq(Message) /\ l \in Nat /\ Len(t) \in Nat /\ Len(pt) = l + Len(t)
      /\ \A K : /\ \A i \in Of(p, K) : /\ i \in Of(pt, K) /\ pt[i] = p[i]
                                     /\ i \in Nat /\ i <= l
                /\ \A i \in Of(t, K) : /\ l + i \in Of(pt, K) /\ pt[l + i] = t[i]
                                     /\ i \in Nat /\ 1 <= i
                /\ \A i \in Of(pt, K) : /\ i \in Nat
                                      /\ \/ i \in Of(p, K) /\ i <= l
                                         \/ \E j \in Of(t, K) : i = l + j /\ l < i
  BY AfterConcat, SMTT(30)
<1>2. Of(p, Boundary) = {}
  BY DEF Prelude, Of, FanOut, Boundary
<1>3. \A n \in Nat : InFrame(pt, l + n) <=> InFrame(t, n)
  BY <1>2, FrameSuffix
<1>4. \A K \in SUBSET (FanOut \cup {"replay-end"}) :
        \A i \in Of(pt, K) : \E j \in Of(t, K) : i = l + j
  <2> SUFFICES ASSUME NEW K \in SUBSET (FanOut \cup {"replay-end"}), NEW i \in Of(pt, K)
               PROVE  \E j \in Of(t, K) : i = l + j
    OBVIOUS
  <2>1. Of(p, K) = {}
    BY DEF Prelude, Of
  <2> QED BY <1>1, <2>1
<1>5. \A i \in Of(pt, {"replay"}) : i \in Of(p, {"replay"})
  BY <1>1
<1>6. \A i \in Of(t, {"output"}) : t[i].from \in Nat /\ t[i].to \in Nat
  BY MessageFields
<1>7. /\ Real(t, lo, hi) /\ Linked(t, lo) /\ Marked(t) /\ Rising(t, "output")
      /\ Replayed(t, lo) /\ Framed(t, fr)
      /\ LastIs(t, lo, hi) /\ (frame <=> InFrame(t, Len(t) + 1)) /\ Of(t, {"replay-end"}) # {}
  BY DEF Story, Ends
<1> HIDE DEF l, pt
<1>8. ASSUME NEW i \in Of(pt, {"output"})
      PROVE  \E j \in Of(t, {"output"}) : i = l + j /\ pt[i] = t[j] /\ j \in Nat
  <2>1. PICK j \in Of(t, {"output"}) : i = l + j
    BY <1>4 DEF FanOut
  <2> QED BY <1>1, <2>1
<1>9. Real(pt, lo, hi)
  BY <1>7, <1>8 DEF Real
<1>10. Linked(pt, lo)
  <2> SUFFICES ASSUME NEW i \in Of(pt, {"output"}), pt[i].from # lo + 1
               PROVE  \E j \in Of(pt, {"output"}) : j < i /\ pt[j].to + 1 = pt[i].from
    BY DEF Linked
  <2>1. PICK x \in Of(t, {"output"}) : i = l + x /\ pt[i] = t[x] /\ x \in Nat
    BY <1>8
  <2>2. PICK y \in Of(t, {"output"}) : y < x /\ t[y].to + 1 = t[x].from
    BY <1>7, <2>1 DEF Linked
  <2>3. l + y \in Of(pt, {"output"}) /\ pt[l + y] = t[y] /\ y \in Nat
    BY <1>1
  <2>4. l + y < i
    BY <1>1, <2>1, <2>2, <2>3
  <2> QED BY <2>1, <2>2, <2>3, <2>4
<1>11. Marked(pt)
  <2> SUFFICES ASSUME NEW i \in Of(pt, FanOut)
               PROVE  \E m \in Of(pt, {"replay-end"}) : m < i
    BY DEF Marked
  <2>1. PICK x \in Of(t, FanOut) : i = l + x
    BY <1>4
  <2>2. PICK m \in Of(t, {"replay-end"}) : m < x
    BY <1>7 DEF Marked
  <2> QED BY <1>1, <2>1, <2>2
<1>12. Rising(pt, "output")
  <2> SUFFICES ASSUME NEW i \in Of(pt, {"output"}), NEW j \in Of(pt, {"output"}), i < j
               PROVE  pt[i].to < pt[j].from
    BY DEF Rising
  <2>1. PICK x \in Of(t, {"output"}) : i = l + x /\ pt[i] = t[x] /\ x \in Nat
    BY <1>8
  <2>2. PICK y \in Of(t, {"output"}) : j = l + y /\ pt[j] = t[y] /\ y \in Nat
    BY <1>8
  <2>3. x < y
    BY <1>1, <2>1, <2>2
  <2> QED BY <1>7, <2>1, <2>2, <2>3 DEF Rising
<1>13. Rising(pt, "replay")
  BY <1>1, <1>5 DEF Prelude, Rising
<1>14. Replayed(pt, lo)
  <2>1. /\ \A i \in Of(pt, {"replay"}) : pt[i] = p[i] /\ i \in Nat /\ i <= l
        /\ \A i \in Of(p, {"replay"}) : i \in Of(pt, {"replay"})
    BY <1>1, <1>5
  <2>2. \A i \in Of(pt, {"replay"}) : pt[i].from = pt[i].to
    BY <1>5, <2>1 DEF Prelude
  <2>3. ASSUME NEW j \in Of(pt, {"replay"}), NEW k \in Of(pt, {"replay"}), ~(j <= k)
        PROVE  \E i \in Of(pt, {"replay"}) : i < j /\ pt[i].to + 1 = pt[j].from
    <3>1. PICK i \in Of(p, {"replay"}) : i < j /\ p[i].to + 1 = p[j].from
      BY <1>5, <2>3 DEF Prelude
    <3> QED BY <2>1, <3>1
  <2>4. \A i \in Of(pt, {"replay"}), j \in Of(pt, FanOut \cup {"replay-end"}) : i < j
    <3> SUFFICES ASSUME NEW i \in Of(pt, {"replay"}),
                        NEW j \in Of(pt, FanOut \cup {"replay-end"})
                 PROVE  i < j
      OBVIOUS
    <3>1. PICK x \in Of(t, FanOut \cup {"replay-end"}) : j = l + x
      BY <1>4
    <3> QED BY <1>1, <2>1, <3>1
  <2>5. Of(pt, {"replay"}) # {} => \E i \in Of(pt, {"replay"}) : pt[i].to >= lo
    BY <1>5, <2>1 DEF Prelude
  <2>6. \A i, j \in Of(pt, {"replay-end"}) : i = j
    <3> SUFFICES ASSUME NEW i \in Of(pt, {"replay-end"}), NEW j \in Of(pt, {"replay-end"})
                 PROVE  i = j
      OBVIOUS
    <3>1. PICK x \in Of(t, {"replay-end"}) : i = l + x
      BY <1>4
    <3>2. PICK y \in Of(t, {"replay-end"}) : j = l + y
      BY <1>4
    <3> QED BY <1>7, <3>1, <3>2 DEF Replayed
  <2> QED BY <2>2, <2>3, <2>4, <2>5, <2>6 DEF Replayed
<1>15. Framed(pt, fr)
  <2>2. ASSUME NEW i \in Of(pt, {"output-frame-start"})
        PROVE  ~InFrame(pt, i)
    <3>1. PICK j \in Of(t, {"output-frame-start"}) : i = l + j
      BY <1>4 DEF FanOut
    <3>2. pt[i] = t[j] /\ j \in Nat
      BY <1>1, <3>1
    <3>3. InFrame(pt, i) <=> InFrame(t, j)
      BY <1>3, <3>1, <3>2
    <3> QED BY <1>7, <3>2, <3>3 DEF Framed
  <2>3. ASSUME NEW i \in Of(pt, {"output-frame-end"})
        PROVE  InFrame(pt, i)
    <3>1. PICK j \in Of(t, {"output-frame-end"}) : i = l + j
      BY <1>4 DEF FanOut
    <3>2. pt[i] = t[j] /\ j \in Nat
      BY <1>1, <3>1
    <3>3. InFrame(pt, i) <=> InFrame(t, j)
      BY <1>3, <3>1, <3>2
    <3> QED BY <1>7, <3>2, <3>3 DEF Framed
  <2>4. ASSUME NEW i \in Of(pt, {"output"})
        PROVE  IF InFrame(pt, i) THEN pt[i].from .. pt[i].to \subseteq fr
               ELSE pt[i].from .. pt[i].to \cap fr = {}
    <3>1. PICK j \in Of(t, {"output"}) : i = l + j
      BY <1>4 DEF FanOut
    <3>2. pt[i] = t[j] /\ j \in Nat
      BY <1>1, <3>1
    <3>3. InFrame(pt, i) <=> InFrame(t, j)
      BY <1>3, <3>1, <3>2
    <3> QED BY <1>7, <3>2, <3>3 DEF Framed
  <2> QED BY <2>2, <2>3, <2>4 DEF Framed
<1>16. LastIs(pt, lo, hi)
  <2>1. CASE Of(t, {"output"}) = {}
    <3>1. Of(pt, {"output"}) = {}
      BY <1>8, <2>1
    <3> QED BY <1>7, <2>1, <3>1 DEF LastIs
  <2>2. CASE Of(t, {"output"}) # {}
    <3>1. PICK i \in Of(t, {"output"}) :
            t[i].to = hi /\ \A j \in Of(t, {"output"}) : j <= i
      BY <1>7, <2>2 DEF LastIs
    <3>2. l + i \in Of(pt, {"output"}) /\ pt[l + i].to = hi
      BY <1>1, <3>1
    <3>3. \A j \in Of(pt, {"output"}) : j <= l + i
      BY <1>1, <1>8, <3>1
    <3> QED BY <3>2, <3>3 DEF LastIs
  <2> QED BY <2>1, <2>2
<1>17. Ends(pt, lo, hi, frame)
  <2>1. InFrame(pt, Len(pt) + 1) <=> InFrame(t, Len(t) + 1)
    <3>1. Len(t) + 1 \in Nat /\ Len(pt) + 1 = l + (Len(t) + 1)
      BY <1>1
    <3> QED BY <1>3, <3>1
  <2>2. Of(pt, {"replay-end"}) # {}
    BY <1>1, <1>7
  <2> QED BY <1>7, <1>16, <2>1, <2>2 DEF Ends
<1>18. Story(pt, lo, hi, fr, FALSE)
  BY <1>9, <1>10, <1>11, <1>12, <1>13, <1>14, <1>15 DEF Story
<1> QED BY <1>17, <1>18 DEF pt
(* A promotion that cuts another short sends the pending queue after what  *)
(* the other one had sent of it.                                           *)
LEMMA StoryJoin ==
  ASSUME ParametersFit, NEW s \in Seq(Message), NEW t \in Seq(Message),
         NEW lo \in Nat, NEW hi \in Nat, NEW fr, NEW frame, NEW cut \in BOOLEAN,
         Story(s, lo, hi, fr, cut), Story(t, lo, hi, fr, FALSE), Ends(t, lo, hi, frame),
         Of(t, Boundary) = {} => Of(s, Boundary) = {}
  PROVE  Story(s \o t, lo, hi, fr, TRUE) /\ Ends(s \o t, lo, hi, frame)
<1> DEFINE l == Len(s)
           st == s \o t
<1>1. /\ st \in Seq(Message) /\ l \in Nat /\ Len(t) \in Nat /\ Len(st) = l + Len(t)
      /\ \A K : /\ \A i \in Of(s, K) : /\ i \in Of(st, K) /\ st[i] = s[i]
                                     /\ i \in Nat /\ i <= l
                /\ \A i \in Of(t, K) : /\ l + i \in Of(st, K) /\ st[l + i] = t[i]
                                     /\ i \in Nat /\ 1 <= i
                /\ \A i \in Of(st, K) : /\ i \in Nat
                                      /\ \/ i \in Of(s, K) /\ i <= l
                                         \/ \E j \in Of(t, K) : i = l + j /\ l < i
  BY AfterConcat, SMTT(30)
<1>2. /\ Real(s, lo, hi) /\ Linked(s, lo) /\ Marked(s)
      /\ Real(t, lo, hi) /\ Linked(t, lo) /\ Marked(t) /\ Framed(t, fr)
      /\ LastIs(t, lo, hi) /\ (frame <=> InFrame(t, Len(t) + 1)) /\ Of(t, {"replay-end"}) # {}
  BY DEF Story, Ends
<1>3. Of(s, Boundary) = {} => \A n \in Nat : InFrame(st, l + n) <=> InFrame(t, n)
  BY FrameSuffix
<1>4. \A i \in Of(s, {"output"}) : s[i].from \in Nat /\ s[i].to \in Nat
  BY MessageFields
<1>5. \A i \in Of(t, Boundary) : t[i].kind \in Boundary /\ i <= Len(t)
  BY MessageFields
<1> HIDE DEF l, st
<1>6. Real(st, lo, hi)
  <2> SUFFICES ASSUME NEW i \in Of(st, {"output"})
               PROVE  lo < st[i].from /\ st[i].from <= st[i].to /\ st[i].to <= hi
    BY DEF Real
  <2>1. CASE i \in Of(s, {"output"})
    BY <1>1, <1>2, <2>1 DEF Real
  <2>2. CASE \E j \in Of(t, {"output"}) : i = l + j
    BY <1>1, <1>2, <2>2 DEF Real
  <2> QED BY <1>1, <2>1, <2>2
<1>7. Linked(st, lo)
  <2> SUFFICES ASSUME NEW i \in Of(st, {"output"}), st[i].from # lo + 1
               PROVE  \E j \in Of(st, {"output"}) : j < i /\ st[j].to + 1 = st[i].from
    BY DEF Linked
  <2>1. CASE i \in Of(s, {"output"})
    <3>1. PICK j \in Of(s, {"output"}) : j < i /\ s[j].to + 1 = s[i].from
      BY <1>1, <1>2, <2>1 DEF Linked
    <3> QED BY <1>1, <2>1, <3>1
  <2>2. CASE \E x \in Of(t, {"output"}) : i = l + x
    <3>1. PICK x \in Of(t, {"output"}) : i = l + x
      BY <2>2
    <3>2. st[i] = t[x] /\ x \in Nat
      BY <1>1, <3>1
    <3>3. PICK y \in Of(t, {"output"}) : y < x /\ t[y].to + 1 = t[x].from
      BY <1>2, <3>1, <3>2 DEF Linked
    <3>4. l + y \in Of(st, {"output"}) /\ st[l + y] = t[y] /\ y \in Nat
      BY <1>1
    <3>5. l + y < i
      BY <1>1, <3>1, <3>2, <3>3, <3>4
    <3> QED BY <3>2, <3>3, <3>4, <3>5
  <2> QED BY <1>1, <2>1, <2>2
<1>8. Marked(st)
  <2> SUFFICES ASSUME NEW i \in Of(st, FanOut)
               PROVE  \E m \in Of(st, {"replay-end"}) : m < i
    BY DEF Marked
  <2>1. CASE i \in Of(s, FanOut)
    BY <1>1, <1>2, <2>1 DEF Marked
  <2>2. CASE \E x \in Of(t, FanOut) : i = l + x
    <3>1. PICK x \in Of(t, FanOut) : i = l + x
      BY <2>2
    <3>2. PICK m \in Of(t, {"replay-end"}) : m < x
      BY <1>2 DEF Marked
    <3>3. l + m \in Of(st, {"replay-end"}) /\ m \in Nat /\ x \in Nat
      BY <1>1
    <3> QED BY <1>1, <3>1, <3>2, <3>3
  <2> QED BY <1>1, <2>1, <2>2
<1>9. LastIs(st, lo, hi)
  <2>1. CASE Of(t, {"output"}) = {}
    <3>1. hi = lo
      BY <1>2, <2>1 DEF LastIs
    <3>2. Of(s, {"output"}) = {}
      BY <1>2, <1>4, <3>1 DEF Real
    <3>3. Of(st, {"output"}) = {}
      BY <1>1, <2>1, <3>2
    <3> QED BY <3>1, <3>3 DEF LastIs
  <2>2. CASE Of(t, {"output"}) # {}
    <3>1. PICK i \in Of(t, {"output"}) :
            t[i].to = hi /\ \A j \in Of(t, {"output"}) : j <= i
      BY <1>2, <2>2 DEF LastIs
    <3>2. l + i \in Of(st, {"output"}) /\ st[l + i].to = hi /\ i \in Nat
      BY <1>1, <3>1
    <3>3. ASSUME NEW j \in Of(st, {"output"}) PROVE j <= l + i
      <4>1. CASE j \in Of(s, {"output"})
        BY <1>1, <3>2, <4>1
      <4>2. CASE \E y \in Of(t, {"output"}) : j = l + y
        BY <1>1, <3>1, <3>2, <4>2
      <4> QED BY <1>1, <4>1, <4>2
    <3> QED BY <3>2, <3>3 DEF LastIs
  <2> QED BY <2>1, <2>2
<1>10. frame <=> InFrame(st, Len(st) + 1)
  <2>0. Len(t) + 1 \in Nat /\ Len(st) + 1 = l + (Len(t) + 1)
    BY <1>1
  <2>1. CASE Of(s, Boundary) = {}
    BY <1>2, <1>3, <2>0, <2>1
  <2>2. CASE Of(s, Boundary) # {}
    <3> DEFINE starts == {"output-frame-start"}
               ends == {"output-frame-end"}
               n == Len(t) + 1
    <3>1. \A i \in Of(t, starts) \cup Of(t, ends) : i \in Nat /\ i < n
      <4>1. \A i \in Of(t, starts) \cup Of(t, ends) : i \in Of(t, Boundary)
        BY DEF Of, Boundary
      <4> QED BY <1>1, <1>5, <4>1
    <3>2. PICK k \in Of(t, Boundary) : k \in Of(t, starts) \/ k \in Of(t, ends)
      <4>1. PICK k \in Of(t, Boundary) : TRUE
        BY <2>2
      <4> QED BY <4>1 DEF Of, Boundary
    <3>3. Of(t, starts) # {}
      <4>1. CASE k \in Of(t, ends)
        BY <1>2, <4>1 DEF Framed, InFrame
      <4> QED BY <3>2, <4>1
    <3>4. \A K : /\ \A i \in Of(s, K) : i \in Of(st, K) /\ i \in Nat /\ i <= l
                 /\ \A i \in Of(t, K) : l + i \in Of(st, K) /\ i \in Nat
                 /\ \A i \in Of(st, K) : i \in Of(s, K) \/ \E j \in Of(t, K) : i = l + j
      BY <1>1
    <3> HIDE DEF starts, ends, n
    <3>5. ASSUME InFrame(t, n) PROVE InFrame(st, l + n)
      <4>1. PICK b \in Of(t, starts) : b < n /\ \A e \in Of(t, ends) : e < b \/ n <= e
        BY <3>5 DEF InFrame, starts, ends
      <4>2. b \in Nat /\ 1 <= b /\ l + b \in Of(st, starts)
        BY <1>1, <3>4
      <4>3. ASSUME NEW e \in Of(st, ends) PROVE e < l + b
        <5>1. CASE e \in Of(s, ends)
          BY <1>1, <3>4, <4>2, <5>1
        <5>2. CASE \E y \in Of(t, ends) : e = l + y
          <6>1. PICK y \in Of(t, ends) : e = l + y
            BY <5>2
          <6>2. y \in Nat /\ y < n
            BY <3>1
          <6> QED BY <1>1, <4>1, <4>2, <6>1, <6>2 DEF n
        <5> QED BY <3>4, <5>1, <5>2
      <4>4. l + b < l + n
        BY <1>1, <4>1, <4>2 DEF n
      <4> QED BY <4>2, <4>3, <4>4 DEF InFrame, starts, ends
    <3>6. ASSUME InFrame(st, l + n) PROVE InFrame(t, n)
      <4>1. PICK b \in Of(st, starts) : b < l + n /\ \A e \in Of(st, ends) : e < b \/ l + n <= e
        BY <3>6 DEF InFrame, starts, ends
      <4>2. \A y \in Of(t, ends) : l + y < b
        <5> SUFFICES ASSUME NEW y \in Of(t, ends) PROVE l + y < b
          OBVIOUS
        <5>1. l + y \in Of(st, ends) /\ y \in Nat /\ y < n
          BY <3>1, <3>4
        <5> QED BY <1>1, <4>1, <5>1 DEF n
      <4>3. CASE b \in Of(s, starts)
        <5>1. Of(t, ends) = {}
          BY <1>1, <3>4, <4>2, <4>3
        <5>2. PICK a \in Of(t, starts) : TRUE
          BY <3>3 DEF starts
        <5> QED BY <3>1, <5>1, <5>2 DEF InFrame, starts, ends
      <4>4. CASE \E y \in Of(t, starts) : b = l + y
        <5>1. PICK y \in Of(t, starts) : b = l + y
          BY <4>4
        <5>2. \A e \in Of(t, ends) : e < y
          BY <1>1, <3>1, <4>2, <5>1
        <5> QED BY <3>1, <5>1, <5>2 DEF InFrame, starts, ends
      <4> QED BY <3>4, <4>1, <4>3, <4>4
    <3> QED BY <1>2, <2>0, <3>5, <3>6 DEF n
  <2> QED BY <2>1, <2>2
<1>11. Of(st, {"replay-end"}) # {}
  BY <1>1, <1>2
<1> QED BY <1>6, <1>7, <1>8, <1>9, <1>10, <1>11 DEF Story, Ends, st

(* What the fan-out is not part of leaves it as it was.                    *)
LEMMA StoryAside ==
  ASSUME ParametersFit, NEW s \in Seq(Message), NEW t \in Seq(Message),
         NEW lo \in Nat, NEW hi \in Nat, NEW fr, NEW cut \in BOOLEAN,
         Of(t, FanOut) = {}, cut \/ Of(t, {"replay", "replay-end"}) = {},
         Story(s, lo, hi, fr, cut)
  PROVE  /\ Story(s \o t, lo, hi, fr, cut)
         /\ \A frame : Ends(s, lo, hi, frame) => Ends(s \o t, lo, hi, frame)
<1> DEFINE st == s \o t
<1>1. /\ st \in Seq(Message) /\ Len(s) \in Nat /\ Len(t) \in Nat /\ Len(st) = Len(s) + Len(t)
      /\ \A K : /\ \A i \in Of(s, K) : /\ i \in Of(st, K) /\ st[i] = s[i]
                                     /\ i \in Nat /\ i <= Len(s)
                /\ \A i \in Of(st, K) : i \in Nat /\ (i \in Of(s, K) \/ Of(t, K) # {})
  BY AfterConcat
<1>2. \A K : Of(t, K) = {} => Of(st, K) = Of(s, K)
  BY <1>1
<1>3. \A K \in SUBSET FanOut : Of(st, K) = Of(s, K)
  <2>1. \A K \in SUBSET FanOut : Of(t, K) = {}
    BY DEF Of
  <2> QED BY <1>2, <2>1
<1>4. /\ Of(st, {"output"}) = Of(s, {"output"}) /\ Of(st, FanOut) = Of(s, FanOut)
      /\ Of(st, {"output-frame-start"}) = Of(s, {"output-frame-start"})
      /\ Of(st, {"output-frame-end"}) = Of(s, {"output-frame-end"})
  BY <1>3 DEF FanOut
<1>5. \A n : InFrame(st, n) <=> InFrame(s, n)
  BY <1>4 DEF InFrame
<1>6. InFrame(st, Len(st) + 1) <=> InFrame(s, Len(s) + 1)
  <2>1. \A i \in Of(s, {"output-frame-start"}) \cup Of(s, {"output-frame-end"}) :
          i \in Nat /\ i < Len(s) + 1 /\ i < Len(st) + 1
    BY <1>1
  <2>2. ASSUME NEW b \in Of(s, {"output-frame-start"}),
               NEW e \in Of(s, {"output-frame-end"})
        PROVE  (e < b \/ Len(st) + 1 <= e) <=> (e < b \/ Len(s) + 1 <= e)
    BY <1>1, <2>1
  <2> QED BY <1>4, <2>1, <2>2 DEF InFrame
<1>7. \A i \in Of(s, {"output"}) : st[i] = s[i]
  BY <1>1
<1> HIDE DEF st
<1>8. Real(st, lo, hi) /\ Linked(st, lo)
  BY <1>4, <1>7 DEF Story, Real, Linked
<1>9. Marked(st)
  BY <1>1, <1>4 DEF Story, Marked
<1>10. ASSUME ~cut
       PROVE  /\ Rising(st, "output") /\ Rising(st, "replay")
              /\ Replayed(st, lo) /\ Framed(st, fr)
  <2>0. Rising(s, "output") /\ Rising(s, "replay") /\ Replayed(s, lo) /\ Framed(s, fr)
    BY <1>10 DEF Story
  <2>1. /\ Of(st, {"replay"}) = Of(s, {"replay"})
        /\ Of(st, {"replay-end"}) = Of(s, {"replay-end"})
        /\ Of(st, FanOut \cup {"replay-end"}) = Of(s, FanOut \cup {"replay-end"})
    <3>1. /\ Of(t, {"replay"}) = {} /\ Of(t, {"replay-end"}) = {}
          /\ Of(t, FanOut \cup {"replay-end"}) = {}
      BY <1>10 DEF Of
    <3> QED BY <1>2, <3>1
  <2>2. \A i \in Of(s, {"replay"}) : st[i] = s[i]
    BY <1>1
  <2>3. Rising(st, "output") /\ Rising(st, "replay")
    BY <1>4, <1>7, <2>0, <2>1, <2>2 DEF Rising
  <2>4. Replayed(st, lo)
    BY <2>0, <2>1, <2>2 DEF Replayed
  <2>5. Framed(st, fr)
    BY <1>4, <1>5, <1>7, <2>0 DEF Framed
  <2> QED BY <2>3, <2>4, <2>5
<1>11. Story(st, lo, hi, fr, cut)
  BY <1>8, <1>9, <1>10 DEF Story
<1>12. ASSUME NEW frame, Ends(s, lo, hi, frame) PROVE Ends(st, lo, hi, frame)
  <2>1. LastIs(st, lo, hi)
    BY <1>4, <1>7, <1>12 DEF Ends, LastIs
  <2>2. Of(st, {"replay-end"}) # {}
    BY <1>1, <1>12 DEF Ends
  <2> QED BY <1>6, <1>12, <2>1, <2>2 DEF Ends
<1> QED BY <1>11, <1>12 DEF st
(* All of these are messages of the fan-out.                               *)
Fanning(q) == \A i \in DOMAIN q : q[i].kind \in FanOut

(* What the fan-out sends, one piece after another. *)
LEMMA FanningConcat ==
  ASSUME NEW s \in Seq(Message), NEW t \in Seq(Message), Fanning(s), Fanning(t)
  PROVE  s \o t \in Seq(Message) /\ Fanning(s \o t)
<1>1. /\ s \o t \in Seq(Message) /\ Len(s \o t) = Len(s) + Len(t)
      /\ Len(s) \in Nat /\ Len(t) \in Nat
      /\ \A i \in 1 .. Len(s) + Len(t) :
           (s \o t)[i] = IF i <= Len(s) THEN s[i] ELSE t[i - Len(s)]
  BY ConcatProperties, LenProperties
<1>2. /\ DOMAIN s = 1 .. Len(s) /\ DOMAIN t = 1 .. Len(t)
      /\ DOMAIN (s \o t) = 1 .. Len(s) + Len(t)
  BY <1>1, LenProperties
<1> QED BY <1>1, <1>2 DEF Fanning

(* A flush is at most a frame's start, a batch and the frame's end. *)
LEMMA FlushFans ==
  ASSUME ParametersFit, flushed \in 0 .. MaxChunks, NEW n \in flushed .. MaxChunks,
         NEW opens \in BOOLEAN, NEW closes \in BOOLEAN
  PROVE  LET a == IF opens /\ ~frameOpen THEN <<Note("output-frame-start")>> ELSE <<>>
             b == IF flushed < n THEN <<Output(flushed + 1, n)>> ELSE <<>>
             d == IF closes /\ (opens \/ frameOpen) THEN <<Note("output-frame-end")>> ELSE <<>>
         IN  /\ a \in Seq(Message) /\ b \in Seq(Message) /\ d \in Seq(Message)
             /\ Flush(opens, closes, n) = (a \o b) \o d
             /\ Flush(opens, closes, n) \in Seq(Message)
             /\ Fanning(Flush(opens, closes, n))
<1> DEFINE a == IF opens /\ ~frameOpen THEN <<Note("output-frame-start")>> ELSE <<>>
           b == IF flushed < n THEN <<Output(flushed + 1, n)>> ELSE <<>>
           d == IF closes /\ (opens \/ frameOpen) THEN <<Note("output-frame-end")>> ELSE <<>>
<1>0. MaxChunks \in Nat /\ flushed \in Nat /\ n \in Nat /\ flushed <= n /\ n <= MaxChunks
  BY DEF ParametersFit
<1>1. /\ Note("output-frame-start") \in Message /\ Note("output-frame-end") \in Message
      /\ flushed < n => Output(flushed + 1, n) \in Message
  BY <1>0 DEF Note, Output, Message
<1>2. \A m \in Message : <<m>> \in Seq(Message) /\ (m.kind \in FanOut => Fanning(<<m>>))
  BY DEF Fanning
<1>3. <<>> \in Seq(Message) /\ Fanning(<<>>)
  BY DEF Fanning
<1>4. /\ Note("output-frame-start").kind \in FanOut /\ Note("output-frame-end").kind \in FanOut
      /\ Output(flushed + 1, n).kind \in FanOut
  BY DEF Note, Output, FanOut
<1>5. /\ a \in Seq(Message) /\ b \in Seq(Message) /\ d \in Seq(Message)
      /\ Fanning(a) /\ Fanning(b) /\ Fanning(d)
  BY <1>1, <1>2, <1>3, <1>4
<1>6. Flush(opens, closes, n) = (a \o b) \o d
  BY DEF Flush
<1> HIDE DEF a, b, d
<1>7. Flush(opens, closes, n) \in Seq(Message) /\ Fanning(Flush(opens, closes, n))
  <2>1. a \o b \in Seq(Message) /\ Fanning(a \o b)
    BY <1>5, FanningConcat
  <2>2. (a \o b) \o d \in Seq(Message) /\ Fanning((a \o b) \o d)
    BY <1>5, <2>1, FanningConcat
  <2> QED BY <1>6, <2>2
<1> QED BY <1>5, <1>6, <1>7 DEF a, b, d

(* All of a flush.                                                         *)
LEMMA StoryFlush ==
  ASSUME ParametersFit, NEW s \in Seq(Message), NEW lo \in Nat, NEW cut \in BOOLEAN,
         flushed \in 0 .. MaxChunks, framed \in SUBSET (1 .. flushed), frameOpen \in BOOLEAN,
         NEW n \in flushed .. MaxChunks, NEW opens \in BOOLEAN, NEW closes \in BOOLEAN,
         Story(s, lo, flushed, framed, cut), Ends(s, lo, flushed, frameOpen), lo <= flushed,
         Flushed(opens, closes, n)
  PROVE  /\ Story(s \o Flush(opens, closes, n), lo, n, framed', cut)
         /\ Ends(s \o Flush(opens, closes, n), lo, n, frameOpen')
<1> DEFINE a == IF opens /\ ~frameOpen THEN <<Note("output-frame-start")>> ELSE <<>>
           b == IF flushed < n THEN <<Output(flushed + 1, n)>> ELSE <<>>
           d == IF closes /\ (opens \/ frameOpen) THEN <<Note("output-frame-end")>> ELSE <<>>
           before == frameOpen
           mid == frameOpen \/ opens
           after == frameOpen'
           sa == s \o a
           sb == sa \o b
           fr == IF opens \/ frameOpen THEN framed \cup (flushed + 1 .. n) ELSE framed
<1>0. /\ MaxChunks \in Nat /\ flushed \in Nat /\ n \in Nat /\ flushed <= n /\ n <= MaxChunks
      /\ mid \in BOOLEAN /\ (mid <=> opens \/ frameOpen) /\ fr \in SUBSET (1 .. n)
      /\ framed' = fr /\ after = (mid /\ ~closes) /\ after \in BOOLEAN
      /\ before \in BOOLEAN
  BY DEF ParametersFit, Flushed
<1>1. /\ a \in Seq(Message) /\ b \in Seq(Message) /\ d \in Seq(Message)
      /\ Flush(opens, closes, n) = (a \o b) \o d
  BY FlushFans
<1> HIDE DEF a, b, d
<1>2. sa \in Seq(Message) /\ sb \in Seq(Message) /\ a \o b \in Seq(Message)
  BY <1>1, OfConcat
<1>3. s \o Flush(opens, closes, n) = sb \o d
  <2>1. (s \o (a \o b)) \o d = s \o ((a \o b) \o d)
    BY <1>1, <1>2, Associative
  <2>2. (s \o a) \o b = s \o (a \o b)
    BY <1>1, Associative
  <2> QED BY <1>1, <2>1, <2>2
<1>4. \A q \in Seq(Message) : q \o <<>> = q
  BY ConcatEmptySeq
<1>5. /\ Note("output-frame-start") \in Message
      /\ Note("output-frame-start").kind = "output-frame-start"
      /\ Note("output-frame-end") \in Message
      /\ Note("output-frame-end").kind = "output-frame-end"
      /\ flushed < n => /\ Output(flushed + 1, n) \in Message
                        /\ Output(flushed + 1, n).kind = "output"
                        /\ Output(flushed + 1, n).from = flushed + 1
                        /\ Output(flushed + 1, n).to = n
  BY <1>0 DEF Note, Output, Message
<1>6. Story(sa, lo, flushed, framed, cut) /\ Ends(sa, lo, flushed, mid)
  <2>0. Ends(s, lo, flushed, before)
    OBVIOUS
  <2>1. CASE opens /\ ~frameOpen
    <3>1. a = <<Note("output-frame-start")>>
      BY <2>1 DEF a
    <3>2. Continues(Note("output-frame-start"), flushed, framed, before,
                    flushed, framed, mid)
      BY <1>5, <2>1 DEF Continues
    <3> HIDE DEF before, mid
    <3> QED BY <1>0, <1>5, <2>0, <3>1, <3>2, StoryMore DEF sa
  <2>2. CASE ~(opens /\ ~frameOpen)
    <3>1. sa = s /\ mid = before
      BY <1>4, <2>2 DEF a
    <3> QED BY <2>0, <3>1
  <2> QED BY <2>1, <2>2
<1> HIDE DEF sa
<1>7. Story(sb, lo, n, fr, cut) /\ Ends(sb, lo, n, mid)
  <2>1. CASE flushed < n
    <3>1. b = <<Output(flushed + 1, n)>>
      BY <2>1 DEF b
    <3>2. fr = IF mid THEN framed \cup (flushed + 1 .. n) ELSE framed
      BY <1>0
    <3> HIDE DEF mid
    <3>3. Continues(Output(flushed + 1, n), flushed, framed, mid, n, fr, mid)
      BY <1>5, <2>1, <3>2 DEF Continues
    <3> HIDE DEF fr
    <3> QED BY <1>0, <1>2, <1>5, <1>6, <2>1, <3>1, <3>3, StoryMore DEF sb
  <2>2. CASE ~(flushed < n)
    <3>1. b = <<>> /\ n = flushed /\ fr = framed
      BY <1>0, <2>2 DEF b
    <3>2. sb = sa
      BY <1>2, <1>4, <3>1
    <3> QED BY <1>6, <3>1, <3>2
  <2> QED BY <2>1, <2>2
<1> HIDE DEF fr, sb
<1>8. Story(sb \o d, lo, n, fr, cut) /\ Ends(sb \o d, lo, n, after)
  <2>1. CASE closes /\ mid
    <3>1. d = <<Note("output-frame-end")>>
      BY <2>1 DEF d
    <3>2. lo <= n
      BY <1>0
    <3>3. Continues(Note("output-frame-end"), n, fr, mid, n, fr, after)
      BY <1>0, <1>5, <2>1 DEF Continues
    <3>4. /\ n \in Nat /\ fr \in SUBSET (1 .. n) /\ mid \in BOOLEAN /\ after \in BOOLEAN
          /\ sb \in Seq(Message) /\ Note("output-frame-end") \in Message
      BY <1>0, <1>2, <1>5
    <3> HIDE DEF mid, after
    <3> QED BY <1>7, <3>1, <3>2, <3>3, <3>4, StoryMore
  <2>2. CASE ~(closes /\ mid)
    <3>1. d = <<>> /\ after = mid
      BY <1>0, <2>2 DEF d
    <3>2. sb \o d = sb
      BY <1>2, <1>4, <3>1
    <3> QED BY <1>7, <3>1, <3>2
  <2> QED BY <2>1, <2>2
<1> QED BY <1>0, <1>3, <1>8

-----------------------------------------------------------------------------
(* The viewer                                                              *)

(* What is queued last comes last in what remains of the queue. *)
LEMMA SubSeqGrows ==
  ASSUME NEW q \in Seq(Message), NEW f \in Seq(Message), NEW k \in Nat, k <= Len(q)
  PROVE  SubSeq(q \o f, k + 1, Len(q \o f)) = SubSeq(q, k + 1, Len(q)) \o f
<1> DEFINE qf == q \o f
           u == SubSeq(q, k + 1, Len(q))
           v == SubSeq(qf, k + 1, Len(qf))
<1>1. /\ qf \in Seq(Message) /\ Len(qf) = Len(q) + Len(f) /\ Len(q) \in Nat /\ Len(f) \in Nat
      /\ \A i \in 1 .. Len(q) + Len(f) : qf[i] = IF i <= Len(q) THEN q[i] ELSE f[i - Len(q)]
  BY ConcatProperties, LenProperties
<1>2. /\ \A i \in 1 .. Len(q) : q[i] \in Message
      /\ \A i \in 1 .. Len(qf) : qf[i] \in Message
  BY <1>1, LenProperties
<1> HIDE DEF qf
<1>3. /\ u \in Seq(Message) /\ Len(u) = Len(q) - k
      /\ \A i \in 1 .. Len(q) - k : u[i] = q[k + i]
  BY <1>1, <1>2, SubSeqProperties
<1>4. /\ v \in Seq(Message) /\ Len(v) = Len(qf) - k
      /\ \A i \in 1 .. Len(qf) - k : v[i] = qf[k + i]
  BY <1>1, <1>2, SubSeqProperties
<1> HIDE DEF u, v
<1>5. /\ u \o f \in Seq(Message) /\ Len(u \o f) = Len(u) + Len(f)
      /\ \A i \in 1 .. Len(u) + Len(f) : (u \o f)[i] = IF i <= Len(u) THEN u[i] ELSE f[i - Len(u)]
  BY <1>3, ConcatProperties
<1>6. ASSUME NEW i \in 1 .. Len(v) PROVE v[i] = (u \o f)[i]
  <2>1. CASE i <= Len(u)
    BY <1>1, <1>3, <1>4, <1>5, <2>1
  <2>2. CASE ~(i <= Len(u))
    <3>1. (k + i) - Len(q) = i - Len(u) /\ ~(k + i <= Len(q)) /\ k + i \in 1 .. Len(q) + Len(f)
      BY <1>1, <1>3, <1>4, <2>2
    <3>2. v[i] = f[(k + i) - Len(q)]
      BY <1>1, <1>4, <3>1
    <3>3. (u \o f)[i] = f[i - Len(u)]
      BY <1>1, <1>3, <1>4, <1>5, <2>2
    <3> QED BY <3>1, <3>2, <3>3
  <2> QED BY <2>1, <2>2
<1>7. v = u \o f
  <2>1. v \in Seq(Message) /\ u \o f \in Seq(Message) /\ Len(v) = Len(u \o f)
    BY <1>1, <1>3, <1>4, <1>5
  <2> QED BY <1>6, <2>1, SeqEqual
<1> QED BY <1>7 DEF qf, u, v

(* What was sent is how the pipe begins. *)
LEMMA PipeStarts ==
  ASSUME ParametersFit, NEW c \in Viewer
  PROVE  /\ Coming(c) \in Seq(Message) /\ Pipe(c) \in Seq(Message) /\ Queue(c) \in Seq(Message)
         /\ \E t \in Seq(Message) : Pipe(c) = c.wire \o t
<1>1. /\ c.wire \in Seq(Message) /\ c.encoding \in Seq(Message) /\ c.todo \in Seq(Message)
      /\ c.queue \in Seq(Message) /\ c.taken \in Nat /\ <<Marker>> \in Seq(Message)
      /\ <<>> \in Seq(Message)
  <2>1. Marker \in Message
    BY DEF Marker, Note, Message, ParametersFit
  <2> QED BY <2>1 DEF Viewer
<1>2. SubSeq(c.queue, c.taken + 1, Len(c.queue)) \in Seq(Message)
  <2>1. Len(c.queue) \in Nat /\ \A i \in 1 .. Len(c.queue) : c.queue[i] \in Message
    BY <1>1, LenProperties
  <2>2. \A i \in c.taken + 1 .. Len(c.queue) : c.queue[i] \in Message
    BY <1>1, <2>1
  <2> QED BY <1>1, <2>1, <2>2, SubSeqProperties
<1>3. \A s \in Seq(Message), t \in Seq(Message) : s \o t \in Seq(Message)
  BY ConcatProperties
<1>4. Coming(c) \in Seq(Message) /\ Queue(c) \in Seq(Message)
  BY <1>1, <1>2, <1>3 DEF Coming, Queue
<1>5. \E t \in Seq(Message) : Pipe(c) = c.wire \o t
  <2> DEFINE w == c.wire
             e == c.encoding
             u == Coming(c)
  <2>0. w \in Seq(Message) /\ e \in Seq(Message) /\ u \in Seq(Message)
    BY <1>1, <1>4
  <2> HIDE DEF w, e, u
  <2>1. (w \o e) \o u = w \o (e \o u)
    BY <2>0, Associative
  <2>2. c.encoding \o Coming(c) \in Seq(Message)
    BY <1>1, <1>3, <1>4
  <2> QED BY <1>1, <2>1, <2>2 DEF Pipe, w, e, u
<1> QED BY <1>1, <1>3, <1>4, <1>5

(* For a viewer whose socket is open it is enough to look at all that is   *)
(* on its way, for any other at what it was sent.                          *)
LEMMA FlowOfPipe ==
  ASSUME ParametersFit, NEW c \in Viewer, NEW lo \in Nat, NEW hi \in Nat, NEW fr, NEW frame,
         NEW cut \in BOOLEAN,
         c.open => Story(Pipe(c), lo, hi, fr, cut) /\ Ends(Pipe(c), lo, hi, frame),
         c.open /\ c.stage = "pending" =>
           Story(Queue(c), lo, hi, fr, FALSE) /\ Ends(Queue(c), lo, hi, frame),
         ~c.open => Story(c.wire, lo, hi, fr, cut)
  PROVE  Stream(c, lo, hi, fr, frame, cut)
<1>1. PICK t \in Seq(Message) : Pipe(c) = c.wire \o t
  BY PipeStarts
<1>2. c.wire \in Seq(Message)
  BY DEF Viewer
<1>3. c.open => Story(c.wire, lo, hi, fr, cut)
  BY <1>1, <1>2, StoryPrefix
<1> QED BY <1>3 DEF Stream

(* A boundary alone never overflows the queue. *)
LEMMA NoteFits == ASSUME ParametersFit PROVE Fits(<<>>) /\ Fits(<<Note("output-frame-start")>>)
<1>1. PendingChunks \in Nat /\ PendingControls \in Nat /\ 1 <= PendingControls /\ MaxChunks \in Nat
  BY DEF ParametersFit
<1>2. ChunksIn(<<>>) = {} /\ BoundariesIn(<<>>) = {}
  BY DEF ChunksIn, BoundariesIn
<1>3. ChunksIn(<<Note("output-frame-start")>>) = {}
  BY DEF ChunksIn, Note
<1>4. BoundariesIn(<<Note("output-frame-start")>>) = {1}
  BY DEF BoundariesIn, Note
<1>5. Cardinality({}) = 0 /\ Cardinality({1}) = 1
  BY FS_EmptySet, FS_Singleton
<1>6. /\ Cardinality(ChunksIn(<<>>)) = 0 /\ Cardinality(BoundariesIn(<<>>)) = 0
      /\ Cardinality(ChunksIn(<<Note("output-frame-start")>>)) = 0
      /\ Cardinality(BoundariesIn(<<Note("output-frame-start")>>)) = 1
  BY <1>2, <1>3, <1>4, <1>5
<1>7. 0 <= PendingChunks /\ 0 <= PendingControls
  BY <1>1
<1> QED BY <1>1, <1>6, <1>7 DEF Fits

(* A flush reaches the viewer, in its queue, its encoder or at once; or it *)
(* costs the viewer its socket.                                            *)
LEMMA BroadcastKeeps ==
  ASSUME ParametersFit, flushed \in 0 .. MaxChunks, framed \in SUBSET (1 .. flushed),
         frameOpen \in BOOLEAN, cutShort \in BOOLEAN, since \in 0 .. flushed,
         NEW n \in flushed .. MaxChunks, NEW opens \in BOOLEAN, NEW closes \in BOOLEAN,
         Sound(client, since, flushed, framed, frameOpen, cutShort),
         Flushed(opens, closes, n), NEW d, d = Broadcast(client, Flush(opens, closes, n))
  PROVE  /\ Sound(d, since, n, framed', frameOpen', cutShort)
         /\ d.stage = client.stage /\ d.mode = client.mode /\ (d.open => client.open)
         /\ d.stage = "pending" => d.wire = client.wire
         /\ d.stage = "absent" => d = client
<1> DEFINE f == Flush(opens, closes, n)
<1>0. /\ MaxChunks \in Nat /\ flushed \in Nat /\ n \in Nat /\ flushed <= n /\ since \in Nat
      /\ since <= flushed
      /\ framed' = IF opens \/ frameOpen THEN framed \cup (flushed + 1 .. n) ELSE framed
  BY DEF ParametersFit, Flushed
<1>1. /\ client \in Viewer /\ Fits(client.queue) /\ Shape(client, cutShort)
      /\ Stream(client, since, flushed, framed, frameOpen, cutShort)
  BY DEF Sound
<1>2. f \in Seq(Message) /\ Fanning(f)
  BY FlushFans
<1>3. Story(client.wire, since, n, framed', cutShort)
  <2>1. \A x \in 1 .. flushed : x \in framed <=> x \in framed'
    BY <1>0
  <2>2. client.wire \in Seq(Message) /\ Story(client.wire, since, flushed, framed, cutShort)
    BY <1>1 DEF Viewer, Stream
  <2> QED BY <1>0, <2>1, <2>2, StoryLater
<1>4. Pipe(client) \in Seq(Message) /\ Queue(client) \in Seq(Message)
      /\ Coming(client) \in Seq(Message)
  BY <1>1, PipeStarts
<1>5. client.open =>
        /\ Story(Pipe(client) \o f, since, n, framed', cutShort)
        /\ Ends(Pipe(client) \o f, since, n, frameOpen')
  <2> SUFFICES ASSUME client.open
               PROVE  /\ Story(Pipe(client) \o f, since, n, framed', cutShort)
                      /\ Ends(Pipe(client) \o f, since, n, frameOpen')
    OBVIOUS
  <2> DEFINE p == Pipe(client)
  <2>1. /\ p \in Seq(Message) /\ Story(p, since, flushed, framed, cutShort)
        /\ Ends(p, since, flushed, frameOpen)
    BY <1>1, <1>4 DEF Stream
  <2> HIDE DEF p
  <2>2. Story(p \o f, since, n, framed', cutShort) /\ Ends(p \o f, since, n, frameOpen')
    BY <1>0, <2>1, StoryFlush
  <2> QED BY <2>2 DEF p
<1>6. client.open /\ client.stage = "pending" =>
        /\ Story(Queue(client) \o f, since, n, framed', FALSE)
        /\ Ends(Queue(client) \o f, since, n, frameOpen')
  BY <1>0, <1>1, <1>4, StoryFlush DEF Stream
<1> DEFINE Kept == /\ d \in Viewer /\ Fits(d.queue) /\ Shape(d, cutShort)
                   /\ d.stage = client.stage /\ d.mode = client.mode
                   /\ d.open => /\ client.open /\ Pipe(d) = Pipe(client) \o f
                                /\ d.stage = "pending" => Queue(d) = Queue(client) \o f
                   /\ d.stage = "pending" => d.wire = client.wire
                   /\ d.stage = "absent" => d = client
                   /\ ~d.open => d.wire = client.wire
<1>7. ASSUME Kept
      PROVE  /\ Sound(d, since, n, framed', frameOpen', cutShort)
             /\ d.stage = client.stage /\ d.mode = client.mode /\ (d.open => client.open)
             /\ d.stage = "pending" => d.wire = client.wire
             /\ d.stage = "absent" => d = client
  <2>1. Stream(d, since, n, framed', frameOpen', cutShort)
    BY <1>0, <1>3, <1>5, <1>6, <1>7, FlowOfPipe
  <2> QED BY <1>7, <2>1 DEF Sound
<1>8. Quiet(f)
  BY <1>2 DEF Quiet, Of, Fanning, FanOut
<1> HIDE DEF f
<1>9. /\ client.stage \in {"absent", "pending", "live"} /\ client.mode \in {"raw", "ctx"}
      /\ client.wire \in Seq(Message) /\ client.queue \in Seq(Message)
      /\ client.encoding \in Seq(Message) /\ client.todo \in Seq(Message)
      /\ client.open \in BOOLEAN /\ client.overflowed \in BOOLEAN /\ client.taken \in Nat
      /\ client.marked \in BOOLEAN
  BY <1>1 DEF Viewer
<1>10. CASE d = client /\ (~client.open \/ f = <<>>)
  <2>1. f = <<>> => Pipe(client) \o f = Pipe(client) /\ Queue(client) \o f = Queue(client)
    BY <1>4, ConcatEmptySeq
  <2> QED BY <1>1, <1>7, <1>10, <2>1
<1>11. CASE /\ client.stage = "pending" /\ ~client.overflowed
            /\ Fits(client.queue \o f) /\ d = [client EXCEPT !.queue = @ \o f]
  <2>0. client.queue \o f \in Seq(Message)
    BY <1>2, <1>9, OfConcat
  <2>1. /\ d.queue = client.queue \o f
        /\ d.stage = "pending" /\ d.open = client.open /\ d.wire = client.wire
        /\ d.overflowed = client.overflowed /\ d.waiting = client.waiting
        /\ d.mode = client.mode /\ d.encoding = client.encoding
        /\ d.promoting = client.promoting /\ d.todo = client.todo
        /\ d.marked = client.marked /\ d.taken = client.taken
    BY <1>1, <1>11, <2>0 DEF Viewer
  <2>6. d \in Viewer
    BY <1>1, <1>11, <2>0 DEF Viewer
  <2>2. Shape(d, cutShort)
    <3>1. Fanning(client.queue)
      BY <1>1 DEF Shape, Fanning
    <3>2. \A i \in DOMAIN d.queue : d.queue[i].kind \in FanOut
      BY <1>2, <1>9, <2>1, <3>1, FanningConcat DEF Fanning
    <3>3. Of(d.queue, Boundary) = {} => Of(client.queue, Boundary) = {}
      BY <1>2, <1>9, <2>1, AfterConcat
    <3>4. Len(client.queue) <= Len(d.queue) /\ Len(client.queue) \in Nat /\ Len(d.queue) \in Nat
      BY <1>2, <1>9, <2>1, AfterConcat
    <3> QED BY <1>1, <1>9, <1>11, <2>1, <3>2, <3>3, <3>4, SMTT(30) DEF Shape
  <2>3. client.open => Coming(d) = Coming(client) \o f
    <3> DEFINE u == client.todo \o (IF client.marked THEN <<>> ELSE <<Marker>>)
               q == client.queue
               v == SubSeq(q, client.taken + 1, Len(q))
    <3>1. client.open => client.taken <= Len(client.queue)
      BY <1>1, <1>11 DEF Shape
    <3>2. client.open => SubSeq(q \o f, client.taken + 1, Len(q \o f)) = v \o f
      BY <1>2, <1>9, <3>1, SubSeqGrows
    <3>3. u \in Seq(Message) /\ v \in Seq(Message)
      <4>1. Marker \in Message
        BY DEF Marker, Note, Message, ParametersFit
      <4>2. <<Marker>> \in Seq(Message) /\ <<>> \in Seq(Message)
        BY <4>1
      <4>3. u \in Seq(Message)
        BY <1>9, <4>2, OfConcat
      <4>4. Len(q) \in Nat /\ \A i \in 1 .. Len(q) : q[i] \in Message
        BY <1>9, LenProperties
      <4>5. \A i \in client.taken + 1 .. Len(q) : q[i] \in Message
        BY <1>9, <4>4
      <4> QED BY <1>9, <4>3, <4>4, <4>5, SubSeqProperties
    <3>4. Coming(client) = u \o v
      BY DEF Coming
    <3>5. client.open => Coming(d) = u \o (v \o f)
      BY <2>1, <3>2 DEF Coming
    <3> HIDE DEF u, v
    <3>6. (u \o v) \o f = u \o (v \o f)
      BY <1>2, <3>3, Associative
    <3> QED BY <3>4, <3>5, <3>6
  <2>4. client.open => Pipe(d) = Pipe(client) \o f
    <3> DEFINE w == client.wire \o client.encoding
               v == Coming(client)
    <3>1. w \in Seq(Message) /\ v \in Seq(Message)
      BY <1>4, <1>9, OfConcat
    <3>2. Pipe(client) = w \o v /\ (client.open => Pipe(d) = w \o (v \o f))
      BY <1>11, <2>1, <2>3 DEF Pipe
    <3> HIDE DEF w, v
    <3>3. (w \o v) \o f = w \o (v \o f)
      BY <1>2, <3>1, Associative
    <3> QED BY <3>2, <3>3
  <2>5. Queue(d) = Queue(client) \o f
    <3> DEFINE m == <<Marker>>
               q == client.queue
    <3>1. m \in Seq(Message) /\ q \in Seq(Message)
      BY <1>9 DEF Marker, Note, Message, ParametersFit
    <3>2. Queue(client) = m \o q /\ Queue(d) = m \o (q \o f)
      BY <2>1 DEF Queue
    <3> HIDE DEF m, q
    <3> QED BY <1>2, <3>1, <3>2, Associative, SMTT(30)
  <2> QED BY <1>7, <1>11, <2>1, <2>2, <2>4, <2>5, <2>6
<1>12. CASE client.stage = "pending" /\ d = Overflow(client)
  <2>0. <<>> \in Seq(Message)
    OBVIOUS
  <2>1. /\ d.queue = <<>> /\ d.open = FALSE /\ d.overflowed = TRUE
        /\ d.stage = "pending" /\ d.wire = client.wire /\ d.waiting = client.waiting
        /\ d.mode = client.mode /\ d.encoding = client.encoding
        /\ d.promoting = client.promoting /\ d.todo = client.todo
        /\ d.marked = client.marked /\ d.taken = client.taken
    BY <1>1, <1>12, <2>0 DEF Viewer, Overflow
  <2>3. d \in Viewer
    BY <1>1, <1>12, <2>0 DEF Viewer, Overflow
  <2>2. Shape(d, cutShort)
    BY <1>1, <1>12, <2>1 DEF Shape
  <2> QED BY <1>7, <1>12, <2>1, <2>2, <2>3, NoteFits
<1>13. CASE client.stage = "live" /\ client.mode = "ctx" /\ d = [client EXCEPT !.encoding = @ \o f]
  <2>0. client.encoding \o f \in Seq(Message)
    BY <1>2, <1>9, OfConcat
  <2>1. /\ d.queue = client.queue
        /\ d.stage = "live" /\ d.open = client.open /\ d.wire = client.wire
        /\ d.overflowed = client.overflowed /\ d.waiting = client.waiting
        /\ d.mode = "ctx" /\ d.encoding = client.encoding \o f
        /\ d.promoting = client.promoting /\ d.todo = client.todo
        /\ d.marked = client.marked /\ d.taken = client.taken
    BY <1>1, <1>13, <2>0 DEF Viewer
  <2>4. d \in Viewer
    BY <1>1, <1>13, <2>0 DEF Viewer
  <2>2. Shape(d, cutShort)
    <3>1. Quiet(client.encoding)
      BY <1>1, <1>13 DEF Shape
    <3> DEFINE e == client.encoding
    <3>2. e \in Seq(Message) /\ Of(e, {"exit", "killed"}) = {}
      BY <1>9, <3>1 DEF Quiet
    <3>3. Of(f, {"exit", "killed"}) = {}
      BY <1>8 DEF Quiet
    <3> HIDE DEF e
    <3>4. Of(e \o f, {"exit", "killed"}) = {}
      BY <1>2, <3>2, <3>3, NoneAdded
    <3>5. Quiet(d.encoding)
      BY <2>1, <3>4 DEF Quiet, e
    <3> QED BY <1>1, <1>13, <2>1, <3>5 DEF Shape
  <2>3. Pipe(d) = Pipe(client) \o f
    <3> DEFINE w == client.wire
               e == client.encoding
    <3>1. w \in Seq(Message) /\ e \in Seq(Message)
      BY <1>9
    <3>2. Pipe(client) = w \o e /\ Pipe(d) = w \o (e \o f)
      BY <1>13, <2>1 DEF Pipe
    <3> HIDE DEF w, e
    <3>3. (w \o e) \o f = w \o (e \o f)
      BY <1>2, <3>1, Associative
    <3> QED BY <3>2, <3>3
  <2> QED BY <1>1, <1>7, <1>13, <2>1, <2>2, <2>3, <2>4
<1>14. CASE /\ client.stage = "live" /\ client.mode = "raw" /\ client.open
            /\ d = [client EXCEPT !.wire = @ \o f]
  <2>0. client.wire \o f \in Seq(Message)
    BY <1>2, <1>9, OfConcat
  <2>1. /\ d.queue = client.queue
        /\ d.stage = "live" /\ d.open = client.open /\ d.wire = client.wire \o f
        /\ d.overflowed = client.overflowed /\ d.waiting = client.waiting
        /\ d.mode = "raw" /\ d.encoding = client.encoding
        /\ d.promoting = client.promoting /\ d.todo = client.todo
        /\ d.marked = client.marked /\ d.taken = client.taken
    BY <1>1, <1>14, <2>0 DEF Viewer
  <2>6. d \in Viewer
    BY <1>1, <1>14, <2>0 DEF Viewer
  <2>2. client.encoding = <<>>
    BY <1>1, <1>14 DEF Shape
  <2>3. Of(d.wire, {"replay-end"}) # {}
    <3>1. Of(client.wire, {"replay-end"}) # {}
      BY <1>1, <1>14 DEF Shape
    <3> QED BY <1>2, <1>9, <2>1, <3>1, AfterConcat
  <2>4. Shape(d, cutShort)
    <3>1. Quiet(client.wire)
      BY <1>1, <1>14 DEF Shape
    <3>2. Quiet(d.wire)
      BY <1>2, <1>9, <1>8, <2>1, <3>1, NoneAdded DEF Quiet
    <3> QED BY <1>1, <1>14, <2>1, <2>3, <3>2 DEF Shape
  <2>5. Pipe(d) = Pipe(client) \o f
    <3>1. client.wire \o f \in Seq(Message)
      BY <1>2, <1>9, OfConcat
    <3>2. Pipe(client) = client.wire /\ Pipe(d) = client.wire \o f
      <4> DEFINE w == client.wire
                 v == w \o f
      <4>1. w \in Seq(Message) /\ v \in Seq(Message)
        BY <1>9, <3>1
      <4>2. Pipe(client) = w \o <<>> /\ Pipe(d) = v \o <<>>
        BY <1>14, <2>1, <2>2 DEF Pipe
      <4> HIDE DEF w, v
      <4>3. Pipe(client) = w /\ Pipe(d) = v
        BY <4>1, <4>2, ConcatEmptySeq
      <4> QED BY <4>3 DEF w, v
    <3> QED BY <3>2
  <2> QED BY <1>1, <1>7, <1>14, <2>1, <2>4, <2>5, <2>6
<1>15. \/ d = client /\ (~client.open \/ f = <<>>)
       \/ /\ client.stage = "pending" /\ ~client.overflowed
          /\ Fits(client.queue \o f) /\ d = [client EXCEPT !.queue = @ \o f]
       \/ client.stage = "pending" /\ d = Overflow(client)
       \/ client.stage = "live" /\ client.mode = "ctx" /\ d = [client EXCEPT !.encoding = @ \o f]
       \/ /\ client.stage = "live" /\ client.mode = "raw" /\ client.open
          /\ d = [client EXCEPT !.wire = @ \o f]
  <2>1. d = Broadcast(client, f)
    BY DEF f
  <2>2. client.overflowed => ~client.open
    BY <1>1 DEF Shape
  <2>3. client.stage = "absent" => ~client.open
    BY <1>1 DEF Shape
  <2>4. CASE client.stage = "pending"
    BY <2>1, <2>2, <2>4 DEF Broadcast, Hold
  <2>5. CASE client.stage = "live"
    BY <1>9, <2>1, <2>5 DEF Broadcast, Send
  <2>6. CASE client.stage = "absent"
    BY <2>1, <2>3, <2>6 DEF Broadcast
  <2> QED BY <1>9, <2>4, <2>5, <2>6
<1> QED BY <1>10, <1>11, <1>12, <1>13, <1>14, <1>15

(* The messages without a chunk that the server sends. *)
LEMMA MessagesHere ==
  ASSUME ParametersFit
  PROVE  /\ Marker \in Message /\ Marker.kind = "replay-end" /\ <<Marker>> \in Seq(Message)
         /\ Note("compress") \in Message /\ Note("compress").kind = "compress"
         /\ <<Note("compress")>> \in Seq(Message)
         /\ Note("output-frame-start") \in Message
         /\ Note("output-frame-start").kind = "output-frame-start"
         /\ <<Note("output-frame-start")>> \in Seq(Message)
         /\ \A kind \in {"exit", "killed"} :
              Note(kind) \in Message /\ Note(kind).kind = kind /\ <<Note(kind)>> \in Seq(Message)
         /\ <<>> \in Seq(Message)
<1>1. /\ Marker \in Message /\ Marker.kind = "replay-end"
      /\ Note("compress") \in Message /\ Note("compress").kind = "compress"
      /\ Note("output-frame-start") \in Message
      /\ Note("output-frame-start").kind = "output-frame-start"
      /\ \A kind \in {"exit", "killed"} : Note(kind) \in Message /\ Note(kind).kind = kind
  BY DEF Marker, Note, Message, ParametersFit
<1>2. \A m \in Message : <<m>> \in Seq(Message)
  OBVIOUS
<1> QED BY <1>1, <1>2

(* A piece of one message. *)
LEMMA OfOne ==
  ASSUME NEW m \in Message, NEW K
  PROVE  Of(<<m>>, K) = (IF m.kind \in K THEN {1} ELSE {}) /\ <<m>>[1] = m /\ Len(<<m>>) = 1
<1>1. DOMAIN <<m>> = {1} /\ <<m>>[1] = m /\ Len(<<m>>) = 1
  OBVIOUS
<1> QED BY <1>1 DEF Of

(* An empty piece has nothing of any kind. *)
LEMMA OfNone == \A K : Of(<<>>, K) = {}
BY DEF Of

(* A piece is its first message and the rest. *)
LEMMA HeadTail ==
  ASSUME NEW s \in Seq(Message), s # <<>>
  PROVE  /\ Head(s) \in Message /\ Tail(s) \in Seq(Message) /\ <<Head(s)>> \in Seq(Message)
         /\ s = <<Head(s)>> \o Tail(s) /\ Len(Tail(s)) = Len(s) - 1 /\ Len(s) \in Nat \ {0}
         /\ Head(s) = s[1] /\ \A i \in 1 .. Len(s) - 1 : Tail(s)[i] = s[i + 1]
<1>1. /\ Head(s) \in Message /\ Tail(s) \in Seq(Message) /\ Len(Tail(s)) = Len(s) - 1
      /\ \A i \in 1 .. Len(Tail(s)) : Tail(s)[i] = s[i + 1]
      /\ Head(s) = s[1]
  BY HeadTailProperties
<1>2. Len(s) \in Nat \ {0}
  BY EmptySeq
<1> DEFINE h == <<Head(s)>>
           t == Tail(s)
<1>3. h \in Seq(Message) /\ Len(h) = 1 /\ h[1] = s[1]
  BY <1>1
<1>4. t \in Seq(Message) /\ Len(t) = Len(s) - 1 /\ \A i \in 1 .. Len(s) - 1 : t[i] = s[i + 1]
  BY <1>1
<1> HIDE DEF h, t
<1>5. /\ h \o t \in Seq(Message) /\ Len(h \o t) = Len(h) + Len(t)
      /\ \A i \in 1 .. Len(h) + Len(t) : (h \o t)[i] = IF i <= Len(h) THEN h[i] ELSE t[i - Len(h)]
  <2>1. h \in Seq(Message) /\ t \in Seq(Message)
    BY <1>3, <1>4
  <2> QED BY <2>1, ConcatProperties, SMTT(30)
<1>6. ASSUME NEW i \in 1 .. Len(s) PROVE s[i] = (h \o t)[i]
  BY <1>2, <1>3, <1>4, <1>5
<1>7. Len(s) = Len(h \o t)
  BY <1>2, <1>3, <1>4, <1>5
<1>8. s = h \o t
  BY <1>5, <1>6, <1>7, SeqEqual
<1> QED BY <1>1, <1>2, <1>3, <1>8 DEF h, t

(* What remains of a queue is its next message and what remains after it. *)
LEMMA SubSeqNext ==
  ASSUME NEW q \in Seq(Message), NEW k \in Nat, k < Len(q)
  PROVE  /\ SubSeq(q, k + 1, Len(q)) = <<q[k + 1]>> \o SubSeq(q, (k + 1) + 1, Len(q))
         /\ q[k + 1] \in Message /\ <<q[k + 1]>> \in Seq(Message)
         /\ SubSeq(q, (k + 1) + 1, Len(q)) \in Seq(Message)
<1>1. Len(q) \in Nat /\ \A i \in 1 .. Len(q) : q[i] \in Message
  BY LenProperties
<1>2. k + 1 \in 1 .. Len(q) /\ Len(q) \in k + 1 .. Len(q)
  BY <1>1
<1>3. \A i \in (k + 1) + 1 .. Len(q) : q[i] \in Message
  BY <1>1
<1>4. SubSeq(q, (k + 1) + 1, Len(q)) \in Seq(Message)
  BY <1>1, <1>3, SubSeqProperties
<1> QED BY <1>1, <1>2, <1>4, SubSeqRecursiveFirst

(* Nothing remains of a queue that was taken to its end. *)
LEMMA SubSeqDone ==
  ASSUME NEW q \in Seq(Message), NEW k \in Nat, ~(k < Len(q))
  PROVE  SubSeq(q, k + 1, Len(q)) = <<>>
<1>1. Len(q) \in Nat
  BY LenProperties
<1> QED BY <1>1, SubSeqEmpty

(* Where every viewer begins.                                              *)
LEMMA Beginning ==
  ASSUME ParametersFit, NEW lo \in Nat, NEW fr
  PROVE  Story(<<Marker>>, lo, lo, fr, FALSE) /\ Ends(<<Marker>>, lo, lo, FALSE)
<1> DEFINE s == <<Marker>>
<1>1. \A K : Of(s, K) = IF "replay-end" \in K THEN {1} ELSE {}
  BY MessagesHere, OfOne
<1> HIDE DEF s
<1>2. /\ Of(s, {"output"}) = {} /\ Of(s, {"replay"}) = {} /\ Of(s, FanOut) = {}
      /\ Of(s, {"output-frame-start"}) = {} /\ Of(s, {"output-frame-end"}) = {}
      /\ Of(s, {"replay-end"}) = {1}
  BY <1>1 DEF FanOut
<1>3. Real(s, lo, lo) /\ Linked(s, lo) /\ Marked(s) /\ Rising(s, "output") /\ Rising(s, "replay")
  BY <1>2 DEF Real, Linked, Marked, Rising
<1>4. Replayed(s, lo) /\ Framed(s, fr)
  BY <1>2 DEF Replayed, Framed
<1>5. Ends(s, lo, lo, FALSE)
  BY <1>2 DEF Ends, LastIs, InFrame
<1> QED BY <1>3, <1>4, <1>5 DEF Story, s

(* A viewer that attaches starts from an empty story. *)
LEMMA AttachKeeps ==
  ASSUME ParametersFit, TypeOK, Attach
  PROVE  Sound(client', since', flushed, framed, frameOpen, cutShort')
<1> DEFINE q == IF frameOpen THEN <<Note("output-frame-start")>> ELSE <<>>
           c == [stage |-> "pending", open |-> TRUE, wire |-> <<>>,
                 overflowed |-> FALSE, waiting |-> TRUE, mode |-> "raw",
                 queue |-> q, encoding |-> <<>>, promoting |-> FALSE,
                 todo |-> <<>>, marked |-> FALSE, taken |-> 0]
<1>1. client' = c /\ since' = flushed /\ cutShort' = FALSE
  BY DEF Attach, NoViewer
<1>2. /\ q \in Seq(Message) /\ Fits(q) /\ Fanning(q)
      /\ flushed \in Nat /\ frameOpen \in BOOLEAN /\ framed \in SUBSET (1 .. flushed)
  <2>1. q \in Seq(Message) /\ Fits(q)
    BY MessagesHere, NoteFits
  <2>2. Fanning(q)
    BY MessagesHere DEF Fanning, FanOut
  <2>3. next \in 0 .. MaxChunks /\ MaxChunks \in Nat /\ flushed \in 0 .. next
    BY DEF TypeOK, ParametersFit
  <2> QED BY <2>1, <2>2, <2>3 DEF TypeOK
<1>3. /\ Story(<<Marker>> \o q, flushed, flushed, framed, FALSE)
      /\ Ends(<<Marker>> \o q, flushed, flushed, frameOpen)
  <2> DEFINE f == frameOpen
  <2>0. f \in BOOLEAN
    BY <1>2
  <2>1. /\ Story(<<Marker>>, flushed, flushed, framed, FALSE)
        /\ Ends(<<Marker>>, flushed, flushed, FALSE)
    BY <1>2, Beginning
  <2>2. CASE f
    <3>1. q = <<Note("output-frame-start")>>
      BY <2>2
    <3> DEFINE out == FALSE
    <3>2. Continues(Note("output-frame-start"), flushed, framed, out, flushed, framed, f)
      BY <2>2, MessagesHere DEF Continues
    <3>3. out \in BOOLEAN /\ Ends(<<Marker>>, flushed, flushed, out)
      BY <2>1
    <3>5. /\ flushed \in Nat /\ flushed <= flushed /\ framed \in SUBSET (1 .. flushed)
          /\ <<Marker>> \in Seq(Message) /\ Note("output-frame-start") \in Message
      BY <1>2, MessagesHere
    <3> HIDE DEF out, f, q
    <3>4. /\ Story(<<Marker>> \o q, flushed, flushed, framed, FALSE)
          /\ Ends(<<Marker>> \o q, flushed, flushed, f)
      BY <2>0, <2>1, <3>1, <3>2, <3>3, <3>5, StoryMore
    <3> QED BY <3>4 DEF f
  <2>3. CASE ~f
    <3>1. q = <<>> /\ <<Marker>> \o q = <<Marker>> /\ frameOpen = FALSE
      BY <1>2, <2>3, MessagesHere, ConcatEmptySeq
    <3> QED BY <2>1, <3>1
  <2> QED BY <2>0, <2>2, <2>3
<1> HIDE DEF q
<1>4. /\ c \in Viewer
      /\ c.stage = "pending" /\ c.open = TRUE /\ c.wire = <<>> /\ c.overflowed = FALSE
      /\ c.waiting = TRUE /\ c.queue = q /\ c.encoding = <<>> /\ c.promoting = FALSE
      /\ c.todo = <<>> /\ c.marked = FALSE /\ c.taken = 0
  BY <1>2, MessagesHere DEF Viewer
<1> HIDE DEF c
<1>5. Queue(c) = <<Marker>> \o q /\ Pipe(c) = <<Marker>> \o q
  <2>1. SubSeq(q, 0 + 1, Len(q)) = q
    BY <1>2, SubSeqFull
  <2>2. \A t \in Seq(Message) : <<>> \o t = t
    BY ConcatEmptySeq
  <2>3. <<Marker>> \o q \in Seq(Message)
    BY <1>2, MessagesHere, OfConcat
  <2>4. Coming(c) = <<Marker>> \o q
    BY <1>4, <2>1, <2>2, MessagesHere DEF Coming
  <2> QED BY <1>4, <2>2, <2>3, <2>4, MessagesHere DEF Pipe, Queue
<1>6. Story(<<Marker>> \o q, flushed, flushed, framed, FALSE)
  BY <1>3 DEF Story
<1>7. Shape(c, FALSE)
  <2>1. Len(q) \in Nat
    BY <1>2, LenProperties
  <2> QED BY <1>2, <1>4, <2>1, OfNone DEF Shape, Quiet, Fanning
<1>8. Stream(c, flushed, flushed, framed, frameOpen, FALSE)
  BY <1>2, <1>3, <1>4, <1>5, <1>6, FlowOfPipe
<1> QED BY <1>1, <1>2, <1>4, <1>7, <1>8 DEF Sound

(* Sending touches the wire of an open socket and nothing else. *)
LEMMA SendFields ==
  ASSUME NEW c \in Viewer, NEW m \in Seq(Message), NEW d, d = Send(c, m)
  PROVE  /\ d \in Viewer /\ d.wire = (IF c.open THEN c.wire \o m ELSE c.wire)
         /\ d.stage = c.stage /\ d.open = c.open /\ d.overflowed = c.overflowed
         /\ d.waiting = c.waiting /\ d.mode = c.mode /\ d.queue = c.queue
         /\ d.encoding = c.encoding /\ d.promoting = c.promoting /\ d.todo = c.todo
         /\ d.marked = c.marked /\ d.taken = c.taken
<1>1. CASE ~c.open
  BY <1>1 DEF Send
<1>2. CASE c.open
  <2>1. d = [c EXCEPT !.wire = c.wire \o m]
    BY <1>2 DEF Send
  <2>2. c.wire \o m \in Seq(Message)
    <3>1. c.wire \in Seq(Message)
      BY DEF Viewer
    <3> QED BY <3>1, OfConcat
  <2>3. d \in Viewer
    BY <2>1, <2>2 DEF Viewer
  <2>4. /\ d.wire = c.wire \o m
        /\ d.stage = c.stage /\ d.open = c.open /\ d.overflowed = c.overflowed
        /\ d.waiting = c.waiting /\ d.mode = c.mode /\ d.queue = c.queue
        /\ d.encoding = c.encoding /\ d.promoting = c.promoting /\ d.todo = c.todo
        /\ d.marked = c.marked /\ d.taken = c.taken
    BY <2>1, <2>2 DEF Viewer
  <2> QED BY <1>2, <2>3, <2>4
<1> QED BY <1>1, <1>2

(* Going live empties the queue and changes the stage. *)
LEMMA GoLiveFields ==
  ASSUME NEW c \in Viewer, NEW d, d = GoLive(c)
  PROVE  /\ d \in Viewer /\ d.stage = "live" /\ d.queue = <<>>
         /\ d.wire = c.wire /\ d.open = c.open /\ d.overflowed = c.overflowed
         /\ d.waiting = c.waiting /\ d.mode = c.mode
         /\ d.encoding = c.encoding /\ d.promoting = c.promoting /\ d.todo = c.todo
         /\ d.marked = c.marked /\ d.taken = c.taken
<1> DEFINE q == <<>>
<1>1. d = [c EXCEPT !.stage = "live", !.queue = q]
  BY DEF GoLive
<1>2. q \in Seq(Message)
  OBVIOUS
<1> HIDE DEF q
<1>3. d \in Viewer
  BY <1>1, <1>2 DEF Viewer
<1>4. d.queue = q
  BY <1>1 DEF Viewer
<1>5. /\ d.stage = "live"
      /\ d.wire = c.wire /\ d.open = c.open /\ d.overflowed = c.overflowed
      /\ d.waiting = c.waiting /\ d.mode = c.mode
      /\ d.encoding = c.encoding /\ d.promoting = c.promoting /\ d.todo = c.todo
      /\ d.marked = c.marked /\ d.taken = c.taken
  BY <1>1 DEF Viewer
<1> QED BY <1>3, <1>4, <1>5 DEF q

(* The end of a promotion forgets how far it came. *)
LEMMA EndPromoteFields ==
  ASSUME NEW c \in Viewer, NEW d, d = EndPromote(c)
  PROVE  /\ d \in Viewer /\ d.promoting = FALSE /\ d.todo = <<>> /\ d.marked = FALSE
         /\ d.taken = 0 /\ d.stage = c.stage /\ d.queue = c.queue
         /\ d.wire = c.wire /\ d.open = c.open /\ d.overflowed = c.overflowed
         /\ d.waiting = c.waiting /\ d.mode = c.mode /\ d.encoding = c.encoding
<1> DEFINE q == <<>>
           off == FALSE
           none == 0
<1>1. d = [c EXCEPT !.promoting = off, !.todo = q, !.marked = off, !.taken = none]
  BY DEF EndPromote
<1>2. q \in Seq(Message) /\ off \in BOOLEAN /\ none \in Nat
  OBVIOUS
<1> HIDE DEF q, off, none
<1>3. d \in Viewer
  BY <1>1, <1>2 DEF Viewer
<1>4. /\ d.promoting = off /\ d.todo = q /\ d.marked = off
      /\ d.taken = none /\ d.stage = c.stage /\ d.queue = c.queue
      /\ d.wire = c.wire /\ d.open = c.open /\ d.overflowed = c.overflowed
      /\ d.waiting = c.waiting /\ d.mode = c.mode /\ d.encoding = c.encoding
  BY <1>1 DEF Viewer
<1> QED BY <1>3, <1>4 DEF q, off, none

(* What the answer to a viewer's choice of compression is. *)
LEMMA AnnouncedFields ==
  ASSUME ParametersFit, client \in Viewer, NEW mode \in {"raw", "ctx"}, NEW d, d = Announced(mode)
  PROVE  /\ d \in Viewer
         /\ d.wire = (IF client.open THEN client.wire \o <<Note("compress")>> ELSE client.wire)
         /\ d.waiting = FALSE /\ d.mode = mode /\ d.encoding = <<>>
         /\ d.stage = client.stage /\ d.open = client.open
         /\ d.overflowed = client.overflowed /\ d.queue = client.queue
         /\ d.promoting = client.promoting /\ d.todo = client.todo
         /\ d.marked = client.marked /\ d.taken = client.taken
<1> DEFINE c == [client EXCEPT !.waiting = FALSE, !.mode = mode, !.encoding = <<>>]
<1>0. <<>> \in Seq(Message)
  OBVIOUS
<1>1. c \in Viewer
  BY <1>0 DEF Viewer
<1>2. /\ c.waiting = FALSE /\ c.mode = mode /\ c.encoding = <<>>
      /\ c.stage = client.stage /\ c.open = client.open /\ c.wire = client.wire
      /\ c.overflowed = client.overflowed /\ c.queue = client.queue
      /\ c.promoting = client.promoting /\ c.todo = client.todo
      /\ c.marked = client.marked /\ c.taken = client.taken
  BY <1>0 DEF Viewer
<1> DEFINE note == <<Note("compress")>>
<1>3. d = Send(c, note)
  BY DEF Announced
<1>4. note \in Seq(Message)
  BY MessagesHere
<1> HIDE DEF c, note
<1>5. /\ d \in Viewer /\ d.wire = (IF c.open THEN c.wire \o note ELSE c.wire)
      /\ d.stage = c.stage /\ d.open = c.open /\ d.overflowed = c.overflowed
      /\ d.waiting = c.waiting /\ d.mode = c.mode /\ d.queue = c.queue
      /\ d.encoding = c.encoding /\ d.promoting = c.promoting /\ d.todo = c.todo
      /\ d.marked = c.marked /\ d.taken = c.taken
  BY <1>1, <1>3, <1>4, SendFields
<1> QED BY <1>2, <1>5 DEF note

(* A replay is of the chunks just written, up to the last one.             *)
LEMMA ReplayIsPrelude ==
  ASSUME ParametersFit, TypeOK, NEW todo \in {<<>>, Snapshot}
  PROVE  /\ todo \in Seq(Message) /\ \A i \in DOMAIN todo : todo[i].kind = "replay"
         /\ <<Note("compress")>> \o todo \in Seq(Message)
         /\ Prelude(<<Note("compress")>> \o todo, since)
<1>0. /\ next \in Nat /\ next <= MaxChunks /\ MaxChunks \in Nat /\ RingChunks \in Nat
      /\ since \in Nat /\ since <= next
  BY DEF TypeOK, ParametersFit
<1>1. PICK first \in Nat, l \in Nat :
        /\ todo = [i \in 1 .. l |-> ReplayFrame(first + i)]
        /\ first + l = next \/ l = 0
  <2>1. CASE todo = <<>>
    <3>1. todo = [i \in 1 .. 0 |-> ReplayFrame(0 + i)]
      BY <2>1
    <3> QED BY <3>1
  <2>2. CASE todo = Snapshot
    <3> DEFINE first == IF next > RingChunks THEN next - RingChunks ELSE 0
    <3>1. first \in Nat /\ next - first \in Nat /\ first + (next - first) = next
      BY <1>0
    <3>2. todo = [i \in 1 .. next - first |-> ReplayFrame(first + i)]
      BY <2>2 DEF Snapshot
    <3> HIDE DEF first
    <3> QED BY <3>1, <3>2
  <2> QED BY <2>1, <2>2
<1>2. \A i \in 1 .. l : /\ todo[i] = ReplayFrame(first + i) /\ ReplayFrame(first + i) \in Message
                        /\ todo[i].kind = "replay"
                        /\ todo[i].from = first + i /\ todo[i].to = first + i
  <2>1. ASSUME NEW i \in 1 .. l PROVE first + i \in 0 .. MaxChunks
    BY <1>0, <1>1
  <2> QED BY <1>1, <2>1 DEF ReplayFrame, Message
<1>3. todo \in Seq(Message) /\ DOMAIN todo = 1 .. l /\ Len(todo) = l
  <2>1. todo \in [1 .. l -> Message]
    BY <1>1, <1>2
  <2>2. todo \in Seq(Message)
    BY <1>1, <2>1, SeqDef
  <2>3. Len(todo) \in Nat /\ 1 .. Len(todo) = 1 .. l
    BY <2>1, <2>2, LenProperties
  <2> QED BY <1>1, <2>2, <2>3
<1> DEFINE note == <<Note("compress")>>
           p == note \o todo
<1>4. /\ note \in Seq(Message) /\ Len(note) = 1 /\ \A K : "compress" \notin K => Of(note, K) = {}
  BY MessagesHere, OfOne
<1> HIDE DEF note
<1>5. p \in Seq(Message) /\ \A K : "compress" \notin K =>
        /\ \A i \in Of(todo, K) : 1 + i \in Of(p, K) /\ p[1 + i] = todo[i]
        /\ \A i \in Of(p, K) : \E j \in Of(todo, K) : i = 1 + j
  <2>1. p \in Seq(Message)
    BY <1>3, <1>4, OfConcat
  <2>2. ASSUME NEW K, "compress" \notin K
        PROVE  /\ \A i \in Of(todo, K) : 1 + i \in Of(p, K) /\ p[1 + i] = todo[i]
               /\ \A i \in Of(p, K) : \E j \in Of(todo, K) : i = 1 + j
    <3>0. note \in Seq(Message) /\ todo \in Seq(Message)
      BY <1>3, <1>4
    <3>1. \A i \in Of(todo, K) : /\ Len(note) + i \in Of(p, K)
                                 /\ p[Len(note) + i] = todo[i]
      BY <3>0, OfConcat
    <3>2. \A i \in Of(p, K) : i \in Of(note, K) \/ \E j \in Of(todo, K) : i = Len(note) + j
      BY <3>0, OfConcat
    <3> QED BY <1>4, <2>2, <3>1, <3>2
  <2> QED BY <2>1, <2>2
<1>6. /\ Of(todo, {"replay"}) = 1 .. l
      /\ \A K : "replay" \notin K => Of(todo, K) = {}
  BY <1>2, <1>3 DEF Of
<1> HIDE DEF p
<1>7. \A i \in Of(p, {"replay"}) :
        /\ i \in Nat /\ 2 <= i /\ i <= l + 1 /\ p[i].from = (first + i) - 1
        /\ p[i].to = (first + i) - 1
  <2> SUFFICES ASSUME NEW i \in Of(p, {"replay"})
               PROVE  /\ i \in Nat /\ 2 <= i /\ i <= l + 1 /\ p[i].from = (first + i) - 1
                      /\ p[i].to = (first + i) - 1
    OBVIOUS
  <2>1. PICK j \in Of(todo, {"replay"}) : i = 1 + j
    BY <1>5
  <2>2. j \in 1 .. l /\ p[i] = todo[j]
    BY <1>5, <1>6, <2>1
  <2> QED BY <1>1, <1>2, <2>1, <2>2
<1>8. \A j \in 1 .. l : 1 + j \in Of(p, {"replay"})
  BY <1>5, <1>6
<1>9. Of(p, FanOut \cup {"replay-end"}) = {}
  <2>1. "compress" \notin FanOut \cup {"replay-end"} /\ "replay" \notin FanOut \cup {"replay-end"}
    BY DEF FanOut
  <2> QED BY <1>5, <1>6, <2>1
<1>10. Rising(p, "replay")
  BY <1>1, <1>7 DEF Rising
<1>11. \A i \in Of(p, {"replay"}) : p[i].from = p[i].to
  BY <1>7
<1>12. ASSUME NEW j \in Of(p, {"replay"}), NEW k \in Of(p, {"replay"}), ~(j <= k)
       PROVE  \E i \in Of(p, {"replay"}) : i < j /\ p[i].to + 1 = p[j].from
  <2>1. j - 2 \in 1 .. l /\ 1 + (j - 2) = j - 1 /\ j \in Nat
    BY <1>1, <1>7, <1>12
  <2>2. j - 1 \in Of(p, {"replay"})
    BY <1>8, <2>1
  <2>3. j - 1 < j /\ p[j - 1].to = (first + (j - 1)) - 1 /\ p[j].from = (first + j) - 1
    BY <1>7, <2>1, <2>2
  <2> QED BY <1>1, <2>1, <2>2, <2>3
<1>13. ASSUME NEW k \in Of(p, {"replay"}) PROVE \E i \in Of(p, {"replay"}) : p[i].to >= since
  <2>1. l \in 1 .. l /\ first + l = next
    BY <1>1, <1>7
  <2>2. 1 + l \in Of(p, {"replay"}) /\ p[1 + l].to = (first + (1 + l)) - 1
    BY <1>7, <1>8, <2>1
  <2> QED BY <1>0, <1>1, <2>1, <2>2
<1>14. Prelude(p, since)
  BY <1>9, <1>10, <1>11, <1>12, <1>13 DEF Prelude
<1> QED BY <1>2, <1>3, <1>5, <1>14 DEF p, note

(* The invariant, spelled out for the provers. *)
LEMMA InvFacts ==
  ASSUME ParametersFit, Whole
  PROVE  /\ MaxChunks \in Nat /\ next \in Nat /\ flushed \in Nat /\ since \in Nat
         /\ flushed <= next /\ next <= MaxChunks /\ since <= flushed
         /\ framed \in SUBSET (1 .. flushed)
         /\ frameOpen \in BOOLEAN /\ cutShort \in BOOLEAN /\ alive \in BOOLEAN
         /\ client \in Viewer /\ Fits(client.queue) /\ Shape(client, cutShort)
         /\ Stream(client, since, flushed, framed, frameOpen, cutShort)
         /\ client.stage \in {"absent", "pending", "live"} /\ client.mode \in {"raw", "ctx"}
         /\ client.wire \in Seq(Message) /\ client.queue \in Seq(Message)
         /\ client.encoding \in Seq(Message) /\ client.todo \in Seq(Message)
         /\ client.open \in BOOLEAN /\ client.overflowed \in BOOLEAN /\ client.taken \in Nat
         /\ client.marked \in BOOLEAN /\ client.promoting \in BOOLEAN
<1>1. /\ client \in Viewer /\ Fits(client.queue) /\ Shape(client, cutShort)
      /\ Stream(client, since, flushed, framed, frameOpen, cutShort)
  BY DEF Whole, IInv, Fine, Sound
<1>2. /\ client.stage \in {"absent", "pending", "live"} /\ client.mode \in {"raw", "ctx"}
      /\ client.wire \in Seq(Message) /\ client.queue \in Seq(Message)
      /\ client.encoding \in Seq(Message) /\ client.todo \in Seq(Message)
      /\ client.open \in BOOLEAN /\ client.overflowed \in BOOLEAN /\ client.taken \in Nat
      /\ client.marked \in BOOLEAN /\ client.promoting \in BOOLEAN
  BY <1>1 DEF Viewer
<1>3. /\ MaxChunks \in Nat /\ next \in 0 .. MaxChunks /\ flushed \in 0 .. next
      /\ since \in 0 .. flushed /\ framed \subseteq 1 .. flushed
      /\ frameOpen \in BOOLEAN /\ cutShort \in BOOLEAN /\ alive \in BOOLEAN
  BY DEF Whole, IInv, TypeOK, ParametersFit
<1> QED BY <1>1, <1>2, <1>3

(* The queue as it follows the marker holds no replay.                     *)
LEMMA QueueFacts ==
  ASSUME ParametersFit, NEW c \in Viewer, \A i \in DOMAIN c.queue : c.queue[i].kind \in FanOut
  PROVE  /\ Queue(c) \in Seq(Message) /\ Of(Queue(c), {"replay"}) = {} /\ Quiet(Queue(c))
         /\ Of(Queue(c), Boundary) = {} => Of(c.queue, Boundary) = {}
         /\ Of(Queue(c), {"replay-end"}) # {}
<1> DEFINE m == <<Marker>>
           q == c.queue
<1>1. m \in Seq(Message) /\ \A K : Of(m, K) = IF "replay-end" \in K THEN {1} ELSE {}
  BY MessagesHere, OfOne
<1>2. q \in Seq(Message) /\ Queue(c) = m \o q
  BY DEF Viewer, Queue
<1>3. /\ Of(q, {"replay"}) = {} /\ Of(q, {"exit", "killed"}) = {}
  BY DEF Of, FanOut
<1> HIDE DEF m, q
<1>4. /\ Of(m, {"replay"}) = {} /\ Of(m, {"exit", "killed"}) = {} /\ Of(m, {"replay-end"}) = {1}
  BY <1>1
<1>5. m \o q \in Seq(Message) /\ Of(m \o q, {"replay"}) = {} /\ Of(m \o q, {"exit", "killed"}) = {}
  <2>1. m \o q \in Seq(Message)
    BY <1>1, <1>2, OfConcat
  <2>2. \A K : Of(q, K) = {} => Of(m \o q, K) = Of(m, K)
    BY <1>1, <1>2, NoneAdded
  <2> QED BY <1>3, <1>4, <2>1, <2>2
<1>6. Of(m \o q, Boundary) = {} => Of(q, Boundary) = {}
  BY <1>1, <1>2, OfConcat
<1>7. 1 \in Of(m \o q, {"replay-end"})
  BY <1>1, <1>2, <1>4, OfConcat
<1> QED BY <1>2, <1>5, <1>6, <1>7 DEF Quiet, q

(* A promotion that awaits no encoder.                                     *)
LEMMA RawKeeps ==
  ASSUME ParametersFit, Whole, CanPromote, ~client.promoting, NEW todo \in {<<>>, Snapshot},
         NEW d, d = Finish(Announced("raw"), todo)
  PROVE  Sound(d, since, flushed, framed, frameOpen, cutShort) /\ d.stage = "live"
<1> DEFINE w == client.wire
           note == <<Note("compress")>>
           rest == Queue(client)
           a == Announced("raw")
           b == Send(a, todo)
           c == Send(b, rest)
<1>1. /\ client \in Viewer /\ Shape(client, cutShort) /\ client.stage = "pending"
      /\ Stream(client, since, flushed, framed, frameOpen, cutShort)
      /\ w \in Seq(Message) /\ client.queue \in Seq(Message)
      /\ flushed \in Nat /\ since \in Nat /\ cutShort \in BOOLEAN
      /\ client.open \in BOOLEAN /\ client.overflowed = FALSE
  BY InvFacts DEF CanPromote
<1>2. /\ rest \in Seq(Message) /\ Of(rest, {"replay"}) = {} /\ Quiet(rest)
      /\ Of(rest, Boundary) = {} => Of(client.queue, Boundary) = {}
      /\ Of(rest, {"replay-end"}) # {}
  BY <1>1, QueueFacts DEF Shape
<1>3. /\ todo \in Seq(Message) /\ \A i \in DOMAIN todo : todo[i].kind = "replay"
      /\ note \o todo \in Seq(Message) /\ Prelude(note \o todo, since)
  BY ReplayIsPrelude DEF Whole, IInv
<1>4. note \in Seq(Message)
  BY MessagesHere
<1>5. d = GoLive(c)
  <2>1. a.queue = client.queue /\ a.overflowed = FALSE
    BY <1>1, AnnouncedFields
  <2>3. rest = <<Note("replay-end")>> \o a.queue
    BY <2>1 DEF Queue, Marker
  <2> HIDE DEF a, rest
  <2> QED BY <2>1, <2>3 DEF Finish, a
<1>6. /\ a \in Viewer /\ a.wire = (IF client.open THEN w \o note ELSE w)
      /\ a.waiting = FALSE /\ a.mode = "raw" /\ a.encoding = <<>>
      /\ a.stage = client.stage /\ a.open = client.open /\ a.overflowed = client.overflowed
      /\ a.promoting = client.promoting /\ a.todo = client.todo
      /\ a.marked = client.marked /\ a.taken = client.taken
  BY <1>1, AnnouncedFields
<1> HIDE DEF w, note, rest, a
<1>7. /\ b \in Viewer /\ b.wire = (IF client.open THEN (w \o note) \o todo ELSE w)
      /\ b.waiting = FALSE /\ b.mode = "raw" /\ b.encoding = <<>>
      /\ b.open = client.open /\ b.overflowed = client.overflowed
      /\ b.promoting = client.promoting /\ b.todo = client.todo
      /\ b.marked = client.marked /\ b.taken = client.taken
  BY <1>3, <1>6, SendFields
<1> HIDE DEF b
<1>8. /\ c \in Viewer /\ c.wire = (IF client.open THEN ((w \o note) \o todo) \o rest ELSE w)
      /\ c.waiting = FALSE /\ c.mode = "raw" /\ c.encoding = <<>>
      /\ c.open = client.open /\ c.overflowed = client.overflowed
      /\ c.promoting = client.promoting /\ c.todo = client.todo
      /\ c.marked = client.marked /\ c.taken = client.taken
  BY <1>2, <1>7, SendFields
<1> HIDE DEF c
<1>9. /\ d \in Viewer /\ d.stage = "live" /\ d.queue = <<>>
      /\ d.wire = (IF client.open THEN ((w \o note) \o todo) \o rest ELSE w)
      /\ d.waiting = FALSE /\ d.mode = "raw" /\ d.encoding = <<>>
      /\ d.open = client.open /\ d.overflowed = client.overflowed
      /\ d.promoting = client.promoting /\ d.todo = client.todo
      /\ d.marked = client.marked /\ d.taken = client.taken
  <2>1. /\ d \in Viewer /\ d.stage = "live" /\ d.queue = <<>>
        /\ d.wire = c.wire /\ d.open = c.open /\ d.overflowed = c.overflowed
        /\ d.waiting = c.waiting /\ d.mode = c.mode
        /\ d.encoding = c.encoding /\ d.promoting = c.promoting /\ d.todo = c.todo
        /\ d.marked = c.marked /\ d.taken = c.taken
    <3>1. c \in Viewer /\ d = GoLive(c)
      BY <1>5, <1>8
    <3> QED BY <3>1, GoLiveFields
  <2> QED BY <1>8, <2>1
<1>10. /\ w \o note \in Seq(Message) /\ (w \o note) \o todo \in Seq(Message)
       /\ ((w \o note) \o todo) \o rest \in Seq(Message)
  BY <1>1, <1>2, <1>3, <1>4, OfConcat
<1>11. Quiet(w) /\ Quiet(note) /\ Quiet(todo)
  <2>1. Quiet(w)
    BY <1>1 DEF Shape, w
  <2>2. Quiet(note)
    BY MessagesHere, OfOne DEF Quiet, note
  <2>3. Quiet(todo)
    BY <1>3 DEF Quiet, Of
  <2> QED BY <2>1, <2>2, <2>3
<1>12. Quiet(d.wire) /\ (d.open => Of(d.wire, {"replay-end"}) # {})
  <2>1. Quiet(w \o note)
    BY <1>1, <1>4, <1>11, QuietConcat
  <2> DEFINE v == w \o note
             x == v \o todo
  <2>2. v \in Seq(Message) /\ x \in Seq(Message) /\ Quiet(v)
    BY <1>10, <2>1
  <2> HIDE DEF v
  <2>5. Quiet(x)
    BY <1>3, <1>11, <2>2, QuietConcat
  <2> HIDE DEF x
  <2>6. Quiet(x \o rest)
    BY <1>2, <2>2, <2>5, QuietConcat
  <2>3. Quiet(((w \o note) \o todo) \o rest)
    BY <2>6 DEF x, v
  <2>4. Of(((w \o note) \o todo) \o rest, {"replay-end"}) # {}
    BY <1>2, <1>10, OfConcat
  <2> QED BY <1>9, <1>11, <2>3, <2>4
<1>13. Shape(d, cutShort)
  <2>1. Quiet(d.encoding)
    BY <1>9, OfNone DEF Quiet
  <2>2. \A i \in DOMAIN d.queue : d.queue[i].kind \in FanOut
    <3>1. d.queue = <<>>
      BY <1>9
    <3>2. DOMAIN <<>> = {}
      OBVIOUS
    <3> QED BY <3>1, <3>2
  <2> QED BY <1>1, <1>9, <1>12, <2>1, <2>2 DEF Shape
<1>14. Pipe(d) = d.wire
  <2>1. d.wire \in Seq(Message)
    BY <1>9 DEF Viewer
  <2> QED BY <1>9, <2>1, ConcatEmptySeq DEF Pipe
<1>15. ASSUME client.open
       PROVE  /\ Story(d.wire, since, flushed, framed, cutShort)
              /\ Ends(d.wire, since, flushed, frameOpen)
  <2>1. /\ Story(rest, since, flushed, framed, FALSE)
        /\ Ends(rest, since, flushed, frameOpen)
    BY <1>1, <1>15 DEF Stream, rest
  <2>2. w = <<>>
    BY <1>1 DEF Shape, w
  <2>3. d.wire = (note \o todo) \o rest
    BY <1>4, <1>9, <1>15, <2>2, ConcatEmptySeq
  <2>4. /\ Story(d.wire, since, flushed, framed, FALSE)
        /\ Ends(d.wire, since, flushed, frameOpen)
    BY <1>1, <1>2, <1>3, <2>1, <2>3, StoryShift
  <2> QED BY <2>4 DEF Story
<1>16. ~client.open => Story(d.wire, since, flushed, framed, cutShort)
  BY <1>1, <1>9 DEF Stream, w
<1>17. Stream(d, since, flushed, framed, frameOpen, cutShort)
  BY <1>1, <1>9, <1>14, <1>15, <1>16, FlowOfPipe
<1> QED BY <1>9, <1>13, <1>17, NoteFits DEF Sound

(* Its steps. *)
NextReplay(c) == [c EXCEPT !.encoding = <<Head(c.todo)>>, !.todo = Tail(c.todo)]
Mark(c) == [Send(c, <<Note("replay-end")>>) EXCEPT !.marked = TRUE]
NextQueued(c) == [c EXCEPT !.encoding = <<c.queue[c.taken + 1]>>, !.taken = c.taken + 1]

(* A promotion between two awaits: it holds no task of the encoder.        *)
Going(c, lo, hi, fr, frame, cut) ==
    /\ c \in Viewer /\ Fits(c.queue) /\ Stream(c, lo, hi, fr, frame, cut)
    /\ c.stage = "pending" /\ c.promoting /\ c.mode = "ctx" /\ ~c.waiting /\ c.encoding = <<>>
    /\ c.overflowed => ~c.open
    /\ Quiet(c.wire)
    /\ c.marked => c.todo = <<>>
    /\ \A i \in DOMAIN c.todo : c.todo[i].kind = "replay"
    /\ \A i \in DOMAIN c.queue : c.queue[i].kind \in FanOut
    /\ c.open => c.taken <= Len(c.queue)
    /\ c.open /\ Of(c.queue, Boundary) = {} => Of(c.wire, Boundary) = {}
    /\ c.open /\ c.marked => Of(c.wire, {"replay-end"}) # {}

(* It sends the marker once the replay is over.                            *)
LEMMA MarkKeeps ==
  ASSUME ParametersFit, NEW c, NEW lo \in Nat, NEW hi \in Nat, NEW fr, NEW frame,
         NEW cut \in BOOLEAN, Going(c, lo, hi, fr, frame, cut), c.todo = <<>>, ~c.marked,
         NEW d, d = Mark(c)
  PROVE  Going(d, lo, hi, fr, frame, cut) /\ d.marked /\ d.todo = <<>> /\ d.open = c.open
<1> DEFINE m == <<Marker>>
           e == Send(c, m)
           v == SubSeq(c.queue, c.taken + 1, Len(c.queue))
           w == c.wire
           on == TRUE
<1>1. /\ c \in Viewer /\ Stream(c, lo, hi, fr, frame, cut)
      /\ c.wire \in Seq(Message) /\ c.queue \in Seq(Message) /\ c.stage = "pending"
      /\ c.encoding = <<>> /\ c.taken \in Nat /\ Quiet(c.wire) /\ c.marked = FALSE
  BY DEF Going, Viewer
<1>2. m \in Seq(Message) /\ \A K : Of(m, K) = IF "replay-end" \in K THEN {1} ELSE {}
  BY MessagesHere, OfOne
<1>3. d = [e EXCEPT !.marked = on] /\ on \in BOOLEAN
  BY DEF Mark, Marker
<1>4. /\ Of(m, Boundary) = {} /\ Of(m, {"exit", "killed"}) = {} /\ Of(m, {"replay-end"}) # {}
  BY <1>2 DEF Boundary
<1>5. v \in Seq(Message)
  <2>1. Len(c.queue) \in Nat /\ \A i \in 1 .. Len(c.queue) : c.queue[i] \in Message
    BY <1>1, LenProperties
  <2>2. \A i \in c.taken + 1 .. Len(c.queue) : c.queue[i] \in Message
    BY <1>1, <2>1
  <2> QED BY <1>1, <2>1, <2>2, SubSeqProperties
<1>6. Pipe(c) = (w \o <<>>) \o ((<<>> \o m) \o v)
  BY <1>1 DEF Pipe, Coming
<1> HIDE DEF m, on
<1>7. /\ e \in Viewer /\ e.wire = (IF c.open THEN c.wire \o m ELSE c.wire)
      /\ e.stage = c.stage /\ e.open = c.open /\ e.overflowed = c.overflowed
      /\ e.waiting = c.waiting /\ e.mode = c.mode /\ e.queue = c.queue
      /\ e.encoding = c.encoding /\ e.promoting = c.promoting /\ e.todo = c.todo
      /\ e.taken = c.taken
  BY <1>1, <1>2, SendFields
<1> HIDE DEF e
<1>8. d \in Viewer
  BY <1>3, <1>7 DEF Viewer
<1>9. /\ d.wire = e.wire /\ d.stage = e.stage /\ d.open = e.open /\ d.overflowed = e.overflowed
      /\ d.waiting = e.waiting /\ d.mode = e.mode /\ d.queue = e.queue
      /\ d.encoding = e.encoding /\ d.promoting = e.promoting /\ d.todo = e.todo
      /\ d.taken = e.taken /\ d.marked = on
  BY <1>3, <1>7 DEF Viewer
<1>10. on = TRUE
  BY DEF on
<1>11. c.open => Pipe(d) = Pipe(c) /\ Queue(d) = Queue(c)
  <2> SUFFICES ASSUME c.open PROVE Pipe(d) = Pipe(c) /\ Queue(d) = Queue(c)
    OBVIOUS
  <2>1. Pipe(d) = ((w \o m) \o <<>>) \o ((<<>> \o <<>>) \o v)
    BY <1>1, <1>7, <1>9, <1>10 DEF Pipe, Coming
  <2>2. w \in Seq(Message) /\ w \o m \in Seq(Message)
    BY <1>1, <1>2, OfConcat
  <2> HIDE DEF v, w
  <2>6. \A s \in Seq(Message) : s \o <<>> = s /\ <<>> \o s = s
    BY ConcatEmptySeq
  <2>3. Pipe(d) = (w \o m) \o v
    <3>1. (w \o m) \o <<>> = w \o m /\ <<>> \o <<>> = <<>> /\ <<>> \o v = v
      BY <1>5, <2>2, <2>6, MessagesHere
    <3> QED BY <2>1, <3>1
  <2>4. Pipe(c) = w \o (m \o v)
    <3>1. w \o <<>> = w /\ <<>> \o m = m
      BY <1>2, <2>2, <2>6
    <3> QED BY <1>6, <3>1
  <2>5. (w \o m) \o v = w \o (m \o v)
    BY <1>2, <1>5, <2>2, Associative
  <2> QED BY <1>7, <1>9, <2>3, <2>4, <2>5 DEF Queue
<1>12. Stream(d, lo, hi, fr, frame, cut)
  <2>1. /\ c.open => Story(Pipe(c), lo, hi, fr, cut) /\ Ends(Pipe(c), lo, hi, frame)
        /\ c.open => Story(Queue(c), lo, hi, fr, FALSE) /\ Ends(Queue(c), lo, hi, frame)
        /\ Story(c.wire, lo, hi, fr, cut)
    BY <1>1 DEF Stream
  <2>2. d.open = c.open /\ (~c.open => d.wire = c.wire)
    BY <1>7, <1>9
  <2>3. /\ d.open => Story(Pipe(d), lo, hi, fr, cut) /\ Ends(Pipe(d), lo, hi, frame)
        /\ d.open => Story(Queue(d), lo, hi, fr, FALSE) /\ Ends(Queue(d), lo, hi, frame)
        /\ ~d.open => Story(d.wire, lo, hi, fr, cut)
    BY <1>11, <2>1, <2>2
  <2> QED BY <1>8, <2>3, FlowOfPipe
<1>13. /\ Quiet(c.wire \o m) /\ Of(c.wire \o m, Boundary) = Of(c.wire, Boundary)
       /\ Of(c.wire \o m, {"replay-end"}) # {}
  <2>1. w \in Seq(Message) /\ Of(w, {"exit", "killed"}) = {}
    BY <1>1 DEF Quiet
  <2> HIDE DEF w
  <2>2. Of(w \o m, {"exit", "killed"}) = {} /\ Of(w \o m, Boundary) = Of(w, Boundary)
    BY <1>2, <1>4, <2>1, NoneAdded
  <2>3. Of(w \o m, {"replay-end"}) # {}
    BY <1>2, <1>4, <2>1, OfConcat
  <2> QED BY <2>2, <2>3 DEF Quiet, w
<1>14. Going(d, lo, hi, fr, frame, cut)
  <2>1. Quiet(d.wire) /\ (c.open => Of(d.wire, {"replay-end"}) # {})
    BY <1>1, <1>7, <1>9, <1>13
  <2>2. c.open => Of(d.wire, Boundary) = Of(c.wire, Boundary)
    BY <1>7, <1>9, <1>13
  <2>3. /\ d.stage = "pending" /\ d.open = c.open /\ d.overflowed = c.overflowed
        /\ d.waiting = c.waiting /\ d.mode = c.mode /\ d.queue = c.queue
        /\ d.encoding = c.encoding /\ d.promoting = c.promoting /\ d.todo = c.todo
        /\ d.taken = c.taken /\ d.marked = TRUE
    BY <1>1, <1>7, <1>9, <1>10
  <2> QED BY <1>8, <1>12, <2>1, <2>2, <2>3 DEF Going
<1> QED BY <1>7, <1>9, <1>10, <1>14

(* What is known of a promotion that goes on. *)
LEMMA GoingFacts ==
  ASSUME ParametersFit, NEW c, NEW lo \in Nat, NEW hi \in Nat, NEW fr, NEW frame,
         NEW cut \in BOOLEAN, Going(c, lo, hi, fr, frame, cut)
  PROVE  /\ c \in Viewer /\ Stream(c, lo, hi, fr, frame, cut) /\ Fits(c.queue)
         /\ c.wire \in Seq(Message) /\ c.queue \in Seq(Message) /\ c.todo \in Seq(Message)
         /\ c.stage = "pending" /\ c.encoding = <<>> /\ c.taken \in Nat /\ Quiet(c.wire)
         /\ c.promoting /\ c.mode = "ctx" /\ ~c.waiting /\ c.open \in BOOLEAN
         /\ SubSeq(c.queue, c.taken + 1, Len(c.queue)) \in Seq(Message)
         /\ Len(c.queue) \in Nat
<1>1. /\ c.wire \in Seq(Message) /\ c.queue \in Seq(Message) /\ c.todo \in Seq(Message)
      /\ c.taken \in Nat /\ c.open \in BOOLEAN
  BY DEF Going, Viewer
<1>2. Len(c.queue) \in Nat /\ \A i \in 1 .. Len(c.queue) : c.queue[i] \in Message
  BY <1>1, LenProperties
<1>3. \A i \in c.taken + 1 .. Len(c.queue) : c.queue[i] \in Message
  BY <1>1, <1>2
<1>4. SubSeq(c.queue, c.taken + 1, Len(c.queue)) \in Seq(Message)
  BY <1>1, <1>2, <1>3, SubSeqProperties
<1> QED BY <1>1, <1>2, <1>4 DEF Going

(* The next item of the replay goes to the encoder.                        *)
LEMMA ReplayStep ==
  ASSUME ParametersFit, NEW c, NEW lo \in Nat, NEW hi \in Nat, NEW fr, NEW frame,
         NEW cut \in BOOLEAN, Going(c, lo, hi, fr, frame, cut), c.todo # <<>>,
         NEW d, d = NextReplay(c)
  PROVE  Sound(d, lo, hi, fr, frame, cut) /\ d.stage = "pending"
<1> DEFINE h == <<Head(c.todo)>>
           t == Tail(c.todo)
           m == <<Marker>>
           v == SubSeq(c.queue, c.taken + 1, Len(c.queue))
           w == c.wire
<1>1. /\ c \in Viewer /\ Stream(c, lo, hi, fr, frame, cut) /\ Fits(c.queue)
      /\ w \in Seq(Message) /\ c.queue \in Seq(Message) /\ c.todo \in Seq(Message)
      /\ c.stage = "pending" /\ c.encoding = <<>> /\ c.taken \in Nat /\ Quiet(w)
      /\ v \in Seq(Message) /\ m \in Seq(Message)
  BY GoingFacts, MessagesHere
<1>2. /\ h \in Seq(Message) /\ t \in Seq(Message) /\ c.todo = h \o t
      /\ Len(t) = Len(c.todo) - 1 /\ Len(c.todo) \in Nat \ {0}
      /\ Head(c.todo) = c.todo[1] /\ \A i \in 1 .. Len(c.todo) - 1 : t[i] = c.todo[i + 1]
      /\ Head(c.todo) \in Message
  BY <1>1, HeadTail
<1>3. c.marked = FALSE /\ \A i \in 1 .. Len(c.todo) : c.todo[i].kind = "replay"
  <2>1. DOMAIN c.todo = 1 .. Len(c.todo)
    BY <1>1, LenProperties
  <2>2. c.marked \in BOOLEAN
    BY <1>1 DEF Viewer
  <2> QED BY <2>1, <2>2 DEF Going
<1>4. Head(c.todo).kind = "replay" /\ \A i \in DOMAIN t : t[i].kind = "replay"
  <2>1. DOMAIN t = 1 .. Len(c.todo) - 1
    BY <1>2, LenProperties
  <2>2. ASSUME NEW i \in DOMAIN t PROVE t[i].kind = "replay"
    <3>1. i \in 1 .. Len(c.todo) - 1 /\ i + 1 \in 1 .. Len(c.todo)
      BY <1>2, <2>1
    <3> QED BY <1>2, <1>3, <3>1
  <2>3. 1 \in 1 .. Len(c.todo)
    BY <1>2
  <2> QED BY <1>2, <1>3, <2>2, <2>3
<1>5. Len(h) = 1 /\ Of(h, Boundary) = {} /\ Quiet(h)
  BY <1>2, <1>4, OfOne DEF Boundary, Quiet
<1>6. Pipe(c) = (w \o <<>>) \o ((c.todo \o m) \o v)
  BY <1>1, <1>3 DEF Pipe, Coming
<1> HIDE DEF h, t
<1>7. d = [c EXCEPT !.encoding = h, !.todo = t]
  BY DEF NextReplay, h, t
<1>8. d \in Viewer
  BY <1>1, <1>2, <1>7 DEF Viewer
<1>9. /\ d.encoding = h /\ d.todo = t /\ d.wire = w /\ d.stage = c.stage /\ d.open = c.open
      /\ d.overflowed = c.overflowed /\ d.waiting = c.waiting /\ d.mode = c.mode
      /\ d.queue = c.queue /\ d.promoting = c.promoting /\ d.taken = c.taken
      /\ d.marked = c.marked
  BY <1>1, <1>7 DEF Viewer
<1>10. Pipe(d) = (w \o h) \o ((t \o m) \o v) /\ Queue(d) = Queue(c)
  BY <1>1, <1>3, <1>9 DEF Pipe, Coming, Queue
<1>11. Pipe(d) = Pipe(c)
  <2>0. /\ h \in Seq(Message) /\ t \in Seq(Message) /\ m \in Seq(Message)
        /\ v \in Seq(Message) /\ w \in Seq(Message)
    BY <1>1, <1>2
  <2> HIDE DEF m, v, w
  <2> DEFINE tm == t \o m
             rest == tm \o v
  <2>1. tm \in Seq(Message) /\ rest \in Seq(Message)
    BY <2>0, OfConcat
  <2> HIDE DEF tm, rest
  <2>2. (w \o h) \o rest = w \o (h \o rest)
    <3>1. w \in Seq(Message) /\ h \in Seq(Message) /\ rest \in Seq(Message)
      BY <2>0, <2>1
    <3> QED BY <3>1, Associative
  <2>3. h \o (tm \o v) = (h \o tm) \o v
    <3>1. h \in Seq(Message) /\ tm \in Seq(Message) /\ v \in Seq(Message)
      BY <2>0, <2>1
    <3> QED BY <3>1, Associative
  <2> USE DEF tm, rest
  <2>4. h \o (t \o m) = (h \o t) \o m
    <3>1. h \in Seq(Message) /\ t \in Seq(Message) /\ m \in Seq(Message)
      BY <2>0
    <3> QED BY <3>1, Associative
  <2>5. w \o <<>> = w
    BY <1>1, ConcatEmptySeq
  <2> QED BY <1>2, <1>6, <1>10, <2>2, <2>3, <2>4, <2>5
<1>12. Stream(d, lo, hi, fr, frame, cut)
  BY <1>1, <1>8, <1>9, <1>10, <1>11, FlowOfPipe DEF Stream
<1>13. Shape(d, cut)
  BY <1>1, <1>3, <1>4, <1>5, <1>9 DEF Going, Shape
<1> QED BY <1>1, <1>8, <1>9, <1>12, <1>13 DEF Sound

(* The next item of the pending queue goes to the encoder.                 *)
LEMMA QueueStep ==
  ASSUME ParametersFit, NEW c, NEW lo \in Nat, NEW hi \in Nat, NEW fr, NEW frame,
         NEW cut \in BOOLEAN, Going(c, lo, hi, fr, frame, cut), c.todo = <<>>, c.marked,
         c.taken < Len(c.queue),
         NEW d, d = NextQueued(c)
  PROVE  Sound(d, lo, hi, fr, frame, cut) /\ d.stage = "pending"
<1> DEFINE x == <<c.queue[c.taken + 1]>>
           v == SubSeq(c.queue, c.taken + 1, Len(c.queue))
           u == SubSeq(c.queue, (c.taken + 1) + 1, Len(c.queue))
           w == c.wire
           k == c.taken + 1
<1>1. /\ c \in Viewer /\ Stream(c, lo, hi, fr, frame, cut) /\ Fits(c.queue)
      /\ w \in Seq(Message) /\ c.queue \in Seq(Message) /\ Len(c.queue) \in Nat
      /\ c.stage = "pending" /\ c.encoding = <<>> /\ c.taken \in Nat /\ Quiet(w)
      /\ v \in Seq(Message)
  BY GoingFacts
<1>2. /\ v = x \o u /\ x \in Seq(Message) /\ u \in Seq(Message)
      /\ c.queue[c.taken + 1] \in Message
  BY <1>1, SubSeqNext
<1>3. c.queue[c.taken + 1].kind \in FanOut /\ k \in Nat /\ k <= Len(c.queue)
      /\ c.taken + 1 \in DOMAIN c.queue
  <2>1. DOMAIN c.queue = 1 .. Len(c.queue)
    BY <1>1, LenProperties
  <2>2. c.taken + 1 \in 1 .. Len(c.queue)
    BY <1>1
  <2> QED BY <1>1, <2>1, <2>2 DEF Going
<1>4. /\ Len(x) = 1 /\ Quiet(x)
      /\ Of(c.queue, Boundary) = {} => Of(x, Boundary) = {}
  <2>1. \A K : Of(x, K) = IF c.queue[c.taken + 1].kind \in K THEN {1} ELSE {}
    BY <1>2, OfOne
  <2>2. Len(x) = 1
    OBVIOUS
  <2>3. Quiet(x)
    BY <1>3, <2>1 DEF Quiet, FanOut
  <2>4. Of(c.queue, Boundary) = {} => c.queue[c.taken + 1].kind \notin Boundary
    BY <1>3 DEF Of
  <2> QED BY <2>1, <2>2, <2>3, <2>4
<1>5. Pipe(c) = (w \o <<>>) \o ((<<>> \o <<>>) \o v)
  BY <1>1 DEF Pipe, Coming
<1> HIDE DEF x, k
<1>6. d = [c EXCEPT !.encoding = x, !.taken = k]
  BY DEF NextQueued, x, k
<1>7. d \in Viewer
  BY <1>1, <1>2, <1>3, <1>6 DEF Viewer
<1>8. /\ d.encoding = x /\ d.todo = c.todo /\ d.wire = w /\ d.stage = c.stage /\ d.open = c.open
      /\ d.overflowed = c.overflowed /\ d.waiting = c.waiting /\ d.mode = c.mode
      /\ d.queue = c.queue /\ d.promoting = c.promoting /\ d.taken = k
      /\ d.marked = c.marked
  BY <1>1, <1>6 DEF Viewer
<1>9. Pipe(d) = (w \o x) \o ((<<>> \o <<>>) \o u) /\ Queue(d) = Queue(c)
  BY <1>1, <1>8 DEF Pipe, Coming, Queue, k
<1>10. Pipe(d) = Pipe(c)
  <2> HIDE DEF u, v, w
  <2>1. <<>> \o <<>> = <<>> /\ <<>> \o v = v /\ <<>> \o u = u /\ w \o <<>> = w
    BY <1>1, <1>2, MessagesHere, ConcatEmptySeq
  <2>2. (w \o x) \o u = w \o (x \o u)
    BY <1>1, <1>2, Associative, SMTT(30)
  <2> QED BY <1>2, <1>5, <1>9, <2>1, <2>2
<1>11. Stream(d, lo, hi, fr, frame, cut)
  BY <1>1, <1>7, <1>8, <1>9, <1>10, FlowOfPipe DEF Stream
<1>12. Shape(d, cut)
  BY <1>1, <1>3, <1>4, <1>8 DEF Going, Shape
<1> QED BY <1>1, <1>7, <1>8, <1>11, <1>12 DEF Sound

(* All of the queue is sent: the viewer is live.                           *)
LEMMA LastStep ==
  ASSUME ParametersFit, NEW c, NEW lo \in Nat, NEW hi \in Nat, NEW fr, NEW frame,
         NEW cut \in BOOLEAN, Going(c, lo, hi, fr, frame, cut), c.todo = <<>>, c.marked,
         ~(c.taken < Len(c.queue)), NEW d, d = EndPromote(GoLive(c))
  PROVE  Sound(d, lo, hi, fr, frame, cut) /\ d.stage = "live"
<1> DEFINE e == GoLive(c)
           v == SubSeq(c.queue, c.taken + 1, Len(c.queue))
           w == c.wire
<1>1. /\ c \in Viewer /\ Stream(c, lo, hi, fr, frame, cut)
      /\ w \in Seq(Message) /\ c.queue \in Seq(Message)
      /\ c.stage = "pending" /\ c.encoding = <<>> /\ c.taken \in Nat /\ Quiet(w)
      /\ c.mode = "ctx" /\ ~c.waiting
  BY GoingFacts
<1>2. v = <<>>
  BY <1>1, SubSeqDone
<1>3. /\ e \in Viewer /\ e.stage = "live" /\ e.queue = <<>>
      /\ e.wire = c.wire /\ e.open = c.open /\ e.overflowed = c.overflowed
      /\ e.waiting = c.waiting /\ e.mode = c.mode /\ e.encoding = c.encoding
  BY <1>1, GoLiveFields
<1>4. Pipe(c) = (w \o <<>>) \o ((<<>> \o <<>>) \o v)
  BY <1>1 DEF Pipe, Coming
<1> HIDE DEF e
<1>5. /\ d \in Viewer /\ d.promoting = FALSE /\ d.todo = <<>> /\ d.marked = FALSE
      /\ d.taken = 0 /\ d.stage = e.stage /\ d.queue = e.queue
      /\ d.wire = e.wire /\ d.open = e.open /\ d.overflowed = e.overflowed
      /\ d.waiting = e.waiting /\ d.mode = e.mode /\ d.encoding = e.encoding
  BY <1>3, EndPromoteFields DEF e
<1>6. Pipe(d) = Pipe(c)
  <2>1. Pipe(d) = w \o <<>>
    BY <1>1, <1>3, <1>5 DEF Pipe
  <2>2. <<>> \o <<>> = <<>> /\ w \o <<>> = w
    BY <1>1, MessagesHere, ConcatEmptySeq
  <2> QED BY <1>2, <1>4, <2>1, <2>2
<1>7. Stream(d, lo, hi, fr, frame, cut)
  BY <1>1, <1>3, <1>5, <1>6, FlowOfPipe DEF Stream
<1>8. Shape(d, cut)
  <2>1. Quiet(d.encoding) /\ Quiet(d.wire)
    BY <1>1, <1>3, <1>5, OfNone DEF Quiet
  <2>2. d.open => Of(d.wire, {"replay-end"}) # {}
    BY <1>3, <1>5 DEF Going
  <2>3. d.queue = <<>> /\ d.stage = "live" /\ ~d.waiting /\ d.mode = "ctx" /\ ~d.promoting
        /\ d.todo = <<>> /\ ~d.marked
    BY <1>1, <1>3, <1>5
  <2>4. d.overflowed => ~d.open
    BY <1>3, <1>5 DEF Going
  <2>5. DOMAIN <<>> = {}
    OBVIOUS
  <2> QED BY <2>1, <2>2, <2>3, <2>4, <2>5 DEF Shape
<1>9. Fits(d.queue) /\ d.stage = "live"
  BY <1>3, <1>5, NoteFits
<1> QED BY <1>5, <1>7, <1>8, <1>9 DEF Sound

(* A promotion that goes on to its next wait or its end keeps the story. *)
LEMMA AdvanceKeeps ==
  ASSUME ParametersFit, NEW c, NEW lo \in Nat, NEW hi \in Nat, NEW fr, NEW frame,
         NEW cut \in BOOLEAN, Going(c, lo, hi, fr, frame, cut), NEW d, d = Advance(c)
  PROVE  Sound(d, lo, hi, fr, frame, cut) /\ d.stage \in {"pending", "live"}
<1> DEFINE e == IF c.marked THEN c ELSE Mark(c)
<1>1. CASE c.todo # <<>>
  <2>1. d = NextReplay(c)
    BY <1>1 DEF Advance, NextReplay
  <2> QED BY <1>1, <2>1, ReplayStep
<1>2. CASE c.todo = <<>> /\ ~c.marked /\ c.overflowed
  <2>1. d = EndPromote(c)
    BY <1>2 DEF Advance
  <2>2. /\ c \in Viewer /\ Stream(c, lo, hi, fr, frame, cut) /\ Fits(c.queue)
        /\ c.stage = "pending" /\ c.encoding = <<>> /\ Quiet(c.wire) /\ ~c.waiting /\ ~c.open
        /\ \A i \in DOMAIN c.queue : c.queue[i].kind \in FanOut
    BY <1>2 DEF Going
  <2>3. /\ d \in Viewer /\ d.promoting = FALSE /\ d.todo = <<>> /\ d.marked = FALSE
        /\ d.taken = 0 /\ d.stage = c.stage /\ d.queue = c.queue
        /\ d.wire = c.wire /\ d.open = c.open /\ d.overflowed = c.overflowed
        /\ d.waiting = c.waiting /\ d.mode = c.mode /\ d.encoding = c.encoding
    BY <2>1, <2>2, EndPromoteFields
  <2>4. Stream(d, lo, hi, fr, frame, cut)
    BY <2>2, <2>3 DEF Stream
  <2>5. Quiet(d.encoding) /\ Quiet(d.wire)
    BY <2>2, <2>3, OfNone DEF Quiet
  <2>6. \A i \in DOMAIN d.queue : d.queue[i].kind \in FanOut
    BY <2>2, <2>3
  <2>7. DOMAIN <<>> = {}
    OBVIOUS
  <2>8. Shape(d, cut)
    BY <1>2, <2>2, <2>3, <2>5, <2>6, <2>7 DEF Shape
  <2> QED BY <2>2, <2>3, <2>4, <2>8 DEF Sound
<1>3. CASE c.todo = <<>> /\ (c.marked \/ ~c.overflowed)
  <2>1. Going(e, lo, hi, fr, frame, cut) /\ e.marked /\ e.todo = <<>>
    BY <1>3, MarkKeeps
  <2>2. d = IF e.taken < Len(e.queue)
            THEN NextQueued(e) ELSE EndPromote(GoLive(e))
    BY <1>3 DEF Advance, Mark, NextQueued
  <2> HIDE DEF e
  <2>3. CASE e.taken < Len(e.queue)
    <3>1. d = NextQueued(e)
      BY <2>2, <2>3
    <3> QED BY <2>1, <2>3, <3>1, QueueStep
  <2>4. CASE ~(e.taken < Len(e.queue))
    <3>1. d = EndPromote(GoLive(e))
      BY <2>2, <2>4
    <3> QED BY <2>1, <2>4, <3>1, LastStep
  <2> QED BY <2>3, <2>4
<1> QED BY <1>1, <1>2, <1>3
(* A context-takeover promotion begins.                                    *)
LEMMA CtxKeeps ==
  ASSUME ParametersFit, Whole, CanPromote, ~client.promoting, NEW todo \in {<<>>, Snapshot},
         NEW d, d = Advance([Announced("ctx") EXCEPT !.promoting = TRUE, !.todo = todo])
  PROVE  Sound(d, since, flushed, framed, frameOpen, cutShort) /\ d.stage \in {"pending", "live"}
<1> DEFINE on == TRUE
           a == Announced("ctx")
           c == [a EXCEPT !.promoting = on, !.todo = todo]
           note == <<Note("compress")>>
           m == <<Marker>>
           q == client.queue
           rest == Queue(client)
<1>1. /\ client \in Viewer /\ Shape(client, cutShort) /\ client.stage = "pending"
      /\ Stream(client, since, flushed, framed, frameOpen, cutShort) /\ Fits(client.queue)
      /\ q \in Seq(Message) /\ flushed \in Nat /\ since \in Nat /\ cutShort \in BOOLEAN
      /\ client.open \in BOOLEAN /\ client.overflowed = FALSE
  BY InvFacts DEF CanPromote
<1>2. client.wire = <<>> /\ client.marked = FALSE /\ client.taken = 0
  BY <1>1 DEF Shape, Viewer
<1>3. /\ todo \in Seq(Message) /\ \A i \in DOMAIN todo : todo[i].kind = "replay"
      /\ note \o todo \in Seq(Message) /\ Prelude(note \o todo, since)
  BY ReplayIsPrelude DEF Whole, IInv
<1>4. /\ note \in Seq(Message) /\ m \in Seq(Message)
      /\ Of(note, Boundary) = {} /\ Quiet(note)
  BY MessagesHere, OfOne DEF Boundary, Quiet
<1>5. rest = m \o q /\ rest \in Seq(Message) /\ Of(rest, {"replay"}) = {}
  BY <1>1, QueueFacts DEF Shape, Queue
<1>6. /\ a \in Viewer
      /\ a.wire = (IF client.open THEN <<>> \o note ELSE <<>>)
      /\ a.waiting = FALSE /\ a.mode = "ctx" /\ a.encoding = <<>>
      /\ a.stage = "pending" /\ a.open = client.open
      /\ a.overflowed = FALSE /\ a.queue = q /\ a.marked = FALSE /\ a.taken = 0
  BY <1>1, <1>2, AnnouncedFields
<1>7. on \in BOOLEAN /\ on = TRUE /\ <<>> \o note = note
  BY <1>4, ConcatEmptySeq
<1>8. d = Advance(c)
  OBVIOUS
<1> HIDE DEF on, a, note, m, q, rest
<1>9. c \in Viewer
  BY <1>3, <1>6, <1>7 DEF Viewer
<1>10. /\ c.promoting = on /\ c.todo = todo /\ c.wire = a.wire /\ c.waiting = a.waiting
       /\ c.mode = a.mode /\ c.encoding = a.encoding /\ c.stage = a.stage /\ c.open = a.open
       /\ c.overflowed = a.overflowed /\ c.queue = a.queue /\ c.marked = a.marked
       /\ c.taken = a.taken
  BY <1>6 DEF Viewer
<1> HIDE DEF c
<1>11. /\ c.promoting /\ c.todo = todo /\ c.wire = (IF client.open THEN note ELSE <<>>)
       /\ ~c.waiting /\ c.mode = "ctx" /\ c.encoding = <<>> /\ c.stage = "pending"
       /\ c.open = client.open /\ c.overflowed = FALSE /\ c.queue = q /\ c.marked = FALSE
       /\ c.taken = 0
  BY <1>6, <1>7, <1>10
<1>12. client.open => Pipe(c) = (note \o todo) \o rest
  <2> SUFFICES ASSUME client.open PROVE Pipe(c) = (note \o todo) \o rest
    OBVIOUS
  <2>1. SubSeq(q, 0 + 1, Len(q)) = q
    BY <1>1, SubSeqFull
  <2>2. Pipe(c) = (note \o <<>>) \o ((todo \o m) \o q)
    BY <1>11, <2>1 DEF Pipe, Coming, m
  <2>3. note \o <<>> = note
    BY <1>4, ConcatEmptySeq
  <2>4. (todo \o m) \o q = todo \o rest
    <3>1. todo \in Seq(Message) /\ m \in Seq(Message) /\ q \in Seq(Message)
      BY <1>1, <1>3, <1>4
    <3>2. (todo \o m) \o q = todo \o (m \o q)
      BY <3>1, Associative
    <3> QED BY <1>5, <3>2
  <2>5. note \o (todo \o rest) = (note \o todo) \o rest
    BY <1>3, <1>4, <1>5, Associative, SMTT(30)
  <2> QED BY <2>2, <2>3, <2>4, <2>5
<1>13. Stream(c, since, flushed, framed, frameOpen, cutShort)
  <2>1. Queue(c) = rest
    BY <1>11 DEF Queue, rest, q
  <2>2. client.open => /\ Story(rest, since, flushed, framed, FALSE)
                       /\ Ends(rest, since, flushed, frameOpen)
    BY <1>1 DEF Stream, rest
  <2>3. client.open => /\ Story(Pipe(c), since, flushed, framed, FALSE)
                       /\ Ends(Pipe(c), since, flushed, frameOpen)
    BY <1>1, <1>3, <1>5, <1>12, <2>2, StoryShift
  <2>4. Story(Pipe(c), since, flushed, framed, FALSE) =>
          Story(Pipe(c), since, flushed, framed, cutShort)
    BY DEF Story
  <2>5. ~client.open => Story(c.wire, since, flushed, framed, cutShort)
    BY <1>1, <1>2, <1>11 DEF Stream
  <2> QED BY <1>1, <1>9, <1>11, <2>1, <2>2, <2>3, <2>4, <2>5, FlowOfPipe
<1>14. Going(c, since, flushed, framed, frameOpen, cutShort)
  <2>1. Quiet(c.wire) /\ Of(c.wire, Boundary) = {}
    BY <1>4, <1>11, OfNone DEF Quiet
  <2>2. Fits(c.queue) /\ \A i \in DOMAIN c.queue : c.queue[i].kind \in FanOut
    BY <1>1, <1>11 DEF Shape, q
  <2>3. c.taken <= Len(c.queue)
    <3>1. Len(q) \in Nat
      BY <1>1, LenProperties
    <3> QED BY <1>11, <3>1
  <2> QED BY <1>3, <1>9, <1>11, <1>13, <2>1, <2>2, <2>3 DEF Going
<1> QED BY <1>1, <1>8, <1>14, AdvanceKeeps

(* A task of the encoder completes.                                        *)
LEMMA EncoderKeeps ==
  ASSUME ParametersFit, Whole, client.encoding # <<>>,
         NEW d, d = Send([client EXCEPT !.encoding = Tail(@)], <<Head(client.encoding)>>),
         NEW e, e = IF d.promoting THEN Advance(d) ELSE d
  PROVE  Sound(e, since, flushed, framed, frameOpen, cutShort) /\ e.stage \in {"pending", "live"}
         /\ client.stage # "absent"
<1> DEFINE h == <<Head(client.encoding)>>
           t == Tail(client.encoding)
           b == [client EXCEPT !.encoding = t]
           w == client.wire
           u == Coming(client)
<1>1. /\ client \in Viewer /\ Shape(client, cutShort)
      /\ client.stage \in {"absent", "pending", "live"} /\ client.mode \in {"raw", "ctx"}
      /\ Stream(client, since, flushed, framed, frameOpen, cutShort) /\ Fits(client.queue)
      /\ client.encoding \in Seq(Message) /\ w \in Seq(Message)
      /\ flushed \in Nat /\ since \in Nat /\ cutShort \in BOOLEAN /\ client.open \in BOOLEAN
      /\ client.promoting \in BOOLEAN
  BY InvFacts
<1>2. /\ h \in Seq(Message) /\ t \in Seq(Message) /\ client.encoding = h \o t
      /\ Len(t) = Len(client.encoding) - 1
  BY <1>1, HeadTail
<1>3. client.stage # "absent" /\ Quiet(w) /\ Quiet(client.encoding)
  BY <1>1 DEF Shape
<1>4. d = Send(b, h)
  OBVIOUS
<1>5. u \in Seq(Message)
  BY <1>1, PipeStarts
<1>6. Quiet(h) /\ Quiet(t) /\ Quiet(w \o h)
  <2> HIDE DEF h, t, w
  <2>1. Of(h \o t, {"exit", "killed"}) = {}
    BY <1>2, <1>3 DEF Quiet
  <2>2. Of(h, {"exit", "killed"}) = {} /\ Of(t, {"exit", "killed"}) = {}
    BY <1>2, <2>1, OfConcat
  <2>3. Of(w, {"exit", "killed"}) = {}
    BY <1>3 DEF Quiet
  <2>4. Of(w \o h, {"exit", "killed"}) = {}
    BY <1>1, <1>2, <2>2, <2>3, NoneAdded, SMTT(30)
  <2> QED BY <2>2, <2>4 DEF Quiet
<1> HIDE DEF h, t, u
<1>7. b \in Viewer
  BY <1>1, <1>2 DEF Viewer
<1>8. /\ b.encoding = t /\ b.stage = client.stage /\ b.open = client.open /\ b.wire = w
      /\ b.overflowed = client.overflowed /\ b.waiting = client.waiting /\ b.mode = client.mode
      /\ b.queue = client.queue /\ b.promoting = client.promoting /\ b.todo = client.todo
      /\ b.marked = client.marked /\ b.taken = client.taken
  BY <1>1 DEF Viewer
<1> HIDE DEF b
<1>9. /\ d \in Viewer /\ d.wire = (IF client.open THEN w \o h ELSE w)
      /\ d.encoding = t /\ d.stage = client.stage /\ d.open = client.open
      /\ d.overflowed = client.overflowed /\ d.waiting = client.waiting /\ d.mode = client.mode
      /\ d.queue = client.queue /\ d.promoting = client.promoting /\ d.todo = client.todo
      /\ d.marked = client.marked /\ d.taken = client.taken
  <2>1. /\ d \in Viewer /\ d.wire = (IF b.open THEN b.wire \o h ELSE b.wire)
        /\ d.stage = b.stage /\ d.open = b.open /\ d.overflowed = b.overflowed
        /\ d.waiting = b.waiting /\ d.mode = b.mode /\ d.queue = b.queue
        /\ d.encoding = b.encoding /\ d.promoting = b.promoting /\ d.todo = b.todo
        /\ d.marked = b.marked /\ d.taken = b.taken
    <3>1. b \in Viewer /\ h \in Seq(Message) /\ d = Send(b, h)
      BY <1>2, <1>4, <1>7
    <3> QED BY <3>1, SendFields
  <2> QED BY <1>8, <2>1
<1>10. Coming(d) = u /\ Queue(d) = Queue(client)
  BY <1>9 DEF Coming, Queue, u
<1>11. Quiet(d.wire)
  BY <1>3, <1>6, <1>9
<1>12. Of(w, {"replay-end"}) # {} => Of(d.wire, {"replay-end"}) # {}
  <2>1. w \in Seq(Message) /\ h \in Seq(Message)
    BY <1>1, <1>2
  <2> HIDE DEF w
  <2>2. Of(w, {"replay-end"}) # {} => Of(w \o h, {"replay-end"}) # {}
    BY <2>1, OfConcat
  <2> QED BY <1>9, <2>2
<1>13. w \o h \in Seq(Message) /\ w \o (h \o t) = (w \o h) \o t
  <2>1. w \in Seq(Message) /\ h \in Seq(Message) /\ t \in Seq(Message)
    BY <1>1, <1>2
  <2> HIDE DEF w
  <2> QED BY <2>1, Associative, OfConcat, SMTT(30)
<1>14. client.open => Pipe(d) = Pipe(client)
  BY <1>2, <1>9, <1>10, <1>13 DEF Pipe, u
<1>15. Stream(d, since, flushed, framed, frameOpen, cutShort)
  BY <1>1, <1>9, <1>10, <1>14, FlowOfPipe DEF Stream
<1>16. CASE client.promoting
  <2>1. client.stage = "pending"
    BY <1>1, <1>3, <1>16 DEF Shape
  <2>2. /\ client.mode = "ctx" /\ ~client.waiting /\ Len(client.encoding) = 1
        /\ client.overflowed => ~client.open
        /\ client.marked => client.todo = <<>>
        /\ \A i \in DOMAIN client.todo : client.todo[i].kind = "replay"
        /\ \A i \in DOMAIN client.queue : client.queue[i].kind \in FanOut
        /\ client.open => client.taken <= Len(client.queue)
        /\ client.open /\ Of(client.queue, Boundary) = {} =>
             Of(w, Boundary) = {} /\ Of(client.encoding, Boundary) = {}
        /\ client.open /\ client.marked => Of(w, {"replay-end"}) # {}
    BY <1>1, <1>16, <2>1 DEF Shape
  <2>3. t = <<>>
    BY <1>2, <2>2, EmptySeq
  <2>4. client.encoding = h
    BY <1>2, <2>3, ConcatEmptySeq
  <2>5. client.open /\ Of(client.queue, Boundary) = {} => Of(d.wire, Boundary) = {}
    <3>1. Of(h, Boundary) = {} => Of(w \o h, Boundary) = Of(w, Boundary)
      BY <1>1, <1>2, NoneAdded
    <3> QED BY <1>9, <2>2, <2>4, <3>1
  <2>6. Going(d, since, flushed, framed, frameOpen, cutShort)
    <3>1. /\ d.stage = "pending" /\ d.promoting /\ d.mode = "ctx" /\ ~d.waiting
          /\ d.encoding = <<>> /\ Fits(d.queue)
      BY <1>1, <1>9, <1>16, <2>1, <2>2, <2>3
    <3>2. /\ d.overflowed => ~d.open
          /\ d.marked => d.todo = <<>>
          /\ \A i \in DOMAIN d.todo : d.todo[i].kind = "replay"
          /\ \A i \in DOMAIN d.queue : d.queue[i].kind \in FanOut
          /\ d.open => d.taken <= Len(d.queue)
      BY <1>9, <2>2
    <3>3. /\ d.open /\ Of(d.queue, Boundary) = {} => Of(d.wire, Boundary) = {}
          /\ d.open /\ d.marked => Of(d.wire, {"replay-end"}) # {}
      BY <1>9, <1>12, <2>2, <2>5
    <3> QED BY <1>9, <1>11, <1>15, <3>1, <3>2, <3>3 DEF Going
  <2>7. e = Advance(d)
    BY <1>9, <1>16
  <2> QED BY <1>1, <1>3, <2>6, <2>7, AdvanceKeeps
<1>17. CASE ~client.promoting
  <2>1. client.stage = "live" /\ client.mode = "ctx"
    BY <1>1, <1>3, <1>17 DEF Shape
  <2>2. e = d
    BY <1>9, <1>17
  <2>3. Shape(d, cutShort)
    BY <1>1, <1>6, <1>9, <1>11, <1>12, <1>17, <2>1 DEF Shape
  <2> QED BY <1>1, <1>3, <1>9, <1>15, <2>1, <2>2, <2>3 DEF Sound
<1> QED BY <1>1, <1>16, <1>17

(* A viewer that is gone keeps what it was sent.                           *)
Gone(w, mode) == [NoViewer EXCEPT !.wire = w, !.mode = mode]

(* A viewer that is gone, field by field. *)
LEMMA GoneIs ==
  ASSUME NEW w \in Seq(Message), NEW mode \in {"raw", "ctx"}, NEW d, d = Gone(w, mode)
  PROVE  d = [stage |-> "absent", open |-> FALSE, wire |-> w, overflowed |-> FALSE,
              waiting |-> FALSE, mode |-> mode, queue |-> <<>>, encoding |-> <<>>,
              promoting |-> FALSE, todo |-> <<>>, marked |-> FALSE, taken |-> 0]
BY DEF Gone, NoViewer

(* A viewer without encoder that is gone. *)
LEMMA GoneRaw ==
  ASSUME NEW w \in Seq(Message), NEW d, d = [NoViewer EXCEPT !.wire = w]
  PROVE  d = Gone(w, "raw")
<1> DEFINE r == [stage |-> "absent", open |-> FALSE, wire |-> w, overflowed |-> FALSE,
                 waiting |-> FALSE, mode |-> "raw", queue |-> <<>>, encoding |-> <<>>,
                 promoting |-> FALSE, todo |-> <<>>, marked |-> FALSE, taken |-> 0]
<1>1. d = r
  BY DEF NoViewer
<1>2. Gone(w, "raw") = r
  BY GoneIs
<1> HIDE DEF r
<1> QED BY <1>1, <1>2

(* A viewer that is gone is sound if what it was sent is a story. *)
LEMMA GoneKeeps ==
  ASSUME ParametersFit, NEW w \in Seq(Message), NEW mode \in {"raw", "ctx"},
         NEW lo \in Nat, NEW hi \in Nat, NEW fr, NEW frame, NEW cut \in BOOLEAN,
         Story(w, lo, hi, fr, cut), NEW d, d = Gone(w, mode)
  PROVE  Sound(d, lo, hi, fr, frame, cut) /\ d.stage = "absent" /\ d.wire = w /\ d.mode = mode
<1> DEFINE r == [stage |-> "absent", open |-> FALSE, wire |-> w, overflowed |-> FALSE,
                 waiting |-> FALSE, mode |-> mode, queue |-> <<>>, encoding |-> <<>>,
                 promoting |-> FALSE, todo |-> <<>>, marked |-> FALSE, taken |-> 0]
<1>1. d = r
  BY GoneIs
<1>2. r \in Viewer
  BY MessagesHere DEF Viewer
<1>9. /\ r.stage = "absent" /\ r.wire = w /\ r.mode = mode /\ r.queue = <<>>
      /\ r.encoding = <<>> /\ r.todo = <<>> /\ r.open = FALSE /\ r.promoting = FALSE
      /\ r.waiting = FALSE /\ r.marked = FALSE /\ r.overflowed = FALSE
  OBVIOUS
<1> HIDE DEF r
<1>3. d \in Viewer
  BY <1>1, <1>2
<1>4. /\ d.stage = "absent" /\ d.wire = w /\ d.mode = mode /\ d.queue = <<>>
      /\ d.encoding = <<>> /\ d.todo = <<>> /\ ~d.open /\ ~d.promoting /\ ~d.waiting
      /\ ~d.marked /\ ~d.overflowed
  BY <1>1, <1>9
<1>5. DOMAIN <<>> = {}
  OBVIOUS
<1>6. Shape(d, cut)
  BY <1>4, <1>5 DEF Shape
<1>7. Stream(d, lo, hi, fr, frame, cut)
  BY <1>4 DEF Stream
<1> QED BY <1>3, <1>4, <1>6, <1>7, NoteFits DEF Sound

(* What ExitComesLast says of a wire.                                      *)
ShownIn(w, lo) ==
    IF Of(w, {"output"}) = {} THEN lo
    ELSE w[CHOOSE i \in Of(w, {"output"}) : \A j \in Of(w, {"output"}) : j <= i].to
LastWord(w, mode, lo, hi) ==
    \A i \in Of(w, {"exit", "killed"}) :
      /\ i = Len(w)
      /\ w[i].kind = "exit" /\ mode = "raw" /\ Of(w, {"replay-end"}) # {}
           => ShownIn(w, lo) = hi /\ ~InFrame(w, i)

(* The exit message comes after all the output the viewer had a right to.  *)
LEMMA LastWordIs ==
  ASSUME ParametersFit, NEW w \in Seq(Message), NEW lo \in Nat, NEW hi \in Nat, NEW mode,
         NEW kind \in {"exit", "killed"}, Quiet(w),
         kind = "exit" /\ mode = "raw" /\ Of(w, {"replay-end"}) # {} => Ends(w, lo, hi, FALSE)
  PROVE  LastWord(w \o <<Note(kind)>>, mode, lo, hi)
<1> DEFINE n == <<Note(kind)>>
           wn == w \o n
           outs == Of(w, {"output"})
<1>1. /\ n \in Seq(Message) /\ Note(kind) \in Message /\ Note(kind).kind = kind
      /\ n[1] = Note(kind) /\ Len(n) = 1
      /\ \A K : Of(n, K) = IF kind \in K THEN {1} ELSE {}
  BY MessagesHere, OfOne
<1> HIDE DEF n
<1>2. /\ Of(n, {"output"}) = {} /\ Of(n, {"replay-end"}) = {}
      /\ Of(n, {"exit", "killed"}) = {1}
  BY <1>1
<1>3. /\ wn \in Seq(Message) /\ Len(wn) = Len(w) + 1 /\ Len(w) \in Nat
      /\ \A K : /\ \A i \in Of(w, K) : wn[i] = w[i] /\ i \in Nat
                /\ \A i \in Of(n, K) : wn[Len(w) + i] = n[i]
                /\ \A i \in Of(wn, K) : \/ i \in Of(w, K)
                                        \/ \E j \in Of(n, K) : i = Len(w) + j
  <2>1. /\ wn \in Seq(Message) /\ Len(wn) = Len(w) + Len(n) /\ Len(w) \in Nat
        /\ \A K : /\ \A i \in Of(w, K) : wn[i] = w[i] /\ i \in Nat
                  /\ \A i \in Of(n, K) : wn[Len(w) + i] = n[i]
                  /\ \A i \in Of(wn, K) : \/ i \in Of(w, K)
                                          \/ \E j \in Of(n, K) : i = Len(w) + j
    <3>1. n \in Seq(Message)
      BY <1>1
    <3> QED BY <3>1, OfConcat
  <2> QED BY <1>1, <2>1
<1>4. Of(wn, {"output"}) = outs /\ Of(wn, {"replay-end"}) = Of(w, {"replay-end"})
  BY <1>1, <1>2, NoneAdded
<1> SUFFICES ASSUME NEW i \in Of(wn, {"exit", "killed"})
             PROVE  /\ i = Len(wn)
                    /\ wn[i].kind = "exit" /\ mode = "raw" /\ Of(wn, {"replay-end"}) # {}
                         => ShownIn(wn, lo) = hi /\ ~InFrame(wn, i)
  BY DEF LastWord, n
<1>5. i = Len(w) + 1 /\ wn[i] = Note(kind)
  <2>1. i \in Of(w, {"exit", "killed"}) \/ \E j \in Of(n, {"exit", "killed"}) : i = Len(w) + j
    BY <1>3
  <2>2. i = Len(w) + 1
    BY <1>2, <2>1 DEF Quiet
  <2>3. wn[Len(w) + 1] = n[1]
    BY <1>2, <1>3
  <2> QED BY <1>1, <2>2, <2>3
<1>6. ASSUME kind = "exit", mode = "raw", Of(w, {"replay-end"}) # {}
      PROVE  ShownIn(wn, lo) = hi /\ ~InFrame(wn, i)
  <2>1. LastIs(w, lo, hi) /\ ~InFrame(w, Len(w) + 1)
    BY <1>6 DEF Ends
  <2>2. ~InFrame(wn, i)
    BY <1>1, <1>3, <1>5, <2>1, FramePrefix
  <2>3. CASE outs = {}
    <3>1. hi = lo
      BY <2>1, <2>3 DEF LastIs
    <3>2. Of(wn, {"output"}) = {}
      BY <1>4, <2>3
    <3> HIDE DEF wn
    <3>3. ShownIn(wn, lo) = lo
      BY <3>2 DEF ShownIn
    <3> QED BY <2>2, <3>1, <3>3
  <2>4. CASE outs # {}
    <3>1. PICK k \in outs : w[k].to = hi /\ \A j \in outs : j <= k
      BY <2>1, <2>4 DEF LastIs
    <3> DEFINE top == CHOOSE x \in outs : \A j \in outs : j <= x
    <3>2. top \in outs /\ \A j \in outs : j <= top
      BY <3>1
    <3>3. ShownIn(wn, lo) = wn[top].to
      BY <1>4, <2>4 DEF ShownIn
    <3> HIDE DEF top
    <3>4. top = k
      <4>1. top \in Nat /\ k \in Nat /\ top <= k /\ k <= top
        BY <1>3, <3>1, <3>2
      <4> QED BY <4>1
    <3>5. wn[top] = w[k]
      BY <1>3, <3>1, <3>4
    <3> QED BY <2>2, <3>1, <3>3, <3>5
  <2> QED BY <2>2, <2>3, <2>4
<1> QED BY <1>1, <1>3, <1>4, <1>5, <1>6

(* Every viewer is told of the end: of an exit, when all output is flushed *)
(* and no frame is open.                                                   *)
MayEnd(c, kind, hi, hi2, frame) ==
    /\ kind \in {"exit", "killed"}
    /\ c.stage = "absent" => Quiet(c.wire)
    /\ kind = "exit" => hi2 = hi /\ frame = FALSE

(* The last word goes to a viewer whose story ends where the session does. *)
LEMMA SayExitKeeps ==
  ASSUME ParametersFit, NEW c, NEW lo \in Nat, NEW hi \in Nat, NEW fr, NEW frame,
         NEW cut \in BOOLEAN, Sound(c, lo, hi, fr, frame, cut),
         NEW kind, NEW hi2 \in Nat, hi <= hi2, NEW frame2, MayEnd(c, kind, hi, hi2, frame),
         NEW d, d = SayExit(c, kind)
  PROVE  Sound(d, lo, hi2, fr, frame2, cut) /\ d.stage = "absent"
         /\ LastWord(d.wire, d.mode, lo, hi2)
<1> DEFINE n == <<Note(kind)>>
           e == Send(c, n)
<1>0. /\ kind \in {"exit", "killed"}
      /\ c.stage = "absent" => Quiet(c.wire)
      /\ kind = "exit" => hi2 = hi /\ frame = FALSE
  BY DEF MayEnd
<1>1. /\ c \in Viewer /\ Shape(c, cut) /\ Fits(c.queue) /\ c.wire \in Seq(Message)
      /\ c.encoding \in Seq(Message)
      /\ c.mode \in {"raw", "ctx"} /\ Story(c.wire, lo, hi, fr, cut) /\ c.open \in BOOLEAN
      /\ c.stage \in {"absent", "pending", "live"}
  BY DEF Sound, Stream, Viewer
<1>2. Story(c.wire, lo, hi2, fr, cut)
  <2>1. \A x \in 1 .. hi : x \in fr <=> x \in fr
    OBVIOUS
  <2> QED BY <1>1, <2>1, StoryLater
<1>3. Quiet(c.wire)
  BY <1>0, <1>1 DEF Shape
<1>4. LastWord(c.wire, c.mode, lo, hi2)
  BY <1>3 DEF LastWord, Quiet
<1>5. n \in Seq(Message) /\ Of(n, FanOut) = {} /\ Of(n, {"replay", "replay-end"}) = {}
  BY <1>0, MessagesHere, OfOne DEF FanOut
<1>6. CASE c.stage = "absent"
  <2>1. d = c
    BY <1>6 DEF SayExit
  <2>2. ~c.open
    BY <1>1, <1>6 DEF Shape
  <2>3. Stream(c, lo, hi2, fr, frame2, cut)
    BY <1>2, <2>2 DEF Stream
  <2> QED BY <1>1, <1>4, <1>6, <2>1, <2>3 DEF Sound
<1>7. CASE c.stage # "absent"
  <2>1. d = TornDown(e)
    BY <1>7 DEF SayExit
  <2> HIDE DEF n
  <2>2. e.wire = (IF c.open THEN c.wire \o n ELSE c.wire) /\ e.mode = c.mode
    BY <1>1, <1>5, SendFields
  <2> HIDE DEF e
  <2>3. d = [NoViewer EXCEPT !.wire = e.wire, !.mode = e.mode]
    BY <2>1 DEF TornDown
  <2>4. Story(c.wire \o n, lo, hi2, fr, cut) /\ c.wire \o n \in Seq(Message)
    BY <1>1, <1>2, <1>5, StoryAside, OfConcat
  <2>5. e.wire \in Seq(Message) /\ Story(e.wire, lo, hi2, fr, cut)
    BY <1>1, <1>2, <2>2, <2>4
  <2>6. Sound(d, lo, hi2, fr, frame2, cut) /\ d.stage = "absent" /\ d.wire = e.wire
        /\ d.mode = e.mode
    <3>1. PICK w \in Seq(Message), mode \in {"raw", "ctx"} :
            Story(w, lo, hi2, fr, cut) /\ d = Gone(w, mode) /\ w = e.wire /\ mode = e.mode
      BY <1>1, <2>2, <2>3, <2>5 DEF Gone
    <3>2. Sound(d, lo, hi2, fr, frame2, cut) /\ d.stage = "absent" /\ d.wire = w
          /\ d.mode = mode
      <4>1. Story(w, lo, hi2, fr, cut) /\ d = Gone(w, mode)
        BY <3>1
      <4> QED BY <4>1, GoneKeeps
    <3> QED BY <3>1, <3>2
  <2>7. CASE ~c.open
    BY <1>4, <2>2, <2>6, <2>7
  <2>8. CASE c.open
    <3>1. ASSUME kind = "exit", c.mode = "raw", Of(c.wire, {"replay-end"}) # {}
          PROVE  Ends(c.wire, lo, hi2, FALSE)
      <4>1. c.stage = "live"
        <5> SUFFICES ASSUME c.stage = "pending" PROVE FALSE
          BY <1>1, <1>7
        <5>1. c.wire = <<>>
          BY <1>1, <2>8, <3>1 DEF Shape
        <5> QED BY <3>1, <5>1, OfNone
      <4>2. c.encoding = <<>>
        BY <1>1, <3>1, <4>1 DEF Shape
      <4>3. Pipe(c) = c.wire
        BY <1>1, <4>1, <4>2, ConcatEmptySeq DEF Pipe
      <4>4. Ends(Pipe(c), lo, hi, frame)
        BY <2>8 DEF Sound, Stream
      <4> QED BY <1>0, <3>1, <4>3, <4>4
    <3>2. LastWord(c.wire \o n, c.mode, lo, hi2)
      BY <1>0, <1>1, <1>3, <3>1, LastWordIs DEF n
    <3> QED BY <2>2, <2>6, <2>8, <3>2
  <2> QED BY <2>6, <2>7, <2>8
<1> QED BY <1>6, <1>7

-----------------------------------------------------------------------------
(* A viewer whose promotion was cut into                                   *)

(* The first numbers are counted by the last of them. *)
LEMMA CountTo ==
  ASSUME NEW n \in Nat
  PROVE  IsFiniteSet(1 .. n) /\ Cardinality(1 .. n) = n
BY FS_Interval

(* Two rows sent in turns are messages, and quiet if both are.             *)
LEMMA InTurns ==
  ASSUME NEW s \in Seq(Message), NEW t \in Seq(Message), Quiet(s), Quiet(t),
         NEW u \in Interleavings(s, t)
  PROVE  u \in Seq(Message) /\ Quiet(u)
<1> DEFINE n == Len(s) + Len(t)
<1>10. Len(s) \in Nat /\ Len(t) \in Nat /\ n \in Nat /\ n = Len(s) + Len(t)
  BY LenProperties
<1>1. /\ Len(s) \in Nat /\ Len(t) \in Nat /\ n \in Nat /\ n = Len(s) + Len(t)
      /\ IsFiniteSet(1 .. n) /\ Cardinality(1 .. n) = n
  <2> HIDE DEF n
  <2> QED BY <1>10, CountTo
<1>2. PICK S \in SUBSET (1 .. n) :
        /\ Cardinality(S) = Len(s)
        /\ u = [i \in 1 .. n |-> IF i \in S THEN s[Cardinality(S \cap (1 .. i))]
                                 ELSE t[Cardinality((1 .. i) \ S)]]
  BY DEF Interleavings
<1> DEFINE R == (1 .. n) \ S
<1>3. IsFiniteSet(S)
  BY <1>1, FS_Subset
<1>4. IsFiniteSet(R) /\ Cardinality(R) = Len(t)
  <2> DEFINE N == 1 .. n
  <2>1. IsFiniteSet(N) /\ Cardinality(N) = n /\ N \cap S = S
    BY <1>1
  <2>2. R = N \ S
    OBVIOUS
  <2> HIDE DEF N, R, n
  <2>3. IsFiniteSet(N \ S) /\ Cardinality(N \ S) = Cardinality(N) - Cardinality(N \cap S)
    BY <2>1, FS_Difference
  <2>4. Cardinality(R) = n - Len(s)
    BY <1>2, <2>1, <2>2, <2>3
  <2> QED BY <1>1, <2>2, <2>3, <2>4
<1> HIDE DEF n, R
<1>5. ASSUME NEW i \in S PROVE Cardinality(S \cap (1 .. i)) \in 1 .. Len(s)
  <2> DEFINE T == S \cap (1 .. i)
  <2>1. i \in T
    BY <1>1 DEF n
  <2>2. IsFiniteSet(T) /\ Cardinality(T) <= Len(s)
    BY <1>2, <1>3, FS_Intersection
  <2> HIDE DEF T
  <2>3. Cardinality(T) \in Nat /\ Cardinality(T) # 0
    BY <2>1, <2>2, FS_CardinalityType, FS_EmptySet
  <2> QED BY <1>1, <2>2, <2>3 DEF T
<1>6. ASSUME NEW i \in 1 .. n, i \notin S PROVE Cardinality((1 .. i) \ S) \in 1 .. Len(t)
  <2> DEFINE T == (1 .. i) \ S
  <2>1. i \in T /\ T \in SUBSET R
    BY <1>1, <1>6 DEF R
  <2>2. IsFiniteSet(T) /\ Cardinality(T) <= Len(t)
    BY <1>4, <2>1, FS_Subset
  <2> HIDE DEF T
  <2>3. Cardinality(T) \in Nat /\ Cardinality(T) # 0
    BY <2>1, <2>2, FS_CardinalityType, FS_EmptySet
  <2> QED BY <1>1, <2>2, <2>3 DEF T
<1>7. ASSUME NEW i \in 1 .. n
      PROVE  u[i] \in Message /\ u[i].kind \notin {"exit", "killed"}
  <2>1. CASE i \in S
    <3>1. PICK k \in 1 .. Len(s) : u[i] = s[k]
      BY <1>2, <1>5, <2>1
    <3> QED BY <3>1 DEF Quiet, Of
  <2>2. CASE i \notin S
    <3>1. PICK k \in 1 .. Len(t) : u[i] = t[k]
      BY <1>2, <1>6, <2>2
    <3> QED BY <3>1 DEF Quiet, Of
  <2> QED BY <2>1, <2>2
<1>8. DOMAIN u = 1 .. n
  BY <1>2
<1>9. u \in Seq(Message)
  <2>1. u \in [1 .. n -> Message]
    BY <1>2, <1>7
  <2> QED BY <1>1, <2>1
<1> QED BY <1>7, <1>8, <1>9 DEF Quiet, Of

(* A piece of a row is a row, and as quiet. *)
LEMMA PieceIsQuiet ==
  ASSUME NEW s \in Seq(Message), Quiet(s), NEW k \in 0 .. Len(s)
  PROVE  SubSeq(s, 1, k) \in Seq(Message) /\ Quiet(SubSeq(s, 1, k))
<1>1. Len(s) \in Nat /\ \A i \in 1 .. Len(s) : s[i] \in Message /\ s[i].kind \notin {"exit", "killed"}
  BY LenProperties DEF Quiet, Of
<1> DEFINE p == SubSeq(s, 1, k)
<1>2. p \in Seq(Message) /\ Len(p) = k /\ \A i \in 1 .. k : p[i] = s[i]
  <2>1. \A i \in 1 .. k : s[i] \in Message
    BY <1>1
  <2> QED BY <1>1, <2>1
<1> HIDE DEF p
<1>3. DOMAIN p = 1 .. k
  BY <1>2
<1> QED BY <1>1, <1>2, <1>3 DEF Quiet, Of, p

(* What follows a marker is marked. *)
LEMMA MarkedMore ==
  ASSUME ParametersFit, NEW s \in Seq(Message), NEW t \in Seq(Message), Marked(s),
         Of(t, FanOut) # {} => Of(s, {"replay-end"}) # {}
  PROVE  Marked(s \o t)
<1> SUFFICES ASSUME NEW i \in Of(s \o t, FanOut)
             PROVE  \E m \in Of(s \o t, {"replay-end"}) : m < i
  BY DEF Marked
<1>1. CASE i \in Of(s, FanOut)
  <2>1. PICK m \in Of(s, {"replay-end"}) : m < i
    BY <1>1 DEF Marked
  <2> QED BY <2>1, AfterConcat
<1>2. CASE \E j \in Of(t, FanOut) : i = Len(s) + j /\ Len(s) < i
  <2>1. PICK m \in Of(s, {"replay-end"}) : TRUE
    BY <1>2
  <2>2. m \in Of(s \o t, {"replay-end"}) /\ m \in Nat /\ m <= Len(s) /\ Len(s) \in Nat /\ i \in Nat
    BY <2>1, AfterConcat
  <2> QED BY <1>2, <2>2
<1> QED BY <1>1, <1>2, AfterConcat

(* Input that finds a promotion suspended leaves such a viewer. *)
LEMMA AgainCuts ==
  ASSUME ParametersFit, Whole, client.promoting, PromoteAgain
  PROVE  Cut(client') /\ client'.stage = "live"
<1> DEFINE w == client.wire
           all == client.queue
           note == <<Note("compress")>>
           m == <<Note("replay-end")>>
           a == Announced("raw")
<1>1. /\ client \in Viewer /\ Shape(client, cutShort) /\ client.stage = "pending"
      /\ w \in Seq(Message) /\ all \in Seq(Message) /\ client.todo \in Seq(Message)
      /\ client.taken \in Nat /\ client.open \in BOOLEAN /\ client.marked \in BOOLEAN
      /\ Story(w, since, flushed, framed, cutShort)
  BY InvFacts DEF PromoteAgain, CanPromote, Stream
<1>2. Quiet(w) /\ Marked(w)
  BY <1>1 DEF Shape, Story
<1>3. Quiet(all) /\ Quiet(client.todo)
  BY <1>1 DEF Shape, Quiet, Of, FanOut
<1>4. /\ note \in Seq(Message) /\ m \in Seq(Message) /\ Quiet(note) /\ Quiet(m)
      /\ Of(note, FanOut) = {} /\ Of(m, FanOut) = {} /\ Of(m, {"replay-end"}) = {1}
  BY MessagesHere, OfOne DEF Quiet, FanOut, Marker
<1>5. Rest \in Seq(Message) /\ Quiet(Rest)
  <2> DEFINE e == IF client.marked THEN <<>> ELSE m
             q == SubSeq(all, client.taken + 1, Len(all))
             td == client.todo
  <2>1. e \in Seq(Message) /\ Quiet(e)
    BY <1>1, <1>4, MessagesHere, OfNone DEF Quiet
  <2>2. q \in Seq(Message) /\ Quiet(q)
    <3>1. CASE ~(client.taken < Len(all))
      BY <1>1, <3>1, SubSeqDone, MessagesHere, OfNone DEF Quiet
    <3>2. CASE client.taken < Len(all)
      <4> DEFINE k == client.taken
      <4>1. k \in Nat /\ Len(all) \in Nat /\ k < Len(all)
            /\ \A i \in 1 .. Len(all) : all[i] \in Message /\ all[i].kind \notin {"exit", "killed"}
        BY <1>1, <1>3, <3>2, LenProperties DEF Quiet, Of
      <4> HIDE DEF k, all
      <4> DEFINE p == SubSeq(all, k + 1, Len(all))
      <4>2. p \in Seq(Message) /\ Len(p) = Len(all) - k /\ \A i \in 1 .. Len(all) - k : p[i] = all[k + i]
        <5>1. \A i \in k + 1 .. Len(all) : all[i] \in Message
          BY <4>1
        <5> QED BY <4>1, <5>1, SubSeqProperties
      <4> HIDE DEF p
      <4>3. DOMAIN p = 1 .. Len(all) - k
        BY <4>2
      <4>4. Quiet(p)
        BY <4>1, <4>2, <4>3 DEF Quiet, Of
      <4> QED BY <4>2, <4>4 DEF p, k
    <3> QED BY <3>1, <3>2
  <2>3. Rest = (td \o e) \o q
    BY DEF Rest
  <2> HIDE DEF e, q, td
  <2>4. td \in Seq(Message) /\ Quiet(td)
    BY <1>1, <1>3 DEF td
  <2>5. td \o e \in Seq(Message) /\ Quiet(td \o e)
    BY <2>1, <2>4, QuietConcat, OfConcat
  <2>6. (td \o e) \o q \in Seq(Message) /\ Quiet((td \o e) \o q)
    BY <2>2, <2>5, QuietConcat, OfConcat
  <2> QED BY <2>3, <2>6
<1>17. PICK n \in 0 .. Len(all), k \in Len(client.todo) .. Len(Rest) :
         \E both \in Interleavings(SubSeq(Rest, 1, k), SubSeq(all, 1, n)) :
           client' = EndPromote(GoLive(Send(a, m \o both)))
  BY DEF PromoteAgain
<1>6. PICK both \in Interleavings(SubSeq(Rest, 1, k), SubSeq(all, 1, n)) :
        client' = EndPromote(GoLive(Send(a, m \o both)))
  BY <1>17
<1>7. both \in Seq(Message) /\ Quiet(both)
  <2> DEFINE s == SubSeq(Rest, 1, k)
             t == SubSeq(all, 1, n)
  <2>1. Len(client.todo) \in Nat
    BY <1>1, LenProperties
  <2>2. s \in Seq(Message) /\ Quiet(s)
    BY <1>5, <2>1, PieceIsQuiet
  <2>3. t \in Seq(Message) /\ Quiet(t)
    BY <1>1, <1>3, PieceIsQuiet
  <2>4. both \in Interleavings(s, t)
    OBVIOUS
  <2> HIDE DEF s, t
  <2> QED BY <2>2, <2>3, <2>4, InTurns
<1> DEFINE x == m \o both
           b == Send(a, x)
           g == GoLive(b)
<1>8. x \in Seq(Message) /\ Quiet(x) /\ Of(x, {"replay-end"}) # {} /\ Marked(x)
  <2>1. x \in Seq(Message) /\ Quiet(x) /\ 1 \in Of(x, {"replay-end"})
    BY <1>4, <1>7, QuietConcat, OfConcat
  <2>2. Marked(m)
    BY <1>4 DEF Marked
  <2>3. Marked(x)
    BY <1>4, <1>7, <2>2, MarkedMore
  <2> QED BY <2>1, <2>3
<1> HIDE DEF m
<1>9. /\ a \in Viewer /\ a.wire = (IF client.open THEN w \o note ELSE w)
      /\ a.waiting = FALSE /\ a.mode = "raw" /\ a.encoding = <<>> /\ a.open = client.open
  BY <1>1, AnnouncedFields
<1>10. client' = EndPromote(g)
  BY <1>6
<1> HIDE DEF a, w, note, x
<1>11. /\ b \in Viewer /\ b.wire = (IF client.open THEN (w \o note) \o x ELSE w)
       /\ b.waiting = FALSE /\ b.mode = "raw" /\ b.encoding = <<>> /\ b.open = client.open
  BY <1>8, <1>9, SendFields
<1> HIDE DEF b
<1>12. /\ g \in Viewer /\ g.wire = b.wire /\ g.stage = "live" /\ g.queue = <<>>
       /\ g.waiting = FALSE /\ g.mode = "raw" /\ g.encoding = <<>> /\ g.open = client.open
  BY <1>11, GoLiveFields
<1> HIDE DEF g
<1>13. /\ client' \in Viewer /\ client'.wire = b.wire /\ client'.stage = "live"
       /\ client'.queue = <<>> /\ client'.waiting = FALSE /\ client'.mode = "raw"
       /\ client'.encoding = <<>> /\ client'.open = client.open /\ client'.promoting = FALSE
  <2> DEFINE d == client'
  <2>1. d = EndPromote(g)
    BY <1>10
  <2> HIDE DEF d
  <2>2. /\ d \in Viewer /\ d.promoting = FALSE /\ d.stage = g.stage /\ d.queue = g.queue
        /\ d.wire = g.wire /\ d.open = g.open /\ d.waiting = g.waiting /\ d.mode = g.mode
        /\ d.encoding = g.encoding
    BY <1>12, <2>1, EndPromoteFields
  <2> QED BY <1>12, <2>2 DEF d
<1> DEFINE v == w \o note
<1>14. v \in Seq(Message) /\ Quiet(v) /\ Marked(v)
  BY <1>1, <1>2, <1>4, QuietConcat, OfConcat, MarkedMore
<1> HIDE DEF v
<1>15. Quiet(v \o x) /\ Of(v \o x, {"replay-end"}) # {} /\ Marked(v \o x)
  <2>1. Quiet(v \o x)
    BY <1>8, <1>14, QuietConcat
  <2>2. Of(v \o x, {"replay-end"}) # {}
    BY <1>8, <1>14, OfConcat
  <2>3. Marked(v \o x)
    <3> SUFFICES ASSUME NEW i \in Of(v \o x, FanOut)
                 PROVE  \E j \in Of(v \o x, {"replay-end"}) : j < i
      BY DEF Marked
    <3>1. CASE i \in Of(v, FanOut)
      <4>1. PICK j \in Of(v, {"replay-end"}) : j < i
        BY <1>14, <3>1 DEF Marked
      <4> QED BY <1>8, <1>14, <4>1, AfterConcat
    <3>2. CASE \E k2 \in Of(x, FanOut) : i = Len(v) + k2
      <4>1. PICK k2 \in Of(x, FanOut) : i = Len(v) + k2
        BY <3>2
      <4>2. PICK j \in Of(x, {"replay-end"}) : j < k2
        BY <1>8 DEF Marked
      <4>3. /\ Len(v) + j \in Of(v \o x, {"replay-end"}) /\ Len(v) \in Nat
            /\ j \in Nat /\ k2 \in Nat
        BY <1>8, <1>14, AfterConcat
      <4> QED BY <4>1, <4>2, <4>3
    <3> QED BY <1>8, <1>14, <3>1, <3>2, AfterConcat
  <2> QED BY <2>1, <2>2, <2>3
<1>16. Quiet(client'.wire) /\ Marked(client'.wire)
       /\ (client.open => Of(client'.wire, {"replay-end"}) # {})
  BY <1>1, <1>2, <1>11, <1>13, <1>15 DEF v
<1> QED BY <1>13, <1>16 DEF Cut

(* Such a viewer is sent what there is, as it is. *)
LEMMA CutSend ==
  ASSUME ParametersFit, NEW c, Cut(c), c.stage = "live", NEW t \in Seq(Message), Quiet(t),
         NEW d, d = Send(c, t)
  PROVE  Cut(d) /\ d.stage = "live"
<1>1. /\ c \in Viewer /\ c.wire \in Seq(Message) /\ c.open \in BOOLEAN
  BY DEF Cut, Viewer
<1>2. /\ d \in Viewer /\ d.wire = (IF c.open THEN c.wire \o t ELSE c.wire)
      /\ d.stage = c.stage /\ d.open = c.open /\ d.waiting = c.waiting /\ d.mode = c.mode
      /\ d.queue = c.queue /\ d.encoding = c.encoding /\ d.promoting = c.promoting
  BY <1>1, SendFields
<1>3. CASE c.open
  <2>1. Quiet(c.wire \o t) /\ Marked(c.wire \o t) /\ Of(c.wire \o t, {"replay-end"}) # {}
    BY <1>1, <1>3, QuietConcat, MarkedMore, OfConcat DEF Cut
  <2> QED BY <1>2, <1>3, <2>1 DEF Cut
<1>4. CASE ~c.open
  BY <1>2, <1>4 DEF Cut
<1> QED BY <1>1, <1>3, <1>4

(* A flush goes to it past no queue and no encoder. *)
LEMMA CutBroadcast ==
  ASSUME ParametersFit, flushed \in 0 .. MaxChunks, NEW n \in flushed .. MaxChunks,
         NEW opens \in BOOLEAN, NEW closes \in BOOLEAN, Cut(client),
         NEW d, d = Broadcast(client, Flush(opens, closes, n))
  PROVE  Cut(d) /\ d.stage = client.stage /\ (d.stage = "absent" => d = client)
<1> DEFINE f == Flush(opens, closes, n)
<1>1. f \in Seq(Message) /\ Quiet(f)
  <2>1. f \in Seq(Message) /\ Fanning(f)
    BY FlushFans
  <2> QED BY <2>1 DEF Quiet, Of, Fanning, FanOut
<1>2. CASE client.stage = "live"
  <2>1. d = Send(client, f)
    BY <1>2 DEF Cut, Broadcast
  <2> HIDE DEF f
  <2> QED BY <1>1, <1>2, <2>1, CutSend
<1>3. CASE client.stage = "absent"
  BY <1>3 DEF Broadcast
<1> QED BY <1>2, <1>3 DEF Cut

(* It is gone with what it was sent. *)
LEMMA CutGone ==
  ASSUME ParametersFit, NEW w \in Seq(Message), NEW mode \in {"raw", "ctx"}, Marked(w),
         NEW d, d = Gone(w, mode)
  PROVE  Cut(d) /\ d.stage = "absent" /\ d.wire = w /\ d.mode = mode
<1> DEFINE r == [stage |-> "absent", open |-> FALSE, wire |-> w, overflowed |-> FALSE,
                 waiting |-> FALSE, mode |-> mode, queue |-> <<>>, encoding |-> <<>>,
                 promoting |-> FALSE, todo |-> <<>>, marked |-> FALSE, taken |-> 0]
<1>1. d = r
  BY GoneIs
<1>2. r \in Viewer
  BY MessagesHere DEF Viewer
<1>3. /\ r.stage = "absent" /\ r.wire = w /\ r.mode = mode /\ r.queue = <<>>
      /\ r.encoding = <<>> /\ r.open = FALSE /\ r.promoting = FALSE /\ r.waiting = FALSE
  OBVIOUS
<1> HIDE DEF r
<1> QED BY <1>1, <1>2, <1>3 DEF Cut

(* The last word goes to it too. *)
LEMMA CutEnds ==
  ASSUME ParametersFit, NEW c, Cut(c), c.stage = "absent" => Quiet(c.wire),
         NEW kind \in {"exit", "killed"}, NEW d, d = SayExit(c, kind)
  PROVE  /\ Cut(d) /\ d.stage = "absent"
         /\ \A i \in Of(d.wire, {"exit", "killed"}) : i = Len(d.wire)
<1> DEFINE n == <<Note(kind)>>
           e == Send(c, n)
<1>1. /\ c \in Viewer /\ c.wire \in Seq(Message) /\ c.mode \in {"raw", "ctx"}
      /\ c.open \in BOOLEAN /\ Quiet(c.wire) /\ Marked(c.wire)
  BY DEF Cut, Viewer
<1>2. n \in Seq(Message) /\ Of(n, FanOut) = {} /\ Of(n, {"exit", "killed"}) = {1} /\ Len(n) = 1
  BY MessagesHere, OfOne DEF FanOut
<1>3. CASE c.stage = "absent"
  BY <1>1, <1>3 DEF SayExit, Quiet
<1>4. CASE c.stage # "absent"
  <2>1. d = TornDown(e)
    BY <1>4 DEF SayExit
  <2> HIDE DEF n
  <2>2. e.wire = (IF c.open THEN c.wire \o n ELSE c.wire) /\ e.mode = c.mode
    BY <1>1, <1>2, SendFields
  <2> HIDE DEF e
  <2>3. Marked(c.wire \o n) /\ c.wire \o n \in Seq(Message)
    BY <1>1, <1>2, MarkedMore, OfConcat
  <2>4. \A i \in Of(c.wire \o n, {"exit", "killed"}) : i = Len(c.wire \o n)
    BY <1>1, <1>2, OfConcat DEF Quiet
  <2>5. PICK w \in Seq(Message), mode \in {"raw", "ctx"} :
          w = e.wire /\ mode = e.mode /\ Marked(w) /\ d = Gone(w, mode)
    BY <1>1, <2>1, <2>2, <2>3 DEF Gone, TornDown
  <2>6. Cut(d) /\ d.stage = "absent" /\ d.wire = w
    <3>1. Marked(w) /\ d = Gone(w, mode)
      BY <2>5
    <3> QED BY <3>1, CutGone
  <2>7. \A i \in Of(w, {"exit", "killed"}) : i = Len(w)
    BY <1>1, <2>2, <2>4, <2>5 DEF Quiet
  <2> QED BY <2>6, <2>7
<1> QED BY <1>3, <1>4
-----------------------------------------------------------------------------
(* The steps                                                               *)

(* The session, as TypeOK has it.                                          *)
SessionOK ==
    /\ {alive, sync, timer, frameOpen, cutShort} \subseteq BOOLEAN
    /\ next \in 0 .. MaxChunks /\ flushed \in 0 .. next
    /\ since \in 0 .. flushed /\ framed \subseteq 1 .. flushed
    /\ attaches \in 0 .. MaxAttaches
    /\ burst \in {"idle", "burst", "stream"}

(* The invariant of the parts a step is followed through.                  *)
LEMMA Together ==
  ASSUME ParametersFit, SessionOK', BatchIsTimed', Ended',
         Fine(client', since', flushed', framed', frameOpen', cutShort')
  PROVE  IInv'
<1>1. client' \in Viewer /\ Fits(client'.queue)
      /\ (client'.stage # "pending" => client'.queue = <<>>)
  <2>1. CASE cutShort'
    BY <2>1, NoteFits DEF Fine, Cut
  <2>2. CASE ~cutShort'
    BY <2>2 DEF Fine, Sound, Shape
  <2> QED BY <2>1, <2>2
<1>2. /\ client'.stage \in {"absent", "pending", "live"}
      /\ {client'.open, client'.overflowed, client'.waiting, client'.promoting, client'.marked}
           \subseteq BOOLEAN
      /\ client'.mode \in {"raw", "ctx"}
      /\ {client'.wire, client'.queue, client'.encoding, client'.todo} \subseteq Seq(Message)
  BY <1>1 DEF Viewer
<1>4. TypeOK'
  BY <1>1, <1>2 DEF TypeOK, SessionOK
<1> QED BY <1>4 DEF IInv

(* What the invariant says of the session while it lives. *)
LEMMA SessionFacts ==
  ASSUME ParametersFit, IInv
  PROVE  /\ SessionOK /\ BatchIsTimed /\ Ended
         /\ alive => Quiet(client.wire)
         /\ client.stage # "absent" => alive
BY DEF IInv, TypeOK, SessionOK, Ended, Quiet

(* While the session lives nobody has heard of its end.                    *)
LEMMA StillGoing ==
  ASSUME alive', Quiet(client'.wire)
  PROVE  Ended'
BY DEF Ended, ExitComesLast, Quiet

(* No viewer that is there has heard of it. *)
LEMMA QuietHere ==
  ASSUME NEW c, NEW lo, NEW hi, NEW fr, NEW frame, NEW cut, Fine(c, lo, hi, fr, frame, cut),
         c.stage # "absent"
  PROVE  Quiet(c.wire)
BY DEF Fine, Cut, Sound, Shape

(* What is not cut into is sound, and the other way round. *)
LEMMA WholeIsFine ==
  ASSUME NEW c, NEW lo, NEW hi, NEW fr, NEW frame, NEW cut, ~cut
  PROVE  Fine(c, lo, hi, fr, frame, cut) <=> Sound(c, lo, hi, fr, frame, cut)
BY DEF Fine

(* A step of the viewer alone.                                             *)
LEMMA ViewerStep ==
  ASSUME ParametersFit, IInv, alive, UNCHANGED session, framed' = framed,
         since' \in {since, flushed}, cutShort' \in BOOLEAN, attaches' \in 0 .. MaxAttaches,
         Fine(client', since', flushed, framed, frameOpen, cutShort'),
         client'.stage = "absent" => client'.wire = client.wire
  PROVE  IInv'
<1>1. SessionOK /\ BatchIsTimed /\ Quiet(client.wire)
  BY SessionFacts
<1>2. /\ alive' = alive /\ next' = next /\ flushed' = flushed /\ burst' = burst
      /\ sync' = sync /\ timer' = timer /\ frameOpen' = frameOpen
  BY DEF session
<1>3. SessionOK'
  <2>1. flushed \in 0 .. next /\ since \in 0 .. flushed /\ next \in 0 .. MaxChunks
        /\ MaxChunks \in Nat
    BY <1>1 DEF SessionOK, ParametersFit
  <2>2. since' \in 0 .. flushed
    BY <2>1
  <2> QED BY <1>1, <1>2, <2>2 DEF SessionOK
<1>4. BatchIsTimed'
  BY <1>1, <1>2 DEF BatchIsTimed
<1>5. Fine(client', since', flushed', framed', frameOpen', cutShort')
  BY <1>2
<1>6. Quiet(client'.wire)
  BY <1>1, QuietHere
<1>7. Ended'
  BY <1>2, <1>6, StillGoing
<1> QED BY <1>3, <1>4, <1>5, <1>7, Together

(* A flush leaves every viewer as it should be. *)
LEMMA BroadcastFine ==
  ASSUME ParametersFit, flushed \in 0 .. MaxChunks, framed \in SUBSET (1 .. flushed),
         frameOpen \in BOOLEAN, cutShort \in BOOLEAN, since \in 0 .. flushed,
         NEW n \in flushed .. MaxChunks, NEW opens \in BOOLEAN, NEW closes \in BOOLEAN,
         Fine(client, since, flushed, framed, frameOpen, cutShort),
         Flushed(opens, closes, n), NEW d, d = Broadcast(client, Flush(opens, closes, n))
  PROVE  /\ Fine(d, since, n, framed', frameOpen', cutShort)
         /\ d.stage = client.stage
         /\ d.stage = "absent" => d = client
<1>1. CASE cutShort
  BY <1>1, CutBroadcast DEF Fine
<1>2. CASE ~cutShort
  <2>1. Sound(client, since, flushed, framed, frameOpen, cutShort)
    BY <1>2 DEF Fine
  <2>2. /\ Sound(d, since, n, framed', frameOpen', cutShort) /\ d.stage = client.stage
        /\ d.stage = "absent" => d = client
    BY <2>1, BroadcastKeeps
  <2> QED BY <1>2, <2>2 DEF Fine
<1> QED BY <1>1, <1>2

(* A viewer that was told of the end. *)
Over(d, lo, hi, fr, frame, cut) ==
    /\ Fine(d, lo, hi, fr, frame, cut) /\ d.stage = "absent"
    /\ \A i \in Of(d.wire, {"exit", "killed"}) : i = Len(d.wire)
    /\ cut \/ LastWord(d.wire, d.mode, lo, hi)

(* So does the word of the end. *)
LEMMA SayExitFine ==
  ASSUME ParametersFit, NEW c, NEW lo \in Nat, NEW hi \in Nat, NEW fr, NEW frame,
         NEW cut \in BOOLEAN, Fine(c, lo, hi, fr, frame, cut),
         NEW kind, NEW hi2 \in Nat, hi <= hi2, NEW frame2, MayEnd(c, kind, hi, hi2, frame),
         NEW d, d = SayExit(c, kind)
  PROVE  Over(d, lo, hi2, fr, frame2, cut)
<1>1. CASE cut
  <2>1. Cut(d) /\ d.stage = "absent" /\ \A i \in Of(d.wire, {"exit", "killed"}) : i = Len(d.wire)
    BY <1>1, CutEnds DEF Fine, MayEnd
  <2> QED BY <1>1, <2>1 DEF Fine, Over
<1>2. CASE ~cut
  <2>1. Sound(c, lo, hi, fr, frame, cut)
    BY <1>2 DEF Fine
  <2>2. Sound(d, lo, hi2, fr, frame2, cut) /\ d.stage = "absent" /\ LastWord(d.wire, d.mode, lo, hi2)
    BY <2>1, SayExitKeeps
  <2> QED BY <1>2, <2>2 DEF Fine, LastWord, Over
<1> QED BY <1>1, <1>2

(* A step that flushes, up to the last chunk written.                      *)
LEMMA FlushStep ==
  ASSUME ParametersFit, IInv, alive, alive' = alive, next' \in next .. MaxChunks,
         NEW opens \in BOOLEAN, NEW closes \in BOOLEAN,
         client' = Broadcast(client, Flush(opens, closes, next')), Flushed(opens, closes, next'),
         sync' \in BOOLEAN, timer' \in BOOLEAN, closes \/ timer',
         burst' \in {"idle", "burst", "stream"}, UNCHANGED <<since, cutShort, attaches>>
  PROVE  IInv'
<1>1. SessionOK /\ BatchIsTimed /\ Quiet(client.wire)
  BY SessionFacts
<1>2. /\ MaxChunks \in Nat /\ next \in Nat /\ flushed \in Nat /\ since \in Nat
      /\ flushed <= next /\ since <= flushed /\ next' \in Nat /\ next <= next'
      /\ next' <= MaxChunks /\ framed \in SUBSET (1 .. flushed)
      /\ frameOpen \in BOOLEAN /\ cutShort \in BOOLEAN
  BY <1>1 DEF SessionOK, ParametersFit
<1>3. /\ flushed' = next' /\ frameOpen' = ((frameOpen \/ opens) /\ ~closes)
      /\ framed' = (IF opens \/ frameOpen THEN framed \cup (flushed + 1 .. next') ELSE framed)
  BY DEF Flushed
<1>4. Fine(client, since, flushed, framed, frameOpen, cutShort)
  BY DEF IInv
<1>5. /\ Fine(client', since, next', framed', frameOpen', cutShort)
      /\ client'.stage = client.stage
      /\ client'.stage = "absent" => client' = client
  <2>1. flushed \in 0 .. MaxChunks /\ since \in 0 .. flushed /\ next' \in flushed .. MaxChunks
    BY <1>2
  <2> QED BY <1>2, <1>4, <2>1, BroadcastFine
<1>6. SessionOK'
  <2>1. next' \in 0 .. MaxChunks /\ flushed' \in 0 .. next' /\ since' \in 0 .. flushed'
    BY <1>2, <1>3
  <2>2. framed' \subseteq 1 .. flushed'
    BY <1>2, <1>3
  <2>3. frameOpen' \in BOOLEAN
    BY <1>2, <1>3
  <2>4. alive' \in BOOLEAN /\ cutShort' \in BOOLEAN /\ attaches' \in 0 .. MaxAttaches
    BY <1>1 DEF SessionOK
  <2> QED BY <2>1, <2>2, <2>3, <2>4 DEF SessionOK
<1>7. BatchIsTimed'
  BY <1>2, <1>3 DEF BatchIsTimed
<1>8. Quiet(client'.wire)
  BY <1>1, <1>5, QuietHere
<1>9. Ended'
  BY <1>8, StillGoing
<1>10. Fine(client', since', flushed', framed', frameOpen', cutShort')
  BY <1>3, <1>5
<1> QED BY <1>6, <1>7, <1>9, <1>10, Together

(* The shell writes. *)
LEMMA ChunkStep ==
  ASSUME ParametersFit, IInv, NEW ended \in BOOLEAN, NEW long \in BOOLEAN, Chunk(ended, long)
  PROVE  IInv'
<1>1. SessionOK /\ BatchIsTimed /\ Quiet(client.wire)
  BY SessionFacts DEF Chunk
<1>2. /\ alive /\ alive' = alive /\ next' = next + 1 /\ sync' \in BOOLEAN
      /\ UNCHANGED <<since, cutShort, attaches>>
  BY DEF Chunk
<1>3. next' \in next .. MaxChunks /\ next \in Nat /\ MaxChunks \in Nat /\ flushed \in Nat
      /\ flushed <= next
  BY <1>1 DEF Chunk, SessionOK, ParametersFit
<1>4. CASE EndOfUpdate
  <2> DEFINE opens == burst # "stream" /\ Full(next')
             on == TRUE
  <2>1. opens \in BOOLEAN /\ on \in BOOLEAN /\ on
    OBVIOUS
  <2>2. /\ client' = Broadcast(client, Flush(opens, on, next')) /\ Flushed(opens, on, next')
        /\ burst' = "idle" /\ timer' = FALSE
    BY <1>4 DEF EndOfUpdate
  <2> HIDE DEF opens, on
  <2> QED BY <1>2, <1>3, <2>1, <2>2, FlushStep
<1>5. CASE FullBatch(long)
  <2> DEFINE stream == burst = "stream" \/ (~sync' /\ long)
             opens == ~stream
  <2>1. stream \in BOOLEAN /\ opens \in BOOLEAN
    OBVIOUS
  <2>2. /\ client' = Broadcast(client, Flush(opens, stream, next'))
        /\ Flushed(opens, stream, next')
        /\ burst' \in {"burst", "stream"} /\ timer' = TRUE
    BY <1>5 DEF FullBatch
  <2> HIDE DEF stream, opens
  <2> QED BY <1>2, <1>3, <2>1, <2>2, FlushStep
<1>6. CASE SmallBatch
  <2>1. /\ client' = client /\ flushed' = flushed /\ frameOpen' = frameOpen
        /\ framed' = framed /\ timer' = TRUE
        /\ burst' \in {"idle", "burst", "stream"}
    BY <1>1, <1>6 DEF SmallBatch, SessionOK
  <2>2. SessionOK'
    <3>1. next' \in 0 .. MaxChunks /\ flushed \in 0 .. next'
      BY <1>2, <1>3
    <3> QED BY <1>1, <1>2, <2>1, <3>1 DEF SessionOK
  <2>3. BatchIsTimed'
    BY <2>1 DEF BatchIsTimed
  <2>4. Ended'
    BY <1>1, <1>2, <2>1, StillGoing
  <2>5. Fine(client', since', flushed', framed', frameOpen', cutShort')
    BY <1>2, <2>1 DEF IInv
  <2> QED BY <2>2, <2>3, <2>4, <2>5, Together
<1> QED BY <1>4, <1>5, <1>6 DEF Chunk

(* The batch's timer flushes. *)
LEMMA BatchTimerStep ==
  ASSUME ParametersFit, IInv, BatchTimer
  PROVE  IInv'
<1> DEFINE on == TRUE
           off == FALSE
<1>1. SessionOK
  BY SessionFacts
<1>2. on \in BOOLEAN /\ off \in BOOLEAN /\ on
  OBVIOUS
<1>3. /\ client' = Broadcast(client, Flush(off, on, next')) /\ Flushed(off, on, next')
  BY DEF BatchTimer
<1> HIDE DEF on, off
<1>4. /\ alive /\ alive' = alive /\ next' = next /\ sync' = sync
      /\ timer' \in BOOLEAN /\ burst' \in {"idle", "burst", "stream"}
      /\ UNCHANGED <<since, cutShort, attaches>>
  BY DEF BatchTimer
<1>5. next' \in next .. MaxChunks /\ sync' \in BOOLEAN
  BY <1>1, <1>4 DEF SessionOK, ParametersFit
<1> QED BY <1>2, <1>3, <1>4, <1>5, FlushStep

(* A viewer is promoted while it is pending, so that nothing was cut yet. *)
LEMMA StillWhole ==
  ASSUME IInv, client.stage = "pending" \/ client.encoding # <<>>
  PROVE  Whole
BY DEF Whole, IInv, Fine, Cut

(* A viewer is ready and says what it can decompress. *)
LEMMA ReadyStep ==
  ASSUME ParametersFit, IInv, NEW mode \in {"raw", "ctx"}, NEW replay \in BOOLEAN,
         Ready(mode, replay)
  PROVE  IInv'
<1> DEFINE todo == IF replay THEN Snapshot ELSE <<>>
<1>1. /\ ~client.promoting /\ CanPromote /\ cutShort' = cutShort /\ framed' = framed
      /\ UNCHANGED session /\ since' = since /\ attaches' = attaches
      /\ IF mode = "ctx"
         THEN client' = Advance([Announced("ctx") EXCEPT !.promoting = TRUE, !.todo = todo])
         ELSE client' = Finish(Announced("raw"), todo)
  BY DEF Ready, PromoteCtx, PromoteRaw
<1>2. todo \in {<<>>, Snapshot} /\ Whole /\ ~cutShort
  BY <1>1, StillWhole DEF CanPromote, Whole
<1>3. cutShort \in BOOLEAN /\ attaches \in 0 .. MaxAttaches /\ alive
  BY <1>1, SessionFacts DEF CanPromote, SessionOK
<1> HIDE DEF todo
<1>4. /\ Sound(client', since, flushed, framed, frameOpen, cutShort)
      /\ client'.stage \in {"pending", "live"}
  <2>1. CASE mode = "ctx"
    BY <1>1, <1>2, <2>1, CtxKeeps
  <2>2. CASE mode # "ctx"
    BY <1>1, <1>2, <2>2, RawKeeps
  <2> QED BY <2>1, <2>2
<1>5. Fine(client', since, flushed, framed, frameOpen, cutShort)
  BY <1>2, <1>4, WholeIsFine
<1> QED BY <1>1, <1>3, <1>4, <1>5, ViewerStep

(* A viewer that does not say it is ready is promoted all the same. *)
LEMMA PromoteTimeoutStep ==
  ASSUME ParametersFit, IInv, PromoteTimeout
  PROVE  IInv'
<1>1. /\ client.waiting /\ CanPromote /\ cutShort' = cutShort /\ framed' = framed
      /\ UNCHANGED session /\ since' = since /\ attaches' = attaches
      /\ client' = Finish(Announced("raw"), <<>>)
  BY DEF PromoteTimeout, PromoteRaw
<1>2. Whole /\ ~cutShort
  BY <1>1, StillWhole DEF CanPromote, Whole
<1>3. /\ cutShort \in BOOLEAN /\ attaches \in 0 .. MaxAttaches /\ alive
      /\ ~client.promoting
  BY <1>1, <1>2, SessionFacts, InvFacts DEF CanPromote, SessionOK, Shape
<1>4. /\ Sound(client', since, flushed, framed, frameOpen, cutShort)
      /\ client'.stage = "live"
  BY <1>1, <1>2, <1>3, RawKeeps
<1>5. Fine(client', since, flushed, framed, frameOpen, cutShort)
  BY <1>2, <1>4, WholeIsFine
<1> QED BY <1>1, <1>3, <1>4, <1>5, ViewerStep

(* Keys of a viewer that is still pending promote it. *)
LEMMA InputStep ==
  ASSUME ParametersFit, IInv, Input
  PROVE  IInv'
<1>1. /\ CanPromote /\ cutShort' = (cutShort \/ client.promoting) /\ framed' = framed
      /\ UNCHANGED session /\ since' = since /\ attaches' = attaches
  BY DEF Input, PromoteRaw, PromoteAgain
<1>2. Whole /\ ~cutShort
  BY <1>1, StillWhole DEF CanPromote, Whole
<1>3. /\ cutShort \in BOOLEAN /\ attaches \in 0 .. MaxAttaches /\ alive
      /\ client.promoting \in BOOLEAN
  BY <1>1, <1>2, SessionFacts, InvFacts DEF CanPromote, SessionOK
<1>4. Fine(client', since, flushed, framed, frameOpen, cutShort') /\ client'.stage = "live"
  <2>1. CASE client.promoting
    <3>1. Cut(client') /\ client'.stage = "live"
      BY <1>2, <2>1, AgainCuts DEF Input
    <3> QED BY <1>1, <2>1, <3>1 DEF Fine
  <2>2. CASE ~client.promoting
    <3>1. client' = Finish(Announced("raw"), <<>>)
      BY <2>2 DEF Input, PromoteRaw
    <3>2. /\ Sound(client', since, flushed, framed, frameOpen, cutShort)
          /\ client'.stage = "live"
      BY <1>1, <1>2, <2>2, <3>1, RawKeeps
    <3>3. cutShort' = cutShort
      BY <1>1, <1>3, <2>2
    <3> QED BY <1>2, <3>2, <3>3, WholeIsFine
  <2> QED BY <1>3, <2>1, <2>2
<1>5. cutShort' \in BOOLEAN
  BY <1>1, <1>3
<1> QED BY <1>1, <1>3, <1>4, <1>5, ViewerStep

(* An encoder finishes. *)
LEMMA EncoderStepStep ==
  ASSUME ParametersFit, IInv, EncoderStep
  PROVE  IInv'
<1> DEFINE d == Send([client EXCEPT !.encoding = Tail(@)], <<Head(client.encoding)>>)
<1>1. /\ client.encoding # <<>> /\ cutShort' = cutShort /\ framed' = framed
      /\ UNCHANGED session /\ since' = since /\ attaches' = attaches
      /\ client' = IF d.promoting THEN Advance(d) ELSE d
  BY DEF EncoderStep
<1>2. d = Send([client EXCEPT !.encoding = Tail(@)], <<Head(client.encoding)>>)
  OBVIOUS
<1> HIDE DEF d
<1>3. Whole /\ ~cutShort
  BY <1>1, StillWhole DEF Whole
<1>4. /\ Sound(client', since, flushed, framed, frameOpen, cutShort)
      /\ client'.stage \in {"pending", "live"} /\ client.stage # "absent"
  BY <1>1, <1>2, <1>3, EncoderKeeps
<1>5. cutShort \in BOOLEAN /\ attaches \in 0 .. MaxAttaches /\ alive
  BY <1>4, SessionFacts DEF SessionOK
<1>6. Fine(client', since, flushed, framed, frameOpen, cutShort)
  BY <1>3, <1>4, WholeIsFine
<1> QED BY <1>1, <1>4, <1>5, <1>6, ViewerStep

(* A viewer attaches. *)
LEMMA AttachStep ==
  ASSUME ParametersFit, IInv, Attach
  PROVE  IInv'
<1>1. Sound(client', since', flushed, framed, frameOpen, cutShort')
  BY AttachKeeps DEF IInv
<1>2. SessionOK
  BY SessionFacts
<1>3. /\ alive /\ UNCHANGED session /\ framed' = framed /\ since' = flushed
      /\ cutShort' = FALSE /\ attaches < MaxAttaches /\ attaches' = attaches + 1
      /\ client'.stage = "pending"
  BY DEF Attach, NoViewer
<1>4. cutShort' \in BOOLEAN /\ attaches' \in 0 .. MaxAttaches
  <2>1. attaches \in 0 .. MaxAttaches /\ MaxAttaches \in Nat
    BY <1>2 DEF SessionOK, ParametersFit
  <2>2. attaches' \in 0 .. MaxAttaches
    BY <1>3, <2>1
  <2>3. cutShort' \in BOOLEAN
    BY <1>3
  <2> QED BY <2>2, <2>3
<1>5. Fine(client', since', flushed, framed, frameOpen, cutShort')
  BY <1>1, <1>3, WholeIsFine
<1> QED BY <1>3, <1>4, <1>5, ViewerStep

(* A socket closes before the server is told. *)
LEMMA SocketClosesStep ==
  ASSUME ParametersFit, IInv, SocketCloses
  PROVE  IInv'
<1> DEFINE off == FALSE
<1>1. /\ client.open /\ cutShort' = cutShort /\ framed' = framed
      /\ UNCHANGED session /\ since' = since /\ attaches' = attaches
      /\ client' = [client EXCEPT !.open = off]
  BY DEF SocketCloses
<1>2. off \in BOOLEAN /\ ~off
  OBVIOUS
<1> HIDE DEF off
<1>3. client \in Viewer
  BY DEF IInv, Fine, Cut, Sound
<1>4. client' \in Viewer
  BY <1>1, <1>2, <1>3 DEF Viewer
<1>5. /\ client'.open = off /\ client'.stage = client.stage /\ client'.wire = client.wire
      /\ client'.overflowed = client.overflowed /\ client'.waiting = client.waiting
      /\ client'.mode = client.mode /\ client'.queue = client.queue
      /\ client'.encoding = client.encoding /\ client'.promoting = client.promoting
      /\ client'.todo = client.todo /\ client'.marked = client.marked
      /\ client'.taken = client.taken
  BY <1>1, <1>3 DEF Viewer
<1>6. Fine(client', since, flushed, framed, frameOpen, cutShort)
  <2>1. CASE cutShort
    <3>1. Cut(client) /\ client.stage # "absent"
      BY <1>1, <2>1 DEF IInv, Fine, Cut
    <3>2. Cut(client')
      BY <1>2, <1>4, <1>5, <3>1 DEF Cut
    <3> QED BY <2>1, <3>2 DEF Fine
  <2>2. CASE ~cutShort
    <3>1. /\ Shape(client, cutShort) /\ Fits(client.queue)
          /\ Stream(client, since, flushed, framed, frameOpen, cutShort)
      BY <2>2, InvFacts DEF Whole
    <3>2. Shape(client', cutShort)
      BY <1>2, <1>5, <3>1 DEF Shape
    <3>3. Stream(client', since, flushed, framed, frameOpen, cutShort)
      BY <1>2, <1>5, <3>1 DEF Stream
    <3> QED BY <1>4, <1>5, <2>2, <3>1, <3>2, <3>3 DEF Fine, Sound
  <2> QED BY <2>1, <2>2
<1>7. client.stage # "absent"
  BY <1>1 DEF IInv, Fine, Cut, Sound, Shape
<1>8. cutShort \in BOOLEAN /\ attaches \in 0 .. MaxAttaches /\ alive
  BY <1>7, SessionFacts DEF SessionOK
<1> QED BY <1>1, <1>5, <1>6, <1>8, ViewerStep

(* The server is told of a socket that closed. *)
LEMMA DetachStep ==
  ASSUME ParametersFit, IInv, Detach
  PROVE  IInv'
<1>1. /\ client.stage # "absent" /\ cutShort' = cutShort /\ framed' = framed
      /\ UNCHANGED session /\ since' = since /\ attaches' = attaches
      /\ client' = [NoViewer EXCEPT !.wire = client.wire]
  BY DEF Detach
<1>2. PICK w \in Seq(Message) : w = client.wire
  BY DEF IInv, TypeOK
<1>3. client' = Gone(w, "raw")
  <2>1. client' = [NoViewer EXCEPT !.wire = w]
    BY <1>1, <1>2
  <2> QED BY <2>1, GoneRaw
<1> DEFINE d == client'
           f == frameOpen
           mode == "raw"
<1>4. d = Gone(w, mode) /\ mode \in {"raw", "ctx"}
  BY <1>3
<1> HIDE DEF d, f, mode
<1>5. Fine(d, since, flushed, framed, f, cutShort) /\ d.wire = w
  <2>1. CASE cutShort
    <3>1. Marked(w)
      BY <1>2, <2>1 DEF IInv, Fine, Cut
    <3>2. Cut(d) /\ d.wire = w
      BY <1>4, <3>1, CutGone
    <3> QED BY <2>1, <3>2 DEF Fine
  <2>2. CASE ~cutShort
    <3>1. /\ Story(w, since, flushed, framed, cutShort)
          /\ since \in Nat /\ flushed \in Nat /\ cutShort \in BOOLEAN
      BY <1>2, <2>2, InvFacts DEF Whole, Stream
    <3>2. Sound(d, since, flushed, framed, f, cutShort) /\ d.wire = w
      BY <1>4, <3>1, GoneKeeps
    <3> QED BY <2>2, <3>2, WholeIsFine
  <2> QED BY <2>1, <2>2
<1>6. Fine(client', since, flushed, framed, frameOpen, cutShort) /\ client'.wire = client.wire
  BY <1>2, <1>5 DEF d, f
<1>7. cutShort \in BOOLEAN /\ attaches \in 0 .. MaxAttaches /\ alive
  BY <1>1, SessionFacts DEF SessionOK
<1> QED BY <1>1, <1>6, <1>7, ViewerStep

(* The end of the session leaves no viewer and no timer.                   *)
LEMMA EndStep ==
  ASSUME ParametersFit, IInv, EndSession, flushed' = next, frameOpen' \in BOOLEAN,
         framed' \subseteq 1 .. next,
         Over(client', since, next, framed', frameOpen', cutShort)
  PROVE  IInv'
<1>1. SessionOK /\ MaxChunks \in Nat
  BY SessionFacts DEF ParametersFit
<1>2. /\ alive' = FALSE /\ timer' = FALSE /\ burst' = "idle" /\ next' = next /\ sync' = sync
      /\ since' = since /\ cutShort' = cutShort /\ attaches' = attaches
  BY DEF EndSession
<1>3. SessionOK'
  <2>1. next \in 0 .. next /\ since \in 0 .. next
    BY <1>1 DEF SessionOK
  <2> QED BY <1>1, <1>2, <2>1 DEF SessionOK
<1>4. BatchIsTimed'
  BY <1>2 DEF BatchIsTimed
<1>5. /\ cutShort' \/ LastWord(client'.wire, client'.mode, since', next')
      /\ \A i \in Of(client'.wire, {"exit", "killed"}) : i = Len(client'.wire)
      /\ client'.stage = "absent"
  BY <1>2 DEF Over
<1>6. ExitComesLast'
  BY <1>5 DEF ExitComesLast, LastWord, Shown, ShownIn, Has
<1>7. Ended'
  BY <1>2, <1>5, <1>6 DEF Ended
<1>8. Fine(client', since', flushed', framed', frameOpen', cutShort')
  BY <1>2 DEF Over
<1> QED BY <1>3, <1>4, <1>7, <1>8, Together

(* The shell exits and everyone is told. *)
LEMMA ShellExitsStep ==
  ASSUME ParametersFit, IInv, ShellExits
  PROVE  IInv'
<1> DEFINE opens == burst # "stream" /\ Full(next)
           on == TRUE
           b == Broadcast(client, Flush(opens, on, next))
<1>1. opens \in BOOLEAN /\ on \in BOOLEAN /\ on
  OBVIOUS
<1>2. /\ alive /\ client' = SayExit(b, "exit") /\ Flushed(opens, on, next) /\ EndSession
  BY DEF ShellExits
<1>3. b = Broadcast(client, Flush(opens, on, next))
  OBVIOUS
<1> HIDE DEF opens, on, b
<1>4. /\ flushed \in 0 .. MaxChunks /\ since \in 0 .. flushed /\ next \in flushed .. MaxChunks
      /\ framed \in SUBSET (1 .. flushed) /\ frameOpen \in BOOLEAN /\ cutShort \in BOOLEAN
      /\ Fine(client, since, flushed, framed, frameOpen, cutShort)
      /\ next \in Nat /\ since \in Nat /\ flushed \in Nat /\ flushed <= next
  BY DEF IInv, TypeOK, ParametersFit
<1>5. /\ Fine(b, since, next, framed', frameOpen', cutShort)
      /\ b.stage = "absent" => b = client
  BY <1>1, <1>2, <1>3, <1>4, BroadcastFine
<1>6. /\ flushed' = next /\ frameOpen' = FALSE
      /\ framed' = (IF opens \/ frameOpen THEN framed \cup (flushed + 1 .. next) ELSE framed)
  BY <1>1, <1>2 DEF Flushed
<1>7. framed' \subseteq 1 .. next
  BY <1>4, <1>6
<1>8. b.stage = "absent" => Quiet(b.wire)
  BY <1>2, <1>5, SessionFacts
<1>9. Over(client', since, next, framed', frameOpen', cutShort)
  <2> DEFINE d == client'
             f == frameOpen'
             fr == framed'
             kind == "exit"
             lo == since
             hi == next
  <2>1. /\ d = SayExit(b, kind) /\ MayEnd(b, kind, hi, hi, f)
        /\ lo \in Nat /\ hi \in Nat /\ hi <= hi /\ cutShort \in BOOLEAN
        /\ Fine(b, lo, hi, fr, f, cutShort)
    BY <1>2, <1>4, <1>5, <1>6, <1>8 DEF MayEnd
  <2> HIDE DEF d, f, fr, kind, lo, hi
  <2>2. Over(d, lo, hi, fr, f, cutShort)
    BY <2>1, SayExitFine
  <2> QED BY <2>2 DEF d, f, fr, lo, hi
<1> QED BY <1>2, <1>6, <1>7, <1>9, EndStep

(* The session is killed. *)
LEMMA KillStep ==
  ASSUME ParametersFit, IInv, Kill
  PROVE  IInv'
<1>1. /\ alive /\ client' = SayExit(client, "killed") /\ flushed' = next
      /\ frameOpen' = frameOpen /\ framed' = framed /\ EndSession
  BY DEF Kill
<1>2. /\ framed \in SUBSET (1 .. flushed) /\ frameOpen \in BOOLEAN /\ cutShort \in BOOLEAN
      /\ Fine(client, since, flushed, framed, frameOpen, cutShort)
      /\ next \in Nat /\ since \in Nat /\ flushed \in Nat /\ flushed <= next
  BY DEF IInv, TypeOK, ParametersFit
<1>3. Quiet(client.wire)
  BY <1>1, SessionFacts
<1>4. Over(client', since, next, framed, frameOpen, cutShort)
  <2> DEFINE c == client
             d == client'
             f == frameOpen
             fr == framed
             kind == "killed"
             lo == since
             hi == flushed
             hi2 == next
  <2>1. /\ d = SayExit(c, kind) /\ MayEnd(c, kind, hi, hi2, f)
        /\ lo \in Nat /\ hi \in Nat /\ hi2 \in Nat /\ hi <= hi2 /\ cutShort \in BOOLEAN
        /\ Fine(c, lo, hi, fr, f, cutShort)
    BY <1>1, <1>2, <1>3 DEF MayEnd
  <2> HIDE DEF c, d, f, fr, kind, lo, hi, hi2
  <2>2. Over(d, lo, hi2, fr, f, cutShort)
    BY <2>1, SayExitFine
  <2> QED BY <2>2 DEF d, f, fr, lo, hi2
<1>5. framed' \subseteq 1 .. next
  BY <1>1, <1>2
<1> QED BY <1>1, <1>2, <1>4, <1>5, EndStep
-----------------------------------------------------------------------------
(* The invariant                                                           *)

(* The invariant holds at the start. *)
LEMMA InitHolds ==
  ASSUME ParametersFit, Init
  PROVE  IInv
<1>1. /\ alive = TRUE /\ next = 0 /\ flushed = 0 /\ burst = "idle" /\ sync = FALSE
      /\ timer = FALSE /\ frameOpen = FALSE /\ client = NoViewer /\ since = 0
      /\ framed = {} /\ cutShort = FALSE /\ attaches = 0
  BY DEF Init
<1> DEFINE w == <<>>
<1>2. w \in Seq(Message) /\ \A K : Of(w, K) = {}
  BY MessagesHere, OfNone
<1> HIDE DEF w
<1>3. Story(w, 0, 0, {}, FALSE)
  BY <1>2 DEF Story, Real, Linked, Marked, Rising, Replayed, Framed
<1>4. NoViewer = Gone(w, "raw")
  <2> DEFINE r == [stage |-> "absent", open |-> FALSE, wire |-> w, overflowed |-> FALSE,
                   waiting |-> FALSE, mode |-> "raw", queue |-> <<>>, encoding |-> <<>>,
                   promoting |-> FALSE, todo |-> <<>>, marked |-> FALSE, taken |-> 0]
  <2>1. NoViewer = r
    BY DEF NoViewer, w
  <2>2. Gone(w, "raw") = r
    BY <1>2, GoneIs
  <2> HIDE DEF r
  <2> QED BY <2>1, <2>2
<1> DEFINE d == client
           mode == "raw"
<1>5. d = Gone(w, mode) /\ mode \in {"raw", "ctx"} /\ d = client
  BY <1>1, <1>4
<1> HIDE DEF d, mode
<1>6. Sound(d, 0, 0, {}, FALSE, FALSE) /\ d.stage = "absent" /\ d.wire = w
  <2> DEFINE no == FALSE
             none == 0
             nil == {}
  <2>1. /\ no \in BOOLEAN /\ none \in Nat /\ Story(w, none, none, nil, no)
        /\ d = Gone(w, mode) /\ w \in Seq(Message) /\ mode \in {"raw", "ctx"}
    BY <1>2, <1>3, <1>5
  <2> HIDE DEF no, none, nil
  <2>2. Sound(d, none, none, nil, no, no) /\ d.stage = "absent" /\ d.wire = w
    BY <2>1, GoneKeeps
  <2> QED BY <2>2 DEF no, none, nil
<1>7. Sound(client, since, flushed, framed, frameOpen, cutShort)
      /\ Fine(client, since, flushed, framed, frameOpen, cutShort)
  BY <1>1, <1>5, <1>6 DEF Fine
<1>8. client.stage = "absent" /\ Of(client.wire, {"exit", "killed"}) = {}
  BY <1>2, <1>5, <1>6
<1>9. Ended
  BY <1>1, <1>8 DEF Ended, ExitComesLast
<1>10. BatchIsTimed
  BY <1>1 DEF BatchIsTimed
<1>11. client \in Viewer /\ Fits(client.queue) /\ Shape(client, cutShort)
  BY <1>7 DEF Sound
<1>12. /\ client.stage \in {"absent", "pending", "live"}
       /\ {client.open, client.overflowed, client.waiting, client.promoting, client.marked}
            \subseteq BOOLEAN
       /\ client.mode \in {"raw", "ctx"}
       /\ {client.wire, client.queue, client.encoding, client.todo} \subseteq Seq(Message)
  BY <1>11 DEF Viewer
<1>13. client.stage # "pending" => client.queue = <<>>
  BY <1>11 DEF Shape
<1>14. /\ {alive, sync, timer, frameOpen, cutShort} \subseteq BOOLEAN
       /\ next \in 0 .. MaxChunks /\ flushed \in 0 .. next
       /\ since \in 0 .. flushed /\ framed \subseteq 1 .. flushed
       /\ attaches \in 0 .. MaxAttaches /\ burst \in {"idle", "burst", "stream"}
  <2>1. MaxChunks \in Nat /\ MaxAttaches \in Nat
    BY DEF ParametersFit
  <2>2. {alive, sync, timer, frameOpen, cutShort} \subseteq BOOLEAN
    BY <1>1
  <2>3. next \in 0 .. MaxChunks /\ attaches \in 0 .. MaxAttaches
    BY <1>1, <2>1
  <2>4. flushed \in 0 .. next /\ since \in 0 .. flushed
    BY <1>1
  <2>5. framed \subseteq 1 .. flushed /\ burst \in {"idle", "burst", "stream"}
    BY <1>1
  <2> QED BY <2>2, <2>3, <2>4, <2>5
<1>15. TypeOK
  BY <1>11, <1>12, <1>13, <1>14 DEF TypeOK
<1> QED BY <1>7, <1>9, <1>10, <1>15 DEF IInv

(* Nothing happens. *)
LEMMA StutterStep ==
  ASSUME ParametersFit, IInv, UNCHANGED vars
  PROVE  IInv'
<1>1. /\ alive' = alive /\ next' = next /\ flushed' = flushed /\ burst' = burst
      /\ sync' = sync /\ timer' = timer /\ frameOpen' = frameOpen /\ client' = client
      /\ since' = since /\ framed' = framed /\ cutShort' = cutShort /\ attaches' = attaches
  BY DEF vars, session
<1>2. SessionOK'
  BY <1>1 DEF IInv, TypeOK, SessionOK
<1>3. BatchIsTimed' /\ Ended'
  BY <1>1 DEF IInv, BatchIsTimed, Ended, ExitComesLast, Shown, Has
<1>4. Fine(client', since', flushed', framed', frameOpen', cutShort')
  BY <1>1 DEF IInv
<1> QED BY <1>2, <1>3, <1>4, Together

(* Every step keeps the invariant. *)
LEMMA Step ==
  ASSUME ParametersFit, IInv, [Next]_vars
  PROVE  IInv'
<1>1. CASE \E ended, long \in BOOLEAN : Chunk(ended, long)
  BY <1>1, ChunkStep
<1>2. CASE BatchTimer
  BY <1>2, BatchTimerStep
<1>3. CASE Attach
  BY <1>3, AttachStep
<1>4. CASE \E mode \in {"raw", "ctx"}, replay \in BOOLEAN : Ready(mode, replay)
  BY <1>4, ReadyStep
<1>5. CASE PromoteTimeout
  BY <1>5, PromoteTimeoutStep
<1>6. CASE Input
  BY <1>6, InputStep
<1>7. CASE EncoderStep
  BY <1>7, EncoderStepStep
<1>9. CASE SocketCloses
  BY <1>9, SocketClosesStep
<1>10. CASE Detach
  BY <1>10, DetachStep
<1>11. CASE ShellExits
  BY <1>11, ShellExitsStep
<1>12. CASE Kill
  BY <1>12, KillStep
<1>13. CASE UNCHANGED vars
  BY <1>13, StutterStep
<1> QED BY <1>1, <1>2, <1>3, <1>4, <1>5, <1>6, <1>7, <1>9, <1>10, <1>11, <1>12,
           <1>13 DEF Next

(* The invariant always holds. *)
LEMMA Inductive == ASSUME ParametersFit PROVE Spec => []IInv
<1>1. Init => IInv
  BY InitHolds
<1>2. IInv /\ [Next]_vars => IInv'
  BY Step
<1> QED BY <1>1, <1>2, PTL DEF Spec

-----------------------------------------------------------------------------
(* What a viewer may rely on                                               *)

(* What the invariant says of the wire.                                    *)
LEMMA WireFacts ==
  ASSUME ParametersFit, Whole
  PROVE  /\ Story(client.wire, since, flushed, framed, cutShort)
         /\ client.wire \in Seq(Message) /\ since \in Nat
         /\ \A K : \A i \in Of(client.wire, K) :
              i \in Nat /\ client.wire[i].from \in Nat /\ client.wire[i].to \in Nat
BY InvFacts, MessageFields DEF Stream

(* Output that rises and is linked comes without a gap or a repetition.    *)
LEMMA Unbroken ==
  ASSUME NEW w, NEW lo \in Nat, NEW hi \in Nat, Real(w, lo, hi), Linked(w, lo),
         Rising(w, "output"),
         \A i \in Of(w, {"output"}) : i \in Nat /\ w[i].from \in Nat /\ w[i].to \in Nat
  PROVE  /\ Consecutive(w, "output")
         /\ \A i \in Of(w, {"output"}) :
              (\A j \in Of(w, {"output"}) : i <= j) => w[i].from = lo + 1
<1> DEFINE outs == Of(w, {"output"})
<1>1. ASSUME NEW i \in outs, NEW j \in outs, i < j, \A k \in outs : k <= i \/ j <= k
      PROVE  w[j].from = w[i].to + 1
  <2>1. w[i].to < w[j].from /\ lo < w[i].from /\ w[i].from <= w[i].to
    BY <1>1 DEF Rising, Real
  <2>2. w[j].from # lo + 1
    BY <2>1
  <2>3. PICK k \in outs : k < j /\ w[k].to + 1 = w[j].from
    BY <2>2 DEF Linked
  <2>4. k <= i
    BY <1>1, <2>3
  <2>5. CASE k = i
    BY <2>3, <2>5
  <2>6. CASE k < i
    <3>1. w[k].to < w[i].from
      BY <2>6 DEF Rising
    <3> QED BY <2>1, <2>3, <3>1
  <2> QED BY <2>4, <2>5, <2>6
<1>2. Consecutive(w, "output")
  BY <1>1 DEF Consecutive
<1>3. ASSUME NEW i \in outs, \A j \in outs : i <= j
      PROVE  w[i].from = lo + 1
  BY <1>3 DEF Linked
<1> QED BY <1>2, <1>3

(* So does a replay.                                                       *)
LEMMA UnbrokenReplay ==
  ASSUME NEW w, NEW lo, Rising(w, "replay"), Replayed(w, lo),
         \A i \in Of(w, {"replay"}) : i \in Nat /\ w[i].from \in Nat /\ w[i].to \in Nat
  PROVE  Consecutive(w, "replay")
<1> DEFINE seen == Of(w, {"replay"})
<1> SUFFICES ASSUME NEW i \in seen, NEW j \in seen, i < j, \A k \in seen : k <= i \/ j <= k
             PROVE  w[j].from = w[i].to + 1
  BY DEF Consecutive
<1>1. w[i].to < w[j].from /\ w[i].from = w[i].to
  BY DEF Rising, Replayed
<1>2. PICK k \in seen : k < j /\ w[k].to + 1 = w[j].from
  BY DEF Replayed
<1>3. k <= i
  BY <1>2
<1>4. CASE k = i
  BY <1>2, <1>4
<1>5. CASE k < i
  <2>1. w[k].to < w[i].from
    BY <1>5 DEF Rising
  <2> QED BY <1>1, <1>2, <2>1
<1> QED BY <1>3, <1>4, <1>5

(* What is on the wire comes without a gap, after the replay.              *)
LEMMA SoNothingIsLost == ASSUME ParametersFit, IInv PROVE NothingLost
<1> DEFINE w == client.wire
<1> SUFFICES ASSUME Whole PROVE NothingLost
  BY DEF NothingLost, Whole
<1>1. /\ Story(w, since, flushed, framed, cutShort) /\ since \in Nat /\ flushed \in Nat
      /\ \A K : \A i \in Of(w, K) : i \in Nat /\ w[i].from \in Nat /\ w[i].to \in Nat
      /\ ~cutShort
  BY WireFacts, InvFacts DEF Whole
<1>2. /\ Real(w, since, flushed) /\ Linked(w, since) /\ Rising(w, "output")
      /\ Rising(w, "replay") /\ Replayed(w, since)
  BY <1>1 DEF Story
<1> HIDE DEF w
<1>3. /\ Consecutive(w, "output")
      /\ \A i \in Of(w, {"output"}) :
           (\A j \in Of(w, {"output"}) : i <= j) => w[i].from = since + 1
  BY <1>1, <1>2, Unbroken
<1>4. Consecutive(w, "replay")
  BY <1>1, <1>2, UnbrokenReplay
<1>5. Of(w, {"replay"}) # {} /\ Of(w, {"replay-end"}) # {} =>
        \E i \in Of(w, {"replay"}) : w[i].to >= since
  BY <1>1, <1>2 DEF Replayed
<1> QED BY <1>3, <1>4, <1>5 DEF NothingLost, Has, w

(* The marker is before what is live and behind the replay.                *)
LEMMA SoMarkerDivides == ASSUME ParametersFit, IInv PROVE MarkerDivides
<1> DEFINE w == client.wire
           marks == Of(w, {"replay-end"})
<1>1. CASE cutShort
  <2>1. Cut(client)
    BY <1>1 DEF IInv, Fine
  <2> QED BY <1>1, <2>1 DEF MarkerDivides, Cut, Marked, FanOut
<1>2. CASE ~cutShort
  <2>1. /\ Story(w, since, flushed, framed, cutShort) /\ Shape(client, cutShort)
        /\ ~cutShort
    BY <1>2, WireFacts, InvFacts DEF Whole
  <2>2. Replayed(w, since) /\ Marked(w)
    BY <2>1 DEF Story
  <2>3. ReplayComesFirst
    BY <2>2 DEF Replayed, ReplayComesFirst, Of, FanOut
  <2>4. \A i, j \in marks : i = j
    BY <2>2 DEF Replayed
  <2>5. \A i \in Of(w, FanOut) : \E m \in marks : m < i
    BY <2>2 DEF Marked
  <2>6. client.stage = "live" /\ client.open => marks # {}
    BY <2>1 DEF Shape
  <2> QED BY <2>3, <2>4, <2>5, <2>6 DEF MarkerDivides, FanOut
<1> QED BY <1>1, <1>2

(* What is between two boundaries was flushed in a frame.                  *)
LEMMA SoFramesBracketed == ASSUME ParametersFit, IInv PROVE FramesBracketed
<1> DEFINE w == client.wire
<1> SUFFICES ASSUME Whole PROVE FramesBracketed
  BY DEF FramesBracketed, Whole
<1>1. /\ Story(w, since, flushed, framed, cutShort) /\ w \in Seq(Message)
      /\ \A K : \A i \in Of(w, K) : i \in Nat /\ w[i].from \in Nat /\ w[i].to \in Nat
      /\ ~cutShort
  BY WireFacts DEF Whole
<1>2. Framed(w, framed) /\ Real(w, since, flushed)
  BY <1>1 DEF Story
<1>3. ASSUME NEW i \in Of(w, {"output"})
      PROVE  InFrame(w, i) <=> w[i].from .. w[i].to \subseteq framed
  <2>1. w[i].from \in w[i].from .. w[i].to
    BY <1>1, <1>2 DEF Real
  <2>2. IF InFrame(w, i) THEN w[i].from .. w[i].to \subseteq framed
        ELSE w[i].from .. w[i].to \cap framed = {}
    BY <1>2 DEF Framed
  <2> QED BY <2>1, <2>2
<1>4. client.stage = "live" /\ client.open /\ client.encoding = <<>>
        => (frameOpen <=> InFrame(w, Len(w) + 1))
  <2> SUFFICES ASSUME client.stage = "live", client.open, client.encoding = <<>>
               PROVE  frameOpen <=> InFrame(w, Len(w) + 1)
    OBVIOUS
  <2>1. Ends(Pipe(client), since, flushed, frameOpen)
    BY InvFacts DEF Stream
  <2>2. Pipe(client) = w
    BY <1>1, ConcatEmptySeq DEF Pipe
  <2> QED BY <2>1, <2>2 DEF Ends
<1>5. /\ \A i \in Of(w, {"output-frame-start"}) : ~InFrame(w, i)
      /\ \A i \in Of(w, {"output-frame-end"}) : InFrame(w, i)
  BY <1>2 DEF Framed
<1> QED BY <1>3, <1>4, <1>5 DEF FramesBracketed

(* Every variable keeps its type, the queue of a pending viewer its limits *)
(* (session-output-transport.ts), and it is empty at every other stage.    *)
THEOREM TypeCorrect == ASSUME ParametersFit PROVE Spec => []TypeOK
<1>1. IInv => TypeOK
  BY DEF IInv
<1> QED BY <1>1, Inductive, PTL

(* No byte is lost, repeated or reordered on its way to a viewer, through  *)
(* the hold, the replay, both promotions and the encoder, and the replay   *)
(* meets the live output (promote and broadcastBytes in                    *)
(* session-client-hub.ts).                                                 *)
THEOREM NothingIsLost == ASSUME ParametersFit PROVE Spec => []NothingLost
<1>1. IInv => NothingLost
  BY SoNothingIsLost
<1> QED BY <1>1, Inductive, PTL

(* replay-end divides the replay from the live output, comes once, and no  *)
(* viewer is live without it (promote in session-client-hub.ts).           *)
THEOREM MarkerAlwaysDivides == ASSUME ParametersFit PROVE Spec => []MarkerDivides
<1>1. IInv => MarkerDivides
  BY SoMarkerDivides
<1> QED BY <1>1, Inductive, PTL

(* The boundaries of atomic frames alternate, hold exactly what was        *)
(* flushed inside a frame, and leave a viewer whose encoder is empty in a  *)
(* frame exactly when the session is (session-output-coordinator.ts).      *)
THEOREM FramesAreBracketed == ASSUME ParametersFit PROVE Spec => []FramesBracketed
<1>1. IInv => FramesBracketed
  BY SoFramesBracketed
<1> QED BY <1>1, Inductive, PTL

(* While a batch is unflushed or a frame is open, the timer that will      *)
(* flush and close is armed (scheduleOutputBatchFlush in                   *)
(* session-output-coordinator.ts).                                         *)
THEOREM BatchAlwaysTimed == ASSUME ParametersFit PROVE Spec => []BatchIsTimed
<1>1. IInv => BatchIsTimed
  BY DEF IInv
<1> QED BY <1>1, Inductive, PTL

(* The word of the end is the last a viewer hears, after all the output if *)
(* nothing is left in a compressor (handleExit in session-manager.ts).     *)
THEOREM ExitIsLast == ASSUME ParametersFit PROVE Spec => []ExitComesLast
<1>1. IInv => ExitComesLast
  BY DEF IInv, Ended
<1> QED BY <1>1, Inductive, PTL
=============================================================================
