-------------------------- MODULE TerminalPageProofs --------------------------
(***************************************************************************)
(* Proofs about the page of LivenessParts, for any number of shells, lost  *)
(* connections, exits and choices of the user and any limit of the queue:  *)
(* keys go to the shell on the screen, and a shell that is known dead is   *)
(* left alone.                                                             *)
(***************************************************************************)
EXTENDS LivenessParts, SequenceTheorems, FiniteSetTheorems, TLAPS

PageGone == Page!Started \ alive

(* The page was told of shell s over l, or is before it takes frame i. *)
Introduced(l, live, s, i) ==
    \/ l.told /\ live = s
    \/ \E j \in DOMAIN l.down : j < i /\ l.down[j].t = "session" /\ l.down[j].of = s

(* What is on its way over l speaks of one shell, and nothing but the end  *)
(* comes after its exit.                                                   *)
PageInOrder(l, live, told, gone) ==
    /\ \A i \in DOMAIN l.hold : l.hold[i].t = "output" /\ l.hold[i].of = l.at
    /\ l.at # Page!NoShell => Introduced(l, live, l.at, Len(l.down) + 1)
    /\ \A i \in DOMAIN l.down :
         /\ l.down[i].t \in {"output", "exit"} => Introduced(l, live, l.down[i].of, i)
         /\ l.down[i].t = "session" =>
              /\ ~l.told /\ l.down[i].of \in Page!Shells \ told
              /\ \A j \in DOMAIN l.down : l.down[j].t = "session" => i = j
         /\ l.down[i].t = "exit" =>
              /\ l.down[i].of \in gone
              /\ \A j \in DOMAIN l.down : i < j => l.down[j].t = "close"
         /\ l.down[i].t \in {"exit", "close"} => l.phase = "closed"

FramesInOrder == PageInOrder(link, life.live, dead, PageGone)

(* The ids the page keeps are of shells that may live. *)
IdsKept ==
    /\ alive \subseteq Page!Started /\ dead \subseteq PageGone
    /\ life.next = Page!NoShell
    /\ life.live \notin dead /\ bar \notin dead
    /\ link.told => life.exited \/ (life.live # Page!NoShell /\ bar = life.live)

(* The socket, and who waits for another. *)
SocketKept ==
    /\ link.phase \in {"opening", "closed"} <=> link.at = Page!NoShell
    /\ link.at = Page!NoShell => link.hold = <<>>
    /\ link.phase = "opening" => ~link.told /\ link.down = <<>> /\ link.sid \notin dead
    /\ life.exited =>
         link.phase = "closed" /\ \A i \in DOMAIN link.down : link.down[i].t = "close"
    /\ timer \/ life.resuming => link.phase = "closed" /\ link.down = <<>> /\ ~life.exited
    /\ ~(timer /\ life.resuming)

OfShell(q, live) ==
    live # Page!NoShell => \A i \in DOMAIN q : q[i].t = "output" => q[i].of = live

(* The screen is the shell's, or will be replaced and keys are held back. *)
ScreenKept ==
    /\ OfShell(os.queue, life.live) /\ OfShell(os.kept, life.live)
    /\ \A i \in DOMAIN os.kept : os.kept[i].t = "output"
    /\ ~os.on => os = Page!Disposed
    /\ ~replace /\ life.live # Page!NoShell => screen.of = life.live
    /\ link.told /\ os.on /\ replace =>
         os.inReplay /\ os.reset /\ os.suppress /\ ~os.draining
    /\ link.told => link.at \in {life.live, Page!NoShell}

PageInv == Page!TypeOK /\ IdsKept /\ SocketKept /\ FramesInOrder /\ ScreenKept

-----------------------------------------------------------------------------
(* Lemmas about frames                                                     *)

(* The ids are integers. *)
LEMMA IdsAre ==
  ASSUME Page!ParametersFit
  PROVE  /\ MaxShells \in Nat /\ QueueMax \in Nat /\ Page!NoShell \in Page!Ids
         /\ Page!NoShell \notin Page!Shells /\ Page!Unknown \notin Nat
         /\ Page!Shells \subseteq Nat
         /\ \A s \in Page!Ids : s = Page!NoShell \/ s \in Page!Shells
BY DEF Page!ParametersFit, Page!Shells, Page!Ids, Page!NoShell, Page!Unknown

(* The frames without a chunk. *)
LEMMA FramesHere ==
  ASSUME Page!ParametersFit
  PROVE  /\ \A t \in {"open", "replay-end", "close"} :
              Page!Event(t) \in Page!Frame /\ Page!Event(t).t = t
                /\ Page!Event(t).of = Page!NoShell
         /\ \A t \in {"session", "exit"}, s \in Page!Shells :
              LET m == [Page!Event(t) EXCEPT !.of = s]
              IN  m \in Page!Frame /\ m.t = t /\ m.of = s
         /\ \A s \in Page!Shells, m, n \in Nat :
              Page!Output(s, m, n) \in Page!Frame /\ Page!Output(s, m, n).t = "output"
                /\ Page!Output(s, m, n).of = s
BY IdsAre DEF Page!Event, Page!Output, Page!Frame, Page!Ids

(* A sequence after another. *)
LEMMA Joined ==
  ASSUME NEW s \in Seq(Page!Frame), NEW t \in Seq(Page!Frame)
  PROVE  /\ s \o t \in Seq(Page!Frame) /\ Len(s \o t) = Len(s) + Len(t)
         /\ Len(s) \in Nat /\ Len(t) \in Nat
         /\ DOMAIN s = 1 .. Len(s) /\ DOMAIN t = 1 .. Len(t)
         /\ DOMAIN (s \o t) = 1 .. Len(s) + Len(t)
         /\ \A i \in DOMAIN s : i \in DOMAIN (s \o t) /\ (s \o t)[i] = s[i]
         /\ \A i \in DOMAIN (s \o t) : i \in DOMAIN s
              \/ (i - Len(s) \in DOMAIN t /\ (s \o t)[i] = t[i - Len(s)])
<1>1. Len(s) \in Nat /\ Len(t) \in Nat /\ DOMAIN s = 1 .. Len(s) /\ DOMAIN t = 1 .. Len(t)
  BY LenProperties
<1>2. /\ s \o t \in Seq(Page!Frame) /\ Len(s \o t) = Len(s) + Len(t)
      /\ \A i \in 1 .. Len(s) + Len(t) :
           (s \o t)[i] = IF i <= Len(s) THEN s[i] ELSE t[i - Len(s)]
  BY ConcatProperties
<1>3. DOMAIN (s \o t) = 1 .. Len(s) + Len(t)
  BY <1>2, LenProperties
<1> QED BY <1>1, <1>2, <1>3

(* Writing one more piece at the end is writing it to what came before. *)
LEMMA PageAssociative ==
  ASSUME NEW s \in Seq(Page!Frame), NEW t \in Seq(Page!Frame), NEW u \in Seq(Page!Frame)
  PROVE  (s \o t) \o u = s \o (t \o u)
BY ConcatAssociative

(* A sequence and its first frame. *)
LEMMA PageHeadTail ==
  ASSUME NEW s \in Seq(Page!Frame), s # <<>>
  PROVE  /\ Head(s) \in Page!Frame /\ Head(s) = s[1] /\ 1 \in DOMAIN s
         /\ Tail(s) \in Seq(Page!Frame) /\ Len(s) \in Nat \ {0} /\ Len(Tail(s)) = Len(s) - 1
         /\ DOMAIN s = 1 .. Len(s) /\ DOMAIN Tail(s) = 1 .. Len(s) - 1
         /\ \A i \in DOMAIN Tail(s) : i + 1 \in DOMAIN s /\ Tail(s)[i] = s[i + 1]
<1>1. /\ Len(s) \in Nat /\ DOMAIN s = 1 .. Len(s) /\ s \in [1 .. Len(s) -> Page!Frame]
      /\ Len(s) # 0
  BY LenProperties, EmptySeq
<1>2. Head(s) = s[1] /\ Head(s) \in Page!Frame /\ 1 \in DOMAIN s
  BY <1>1
<1>3. /\ Tail(s) \in Seq(Page!Frame) /\ Len(Tail(s)) = Len(s) - 1
      /\ \A i \in 1 .. Len(Tail(s)) : Tail(s)[i] = s[i + 1]
  BY HeadTailProperties
<1>4. DOMAIN Tail(s) = 1 .. Len(s) - 1
  BY <1>3, LenProperties
<1> QED BY <1>1, <1>2, <1>3, <1>4

(* The instance counts as the library does. *)
LEMMA PageCounts == \A S : Page!Cardinality(S) = Cardinality(S)
BY DEF Page!Cardinality, Cardinality, Page!IsFiniteSet, IsFiniteSet

(* One more frame in the queue is at most one more frame of output. *)
LEMMA FramesOneMore ==
  ASSUME NEW q \in Seq(Page!Frame), NEW m \in Page!Frame
  PROVE  /\ Page!Frames(q) \in Nat
         /\ Page!Frames(Append(q, m)) = IF m.t = "output" THEN Page!Frames(q) + 1
              ELSE Page!Frames(q)
<1> DEFINE n == Len(q)
           F == {i \in DOMAIN q : q[i].t = "output"}
           G == {i \in DOMAIN Append(q, m) : Append(q, m)[i].t = "output"}
<1>1. n \in Nat /\ DOMAIN q = 1 .. n /\ DOMAIN Append(q, m) = 1 .. n + 1
  BY LenProperties, AppendProperties
<1>2. \A i \in 1 .. n : Append(q, m)[i] = q[i]
  BY AppendProperties
<1>3. Append(q, m)[n + 1] = m
  BY AppendProperties
<1>4. IsFiniteSet(F)
  <2>1. F \subseteq 1 .. n /\ IsFiniteSet(1 .. n)
    BY <1>1, FS_Interval
  <2> QED BY <2>1, FS_Subset
<1>5. Cardinality(F) \in Nat
  BY <1>4, FS_CardinalityType
<1>6. G = IF m.t = "output" THEN F \cup {n + 1} ELSE F
  BY <1>1, <1>2, <1>3
<1>7. n + 1 \notin F
  BY <1>1
<1>8. Cardinality(F \cup {n + 1}) = Cardinality(F) + 1
  BY <1>4, <1>7, FS_AddElement
<1> QED BY <1>5, <1>6, <1>8, PageCounts DEF Page!Frames

(* The rest of the queue has a frame of output less if the head was one. *)
LEMMA FramesRest ==
  ASSUME NEW q \in Seq(Page!Frame), q # <<>>
  PROVE  /\ Page!Frames(q) \in Nat /\ Page!Frames(Tail(q)) \in Nat
         /\ Page!Frames(Tail(q)) = IF Head(q).t = "output" THEN Page!Frames(q) - 1
              ELSE Page!Frames(q)
<1> DEFINE n == Len(q)
           F == {i \in DOMAIN q : q[i].t = "output"}
           G == {i \in DOMAIN Tail(q) : Tail(q)[i].t = "output"}
           f == [i \in G |-> i + 1]
<1>1. /\ n \in Nat \ {0} /\ DOMAIN q = 1 .. n /\ DOMAIN Tail(q) = 1 .. n - 1
      /\ Head(q) = q[1] /\ \A i \in 1 .. n - 1 : Tail(q)[i] = q[i + 1]
  BY PageHeadTail
<1>2. IsFiniteSet(F)
  <2>1. F \subseteq 1 .. n /\ IsFiniteSet(1 .. n)
    BY <1>1, FS_Interval
  <2> QED BY <2>1, FS_Subset
<1>3. IsFiniteSet(G)
  <2>1. G \subseteq 1 .. n - 1 /\ IsFiniteSet(1 .. n - 1)
    BY <1>1, FS_Interval
  <2> QED BY <2>1, FS_Subset
<1>4. f \in Bijection(G, F \ {1})
  <2>1. \A i \in G : i + 1 \in F \ {1}
    BY <1>1
  <2>2. \A i \in F \ {1} : i - 1 \in G /\ f[i - 1] = i
    BY <1>1
  <2>3. \A i, j \in G : f[i] = f[j] => i = j
    BY <1>1
  <2>4. f \in [G -> F \ {1}]
    BY <2>1
  <2> QED BY <2>2, <2>3, <2>4 DEF Bijection, Injection, Surjection, IsInjective
<1>5. Cardinality(G) = Cardinality(F \ {1})
  <2>1. IsFiniteSet(F \ {1})
    BY <1>2, FS_Subset
  <2> QED BY <1>3, <1>4, <2>1, FS_Bijection DEF ExistsBijection
<1>6. Cardinality(F \ {1}) = IF 1 \in F THEN Cardinality(F) - 1 ELSE Cardinality(F)
  BY <1>2, FS_RemoveElement
<1>7. 1 \in F <=> Head(q).t = "output"
  BY <1>1
<1>8. Cardinality(F) \in Nat /\ Cardinality(G) \in Nat
  BY <1>2, <1>3, FS_CardinalityType
<1> QED BY <1>5, <1>6, <1>7, <1>8, PageCounts DEF Page!Frames

-----------------------------------------------------------------------------
(* Lemmas about what is on its way                                         *)

(* What the daemon may send over l, which is k afterwards. *)
MayFollow(more, l, k, gone) ==
    \A i \in DOMAIN more :
      /\ more[i].t # "session"
      /\ more[i].t \in {"output", "exit"} => more[i].of = l.at /\ l.at # Page!NoShell
      /\ more[i].t = "exit" =>
           /\ more[i].of \in gone
           /\ \A j \in DOMAIN more : i < j => more[j].t = "close"
      /\ more[i].t \in {"exit", "close"} => k.phase = "closed"

(* The daemon sends more, and may let go of the socket. *)
LEMMA SendingKeeps ==
  ASSUME NEW l \in Page!Link, NEW k \in Page!Link, NEW live, NEW told, NEW gone, NEW gone2,
         gone \subseteq gone2, PageInOrder(l, live, told, gone), l.phase # "closed",
         NEW more \in Seq(Page!Frame), MayFollow(more, l, k, gone2),
         k.down = l.down \o more, k.told = l.told, k.at \in {l.at, Page!NoShell},
         \A i \in DOMAIN k.hold : k.hold[i].t = "output" /\ k.hold[i].of = k.at
  PROVE  PageInOrder(k, live, told, gone2)
<1> DEFINE s == l.down
           d == k.down
<1>1. /\ s \in Seq(Page!Frame) /\ d = s \o more /\ Len(d) = Len(s) + Len(more)
      /\ Len(s) \in Nat /\ Len(more) \in Nat
      /\ DOMAIN s = 1 .. Len(s) /\ DOMAIN more = 1 .. Len(more)
      /\ DOMAIN d = 1 .. Len(s) + Len(more)
      /\ \A i \in DOMAIN s : i \in DOMAIN d /\ d[i] = s[i]
      /\ \A i \in DOMAIN d : i \in DOMAIN s \/ (i - Len(s) \in DOMAIN more
                                                /\ d[i] = more[i - Len(s)])
  <2>1. s \in Seq(Page!Frame)
    BY DEF Page!Link
  <2> QED BY <2>1, Joined
<1>2. /\ l.at # Page!NoShell => Introduced(l, live, l.at, Len(s) + 1)
      /\ \A i \in DOMAIN s :
           /\ s[i].t \in {"output", "exit"} => Introduced(l, live, s[i].of, i)
           /\ s[i].t = "session" =>
                /\ ~l.told /\ s[i].of \in Page!Shells \ told
                /\ \A j \in DOMAIN s : s[j].t = "session" => i = j
           /\ s[i].t \notin {"exit", "close"}
  BY DEF PageInOrder
<1> HIDE DEF s, d
<1>3. ASSUME NEW x, NEW i \in 1 .. Len(s) + 1, NEW n \in Int, i <= n, Introduced(l, live, x, i)
      PROVE  Introduced(k, live, x, n)
  BY <1>1, <1>3 DEF Introduced, s, d
<1>4. k.at # Page!NoShell => Introduced(k, live, k.at, Len(d) + 1)
  BY <1>1, <1>2, <1>3
<1>5. ASSUME NEW i \in DOMAIN d
      PROVE  /\ d[i].t \in {"output", "exit"} => Introduced(k, live, d[i].of, i)
             /\ d[i].t = "session" =>
                  /\ ~k.told /\ d[i].of \in Page!Shells \ told
                  /\ \A j \in DOMAIN d : d[j].t = "session" => i = j
             /\ d[i].t = "exit" =>
                  /\ d[i].of \in gone2
                  /\ \A j \in DOMAIN d : i < j => d[j].t = "close"
             /\ d[i].t \in {"exit", "close"} => k.phase = "closed"
  <2>1. CASE i \in DOMAIN s
    <3>1. d[i] = s[i] /\ i \in 1 .. Len(s) + 1 /\ i \in Int
      BY <1>1, <2>1
    <3>2. d[i].t \in {"output", "exit"} => Introduced(k, live, d[i].of, i)
      BY <1>2, <1>3, <2>1, <3>1
    <3>3. \A j \in DOMAIN d : d[j].t = "session" => j \in DOMAIN s /\ d[j] = s[j]
      BY <1>1 DEF MayFollow
    <3> QED BY <1>2, <2>1, <3>1, <3>2, <3>3
  <2>2. CASE i \notin DOMAIN s
    <3> DEFINE p == i - Len(s)
    <3>1. p \in DOMAIN more /\ d[i] = more[p] /\ i \in Int /\ Len(s) + 1 <= i
      BY <1>1, <2>2
    <3>2. d[i].t \in {"output", "exit"} => Introduced(k, live, d[i].of, i)
      <4>1. SUFFICES ASSUME d[i].t \in {"output", "exit"}
                     PROVE  Introduced(k, live, d[i].of, i)
        OBVIOUS
      <4>2. d[i].of = l.at /\ l.at # Page!NoShell
        BY <3>1, <4>1 DEF MayFollow
      <4>3. Introduced(l, live, l.at, Len(s) + 1)
        BY <1>2, <4>2
      <4>4. Len(s) + 1 \in 1 .. Len(s) + 1
        BY <1>1
      <4> QED BY <1>3, <3>1, <4>2, <4>3, <4>4
    <3>3. ASSUME d[i].t = "exit", NEW j \in DOMAIN d, i < j PROVE d[j].t = "close"
      <4>1. j - Len(s) \in DOMAIN more /\ d[j] = more[j - Len(s)] /\ p < j - Len(s)
        BY <1>1, <3>1, <3>3
      <4> QED BY <3>1, <3>3, <4>1 DEF MayFollow
    <3> QED BY <3>1, <3>2, <3>3 DEF MayFollow
  <2> QED BY <2>1, <2>2
<1> QED BY <1>4, <1>5 DEF PageInOrder, d

(* What is on its way is cut off. *)
LEMMA CuttingKeeps ==
  ASSUME NEW l \in Page!Link, NEW k \in Page!Link, NEW live, NEW told, NEW gone,
         PageInOrder(l, live, told, gone), NEW n \in 0 .. Len(l.down),
         k.down = SubSeq(l.down, 1, n), k.told = l.told, k.phase = l.phase,
         k.at = Page!NoShell, k.hold = <<>>
  PROVE  PageInOrder(k, live, told, gone)
<1> DEFINE s == l.down
           d == k.down
<1>1. /\ Len(s) \in Nat /\ DOMAIN s = 1 .. Len(s) /\ DOMAIN d = 1 .. n
      /\ \A i \in 1 .. n : d[i] = s[i] /\ i \in DOMAIN s
  <2>1. s \in Seq(Page!Frame)
    BY DEF Page!Link
  <2>2. Len(s) \in Nat /\ DOMAIN s = 1 .. Len(s)
    BY <2>1, LenProperties
  <2>3. DOMAIN SubSeq(s, 1, n) = 1 .. n /\ \A i \in 1 .. n : SubSeq(s, 1, n)[i] = s[i]
    BY <2>1, <2>2, SubSeqProperties
  <2> QED BY <2>2, <2>3
<1>2. ASSUME NEW x, NEW i \in 1 .. n, Introduced(l, live, x, i)
      PROVE  Introduced(k, live, x, i)
  BY <1>1, <1>2 DEF Introduced
<1>3. \A i \in DOMAIN k.hold : FALSE
  BY EmptySeq
<1> QED BY <1>1, <1>2, <1>3 DEF PageInOrder

(* The page takes a frame that is not the session's. *)
LEMMA TakingKeeps ==
  ASSUME NEW l \in Page!Link, NEW k \in Page!Link, NEW live, NEW told, NEW gone,
         PageInOrder(l, live, told, gone), l.down # <<>>, Head(l.down).t # "session",
         k.down = Tail(l.down), k.told = l.told, k.phase = l.phase,
         k.at = l.at, k.hold = l.hold
  PROVE  PageInOrder(k, live, told, gone)
<1> DEFINE s == l.down
           d == k.down
<1>1. /\ Head(s) = s[1] /\ 1 \in DOMAIN s /\ Len(s) \in Nat \ {0} /\ Len(d) = Len(s) - 1
      /\ DOMAIN s = 1 .. Len(s) /\ DOMAIN d = 1 .. Len(s) - 1
      /\ \A i \in DOMAIN d : i + 1 \in DOMAIN s /\ d[i] = s[i + 1]
  <2>1. s \in Seq(Page!Frame)
    BY DEF Page!Link
  <2> QED BY <2>1, PageHeadTail
<1>2. ASSUME NEW x, NEW i \in 1 .. Len(s), Introduced(l, live, x, i + 1)
      PROVE  Introduced(k, live, x, i)
  <2>1. CASE l.told /\ live = x
    BY <2>1 DEF Introduced
  <2>2. CASE \E j \in DOMAIN s : j < i + 1 /\ s[j].t = "session" /\ s[j].of = x
    <3>1. PICK j \in DOMAIN s : j < i + 1 /\ s[j].t = "session" /\ s[j].of = x
      BY <2>2
    <3>2. j # 1
      BY <1>1, <3>1
    <3>3. j \in 1 .. Len(s) /\ j - 1 \in 1 .. Len(s) - 1 /\ (j - 1) + 1 = j /\ j - 1 < i
      BY <1>1, <3>1, <3>2
    <3>4. j - 1 \in DOMAIN d /\ d[j - 1] = s[j]
      BY <1>1, <3>3
    <3> QED BY <3>1, <3>3, <3>4 DEF Introduced
  <2> QED BY <1>2, <2>1, <2>2 DEF Introduced
<1>3. k.at # Page!NoShell => Introduced(k, live, k.at, Len(d) + 1)
  <2>1. l.at # Page!NoShell => Introduced(l, live, l.at, Len(s) + 1)
    BY DEF PageInOrder
  <2>2. Len(s) \in 1 .. Len(s) /\ Len(d) + 1 = Len(s)
    BY <1>1
  <2> QED BY <1>2, <2>1, <2>2
<1>4. \A i \in DOMAIN d : d[i].t \in {"output", "exit"} => Introduced(k, live, d[i].of, i)
  <2>1. \A i \in DOMAIN d : i \in 1 .. Len(s)
    BY <1>1
  <2> QED BY <1>1, <1>2, <2>1 DEF PageInOrder
<1>5. \A i \in DOMAIN d :
         /\ d[i].t = "session" =>
              /\ ~k.told /\ d[i].of \in Page!Shells \ told
              /\ \A j \in DOMAIN d : d[j].t = "session" => i = j
         /\ d[i].t = "exit" =>
              /\ d[i].of \in gone
              /\ \A j \in DOMAIN d : i < j => d[j].t = "close"
         /\ d[i].t \in {"exit", "close"} => k.phase = "closed"
  BY <1>1 DEF PageInOrder
<1> QED BY <1>3, <1>4, <1>5 DEF PageInOrder

(* The page takes the session's frame. *)
LEMMA TakingSessionKeeps ==
  ASSUME NEW l \in Page!Link, NEW k \in Page!Link, NEW live, NEW told, NEW gone,
         PageInOrder(l, live, told, gone), l.down # <<>>, Head(l.down).t = "session",
         k.down = Tail(l.down), k.told, k.phase = l.phase,
         k.at = l.at, k.hold = l.hold, NEW s, s = Head(l.down).of
  PROVE  /\ PageInOrder(k, s, told, gone) /\ s \in Page!Shells \ told
         /\ k.at \in {s, Page!NoShell}
         /\ \A i \in DOMAIN k.down : k.down[i].t = "output" => k.down[i].of = s
<1> DEFINE q == l.down
           d == k.down
<1>1. /\ Head(q) = q[1] /\ 1 \in DOMAIN q /\ Len(q) \in Nat \ {0} /\ Len(d) = Len(q) - 1
      /\ DOMAIN q = 1 .. Len(q) /\ DOMAIN d = 1 .. Len(q) - 1
      /\ \A i \in DOMAIN d : i + 1 \in DOMAIN q /\ d[i] = q[i + 1]
  <2>1. q \in Seq(Page!Frame)
    BY DEF Page!Link
  <2> QED BY <2>1, PageHeadTail
<1>2. /\ s \in Page!Shells \ told /\ ~l.told
      /\ \A j \in DOMAIN q : q[j].t = "session" => j = 1
  BY <1>1 DEF PageInOrder
<1>3. ASSUME NEW x, NEW i, Introduced(l, live, x, i) PROVE x = s
  BY <1>1, <1>2, <1>3 DEF Introduced
<1>4. \A i : Introduced(k, s, s, i)
  BY DEF Introduced
<1>5. k.at # Page!NoShell => k.at = s
  BY <1>3 DEF PageInOrder
<1>6. \A i \in DOMAIN d : d[i].t \in {"output", "exit"} => d[i].of = s
  BY <1>1, <1>3 DEF PageInOrder
<1>7. \A i \in DOMAIN d :
         /\ d[i].t # "session"
         /\ d[i].t = "exit" =>
              /\ d[i].of \in gone
              /\ \A j \in DOMAIN d : i < j => d[j].t = "close"
         /\ d[i].t \in {"exit", "close"} => k.phase = "closed"
  BY <1>1, <1>2 DEF PageInOrder
<1> QED BY <1>2, <1>4, <1>5, <1>6, <1>7 DEF PageInOrder

-----------------------------------------------------------------------------
(* The daemon's steps                                                      *)

(* What is known once a shell that lives on is one of more that ended. *)
LEMMA MoreGone ==
  ASSUME NEW l, NEW live, NEW told, NEW gone, NEW gone2, gone \subseteq gone2,
         PageInOrder(l, live, told, gone)
  PROVE  PageInOrder(l, live, told, gone2)
BY DEF PageInOrder

(* Nobody waits for another socket while there is one. *)
LEMMA OneAtATime ==
  ASSUME PageInv, link.phase # "closed"
  PROVE  ~life.exited /\ ~timer /\ ~life.resuming
BY DEF PageInv, SocketKept

(* The daemon touches its shells and what it sends alone. *)
LEMMA DaemonKeeps ==
  ASSUME Page!ParametersFit, PageInv, UNCHANGED <<Page!page, os, Page!shown, acts>>,
         alive' \in SUBSET Page!Shells, output' \in [Page!Shells -> Nat \cup {Page!Unknown}],
         drops' \in 0 .. MaxDrops, alive' \subseteq Page!Started', PageGone \subseteq PageGone',
         link' \in Page!Link,
         \/ UNCHANGED link
         \/ /\ link.phase # "closed" /\ link'.phase # "opening" /\ link'.told = link.told
            /\ link'.at = Page!NoShell => link'.phase = "closed" /\ link'.hold = <<>>
            /\ link'.phase = "closed" => link'.at = Page!NoShell
            /\ link.told => link'.at \in {link.at, Page!NoShell}
            /\ FramesInOrder'
  PROVE  PageInv'
<1>1. Page!TypeOK'
  BY DEF PageInv, Page!TypeOK, Page!page, Page!shown
<1>2. IdsKept'
  BY DEF PageInv, IdsKept, Page!page, Page!shown
<1>3. SocketKept'
  <2>1. CASE UNCHANGED link
    BY <2>1 DEF PageInv, SocketKept, Page!page, Page!shown
  <2>2. CASE ~UNCHANGED link
    <3>1. ~life.exited /\ ~timer /\ ~life.resuming
      BY <2>2, OneAtATime
    <3>2. link'.phase \in {"pending", "live", "closed"}
      BY <2>2 DEF Page!Link
    <3> QED BY <2>2, <3>1, <3>2 DEF PageInv, SocketKept, Page!page, Page!shown
  <2> QED BY <2>1, <2>2
<1>4. FramesInOrder'
  <2>1. CASE UNCHANGED link
    BY <2>1, MoreGone DEF PageInv, FramesInOrder, Page!page, Page!shown
  <2> QED BY <2>1
<1>5. ScreenKept'
  BY DEF PageInv, ScreenKept, Page!page, Page!shown
<1> QED BY <1>1, <1>2, <1>3, <1>4, <1>5 DEF PageInv

(* The daemon takes the socket. *)
LEMMA AcceptStep ==
  ASSUME Page!ParametersFit, PageInv, Page!Accept
  PROVE  PageInv'
<1>1. /\ link \in Page!Link /\ alive \subseteq Page!Shells
      /\ output \in [Page!Shells -> Nat \cup {Page!Unknown}]
      /\ drops \in 0 .. MaxDrops /\ alive \subseteq Page!Started /\ dead \subseteq PageGone
      /\ link.phase = "opening" /\ ~link.told /\ link.at = Page!NoShell /\ link.hold = <<>>
      /\ UNCHANGED <<Page!page, os, Page!shown, drops, acts>>
  BY DEF PageInv, Page!TypeOK, IdsKept, SocketKept, Page!Accept
<1> DEFINE Accepted(s) ==
      [link EXCEPT !.phase = "pending", !.at = s,
                   !.down = <<Page!Event("open"), [Page!Event("session") EXCEPT !.of = s]>>]
<1>2. ASSUME NEW s \in Page!Shells, s \notin dead, NEW k, k = Accepted(s), NEW gone
      PROVE  /\ k \in Page!Link /\ k.phase = "pending" /\ k.at = s /\ k.told = link.told
             /\ PageInOrder(k, life.live, dead, gone)
  <2> DEFINE m == [Page!Event("session") EXCEPT !.of = s]
             d == <<Page!Event("open"), m>>
  <2>1. /\ Page!Event("open") \in Page!Frame /\ Page!Event("open").t = "open"
        /\ m \in Page!Frame /\ m.t = "session" /\ m.of = s /\ s \in Page!Ids /\ s # Page!NoShell
    BY <1>2, FramesHere, IdsAre DEF Page!Ids
  <2> HIDE DEF m
  <2>2. d \in Seq(Page!Frame) /\ DOMAIN d = {1, 2} /\ Len(d) = 2 /\ d[1] = Page!Event("open")
          /\ d[2] = m
    BY <2>1
  <2>3. k = [link EXCEPT !.phase = "pending", !.at = s, !.down = d]
    BY <1>2 DEF m
  <2> HIDE DEF d
  <2>4. /\ k \in Page!Link /\ k.phase = "pending" /\ k.at = s /\ k.down = d
        /\ k.told = link.told /\ k.hold = link.hold
    BY <1>1, <2>1, <2>2, <2>3 DEF Page!Link
  <2>5. Introduced(k, life.live, s, 3)
    BY <2>1, <2>2, <2>4 DEF Introduced
  <2>6. \A i \in DOMAIN k.hold : FALSE
    BY <1>1, <2>4, EmptySeq
  <2>7. \A i \in DOMAIN d :
          /\ d[i].t \in {"open", "session"}
          /\ d[i].t = "session" => i = 2 /\ d[i].of = s
    BY <2>1, <2>2
  <2>8. PageInOrder(k, life.live, dead, gone)
    <3>1. k.at = s /\ ~k.told /\ s \in Page!Shells \ dead /\ Len(d) + 1 = 3
      BY <1>1, <1>2, <2>2, <2>4
    <3> QED BY <3>1, <2>4, <2>5, <2>6, <2>7 DEF PageInOrder
  <2> QED BY <2>4, <2>8
<1>3. CASE link.sid \in alive /\ link' = Accepted(link.sid) /\ UNCHANGED Page!server
  <2>1. /\ link.sid \in Page!Shells /\ link.sid \notin dead
        /\ UNCHANGED <<alive, output>>
    BY <1>1, <1>3 DEF PageGone, Page!server
  <2>2. PageGone' = PageGone /\ Page!Started' = Page!Started
    BY <2>1 DEF PageGone, Page!Started
  <2>3. /\ link' \in Page!Link /\ link'.phase = "pending" /\ link'.at = link.sid
        /\ link'.told = link.told /\ PageInOrder(link', life.live, dead, PageGone')
    BY <1>2, <1>3, <2>1
  <2>4. FramesInOrder'
    BY <1>1, <2>3 DEF FramesInOrder, Page!page, Page!shown
  <2> QED BY <1>1, <2>1, <2>2, <2>3, <2>4, IdsAre, DaemonKeeps
<1>4. ASSUME NEW s \in Page!Shells \ Page!Started, link.sid \notin alive,
             alive' = alive \cup {s}, output' = [output EXCEPT ![s] = 0], link' = Accepted(s)
      PROVE  PageInv'
  <2>1. Page!Started' = Page!Started \cup {s}
          /\ output' \in [Page!Shells -> Nat \cup {Page!Unknown}]
    BY <1>1, <1>4, IdsAre DEF Page!Started
  <2>2. /\ s \in Page!Shells /\ s \notin dead /\ PageGone' = PageGone
        /\ alive' \subseteq Page!Started'
        /\ alive' \in SUBSET Page!Shells
    BY <1>1, <1>4, <2>1 DEF PageGone
  <2>3. /\ link' \in Page!Link /\ link'.phase = "pending" /\ link'.at = s
        /\ link'.told = link.told /\ PageInOrder(link', life.live, dead, PageGone')
    BY <1>2, <1>4, <2>2
  <2>4. FramesInOrder'
    BY <1>1, <2>3 DEF FramesInOrder, Page!page, Page!shown
  <2> QED BY <1>1, <2>1, <2>2, <2>3, <2>4, IdsAre, DaemonKeeps
<1>5. CASE /\ link' = [link EXCEPT !.phase = "closed",
                       !.down = <<Page!Event("open"), Page!Event("close")>>]
           /\ UNCHANGED Page!server
  <2> DEFINE d == <<Page!Event("open"), Page!Event("close")>>
  <2>1. /\ Page!Event("open") \in Page!Frame /\ Page!Event("open").t = "open"
        /\ Page!Event("close") \in Page!Frame /\ Page!Event("close").t = "close"
    BY FramesHere
  <2>2. d \in Seq(Page!Frame) /\ \A i \in DOMAIN d : d[i].t \in {"open", "close"}
    BY <2>1
  <2> HIDE DEF d
  <2>3. /\ link' \in Page!Link /\ link'.phase = "closed" /\ link'.at = Page!NoShell
        /\ link'.down = d /\ link'.told = link.told /\ link'.hold = <<>>
    BY <1>1, <1>5, <2>2 DEF Page!Link, d
  <2>4. UNCHANGED <<alive, output>> /\ PageGone' = PageGone /\ Page!Started' = Page!Started
    BY <1>5 DEF PageGone, Page!Started, Page!server
  <2>5. FramesInOrder'
    BY <2>2, <2>3 DEF FramesInOrder, PageInOrder
  <2> QED BY <1>1, <2>3, <2>4, <2>5, DaemonKeeps
<1> QED BY <1>3, <1>4, <1>5 DEF Page!Accept

(* What a shell that runs is to the page, and the daemon's end of l. *)
LEMMA LinkFacts ==
  ASSUME Page!ParametersFit, PageInv
  PROVE  /\ link \in Page!Link /\ link.down \in Seq(Page!Frame) /\ link.hold \in Seq(Page!Frame)
         /\ alive \in SUBSET Page!Shells /\ alive \subseteq Page!Started
         /\ dead \subseteq PageGone
         /\ output \in [Page!Shells -> Nat \cup {Page!Unknown}] /\ drops \in 0 .. MaxDrops
         /\ MaxDrops \in Nat
         /\ PageInOrder(link, life.live, dead, PageGone)
         /\ link.at # Page!NoShell => link.phase \in {"pending", "live"}
                 /\ link.at \in Page!Shells
         /\ link.at = Page!NoShell => link.phase \in {"opening", "closed"} /\ link.hold = <<>>
BY IdsAre DEF PageInv, Page!TypeOK, IdsKept, SocketKept, FramesInOrder, Page!Link, Page!Ids,
   Page!ParametersFit

(* A shell writes. *)
LEMMA EmitStep ==
  ASSUME Page!ParametersFit, PageInv, NEW s \in Page!Shells, Page!Emit(s)
  PROVE  PageInv'
<1> DEFINE n == output[s] + 1
           m == Page!Output(s, n, n)
<1>1. /\ s \in alive /\ output[s] \in Nat /\ n \in Nat /\ s # Page!NoShell
      /\ output' = [output EXCEPT ![s] = n] /\ UNCHANGED <<alive, Page!page, os, Page!shown,
                                                           drops, acts>>
  BY LinkFacts, IdsAre DEF Page!Emit, Page!Started
<1>2. /\ output' \in [Page!Shells -> Nat \cup {Page!Unknown}] /\ Page!Started' = Page!Started
      /\ PageGone' = PageGone
      /\ UNCHANGED alive
  BY <1>1, LinkFacts, IdsAre DEF Page!Started, PageGone
<1>3. m \in Page!Frame /\ m.t = "output" /\ m.of = s
  BY <1>1, FramesHere
<1>4. CASE UNCHANGED link
  BY <1>1, <1>2, <1>4, LinkFacts, DaemonKeeps
<1>5. CASE link.at = s /\ link.phase = "live" /\ link' = [link EXCEPT !.down = Append(@, m)]
  <2> HIDE DEF m
  <2>1. <<m>> \in Seq(Page!Frame) /\ DOMAIN <<m>> = {1} /\ <<m>>[1] = m
    BY <1>3
  <2>2. Append(link.down, m) = link.down \o <<m>> /\ link.down \o <<m>> \in Seq(Page!Frame)
    BY <1>3, <2>1, LinkFacts, AppendIsConcat, Joined
  <2>3. /\ link' \in Page!Link /\ link'.down = link.down \o <<m>> /\ link'.told = link.told
        /\ link'.at = link.at /\ link'.phase = link.phase /\ link'.hold = link.hold
    BY <1>5, <2>2, LinkFacts DEF Page!Link
  <2>4. MayFollow(<<m>>, link, link', PageGone)
    BY <1>1, <1>3, <1>5, <2>1 DEF MayFollow
  <2>5. \A i \in DOMAIN link'.hold : link'.hold[i].t = "output" /\ link'.hold[i].of = link'.at
    BY <2>3, LinkFacts DEF PageInOrder
  <2>6. PageInOrder(link', life.live, dead, PageGone)
    BY <1>5, <2>1, <2>3, <2>4, <2>5, LinkFacts, SendingKeeps
  <2>7. FramesInOrder'
    BY <1>1, <1>2, <2>6 DEF FramesInOrder, Page!page, Page!shown
  <2> QED BY <1>1, <1>2, <1>5, <2>3, <2>7, LinkFacts, DaemonKeeps
<1>6. CASE link.at = s /\ link.phase # "live" /\ link' = [link EXCEPT !.hold = Append(@, m)]
  <2> HIDE DEF m
  <2>1. /\ Append(link.hold, m) \in Seq(Page!Frame)
        /\ \A i \in DOMAIN Append(link.hold, m) :
             Append(link.hold, m)[i] = m \/ (i \in DOMAIN link.hold
                                             /\ Append(link.hold, m)[i] = link.hold[i])
    <3>1. <<m>> \in Seq(Page!Frame) /\ DOMAIN <<m>> = {1} /\ <<m>>[1] = m
      BY <1>3
    <3>2. Append(link.hold, m) = link.hold \o <<m>>
      BY <1>3, LinkFacts, AppendIsConcat
    <3>3. /\ link.hold \o <<m>> \in Seq(Page!Frame)
          /\ \A i \in DOMAIN (link.hold \o <<m>>) :
               \/ i \in DOMAIN link.hold
               \/ /\ i - Len(link.hold) \in DOMAIN <<m>>
                  /\ (link.hold \o <<m>>)[i] = <<m>>[i - Len(link.hold)]
          /\ \A i \in DOMAIN link.hold : (link.hold \o <<m>>)[i] = link.hold[i]
      BY <3>1, LinkFacts, Joined
    <3> QED BY <3>1, <3>2, <3>3
  <2>2. /\ link' \in Page!Link /\ link'.down = link.down /\ link'.told = link.told
        /\ link'.at = link.at /\ link'.phase = link.phase /\ link'.hold = Append(link.hold, m)
    BY <1>6, <2>1, LinkFacts DEF Page!Link
  <2>3. \A i \in DOMAIN link'.hold : link'.hold[i].t = "output" /\ link'.hold[i].of = link'.at
    BY <1>3, <1>6, <2>1, <2>2, LinkFacts DEF PageInOrder
  <2>4. PageInOrder(link', life.live, dead, PageGone)
    BY <2>2, <2>3, LinkFacts DEF PageInOrder, Introduced
  <2>5. FramesInOrder'
    BY <1>1, <1>2, <2>4 DEF FramesInOrder, Page!page, Page!shown
  <2> QED BY <1>1, <1>2, <1>6, <2>2, <2>5, LinkFacts, DaemonKeeps
<1> QED BY <1>4, <1>5, <1>6 DEF Page!Emit

(* A promotion sends what is the shell's. *)
LEMMA PromotedKeeps ==
  ASSUME Page!ParametersFit, PageInv, link.phase = "pending", NEW replay \in BOOLEAN,
         NEW ready \in {"no", "plain", "replay"},
         link' = [Page!Promoted(replay) EXCEPT !.ready = ready],
         UNCHANGED <<Page!server, Page!page, os, Page!shown, drops, acts>>
  PROVE  PageInv'
<1> DEFINE ring == IF replay /\ output[link.at] > 0
                   THEN <<Page!Output(link.at, 1, output[link.at])>> ELSE <<>>
           mark == <<Page!Event("replay-end")>>
           more == (ring \o mark) \o link.hold
<1>1. link.at \in Page!Shells /\ link.at # Page!NoShell
  BY LinkFacts, IdsAre
<1>2. /\ ring \in Seq(Page!Frame)
      /\ \A i \in DOMAIN ring : ring[i].t = "output" /\ ring[i].of = link.at
  <2>1. CASE replay /\ output[link.at] > 0
    <3>1. output[link.at] \in Nat
      BY <1>1, <2>1, LinkFacts, IdsAre DEF Page!Unknown
    <3>2. /\ Page!Output(link.at, 1, output[link.at]) \in Page!Frame
          /\ Page!Output(link.at, 1, output[link.at]).t = "output"
          /\ Page!Output(link.at, 1, output[link.at]).of = link.at
      <4> DEFINE at == link.at
                 n == output[at]
      <4>1. at \in Page!Shells /\ n \in Nat /\ 1 \in Nat
        BY <1>1, <3>1
      <4> HIDE DEF at, n
      <4>2. /\ Page!Output(at, 1, n) \in Page!Frame /\ Page!Output(at, 1, n).t = "output"
            /\ Page!Output(at, 1, n).of = at
        BY <4>1, FramesHere
      <4> QED BY <4>2 DEF at, n
    <3> QED BY <2>1, <3>2
  <2>2. CASE ~(replay /\ output[link.at] > 0)
    BY <2>2, EmptySeq
  <2> QED BY <2>1, <2>2
<1>3. mark \in Seq(Page!Frame) /\ \A i \in DOMAIN mark : mark[i].t = "replay-end"
  BY FramesHere
<1>4. link'.down = ((link.down \o ring) \o mark) \o link.hold
  BY LinkFacts DEF Page!Promoted, Page!Link
<1> HIDE DEF ring, mark
<1>5. /\ ring \o mark \in Seq(Page!Frame)
      /\ \A i \in DOMAIN (ring \o mark) :
           /\ (ring \o mark)[i].t \in {"output", "replay-end"}
           /\ (ring \o mark)[i].t = "output" => (ring \o mark)[i].of = link.at
  BY <1>2, <1>3, Joined
<1>6. /\ more \in Seq(Page!Frame)
      /\ \A i \in DOMAIN more :
           /\ more[i].t \in {"output", "replay-end"}
           /\ more[i].t = "output" => more[i].of = link.at
  <2>1. \A i \in DOMAIN link.hold : link.hold[i].t = "output" /\ link.hold[i].of = link.at
    BY LinkFacts DEF PageInOrder
  <2> DEFINE front == ring \o mark
  <2>2. /\ front \in Seq(Page!Frame)
        /\ \A i \in DOMAIN front :
             /\ front[i].t \in {"output", "replay-end"}
             /\ front[i].t = "output" => front[i].of = link.at
    BY <1>5
  <2> HIDE DEF front
  <2>3. /\ front \o link.hold \in Seq(Page!Frame)
        /\ \A i \in DOMAIN front : (front \o link.hold)[i] = front[i]
        /\ \A i \in DOMAIN (front \o link.hold) :
             \/ i \in DOMAIN front
             \/ /\ i - Len(front) \in DOMAIN link.hold
                /\ (front \o link.hold)[i] = link.hold[i - Len(front)]
    BY <2>2, LinkFacts, Joined
  <2>4. /\ front \o link.hold \in Seq(Page!Frame)
        /\ \A i \in DOMAIN (front \o link.hold) :
             /\ (front \o link.hold)[i].t \in {"output", "replay-end"}
             /\ (front \o link.hold)[i].t = "output" => (front \o link.hold)[i].of = link.at
    BY <2>1, <2>2, <2>3
  <2> QED BY <2>4 DEF front
<1>7. link'.down = link.down \o more
  <2> DEFINE w == link.down
             h == link.hold
  <2>1. w \in Seq(Page!Frame) /\ ring \in Seq(Page!Frame) /\ mark \in Seq(Page!Frame)
          /\ h \in Seq(Page!Frame)
    BY <1>2, <1>3, LinkFacts
  <2>2. link'.down = ((w \o ring) \o mark) \o h
    BY <1>4
  <2>3. more = (ring \o mark) \o h
    OBVIOUS
  <2> HIDE DEF w, h, more
  <2>4. ring \o mark \in Seq(Page!Frame)
    BY <1>5
  <2>5. (w \o ring) \o mark = w \o (ring \o mark)
    BY <2>1, PageAssociative, SMTT(30)
  <2>6. (w \o (ring \o mark)) \o h = w \o ((ring \o mark) \o h)
    BY <2>1, <2>4, PageAssociative, SMTT(30)
  <2>7. link'.down = w \o more
    BY <2>2, <2>3, <2>5, <2>6
  <2> QED BY <2>7 DEF w
<1> HIDE DEF more
<1>8. link.down \o more \in Seq(Page!Frame)
  BY <1>6, LinkFacts, Joined
<1>9. /\ link' \in Page!Link /\ link'.phase = "live" /\ link'.at = link.at /\ link'.hold = <<>>
      /\ link'.told = link.told
  <2>1. \E d : link' = [link EXCEPT !.phase = "live", !.hold = <<>>, !.down = d,
                        !.ready = ready]
    BY LinkFacts DEF Page!Promoted, Page!Link
  <2>2. PICK d : link' = [link EXCEPT !.phase = "live", !.hold = <<>>, !.down = d,
                          !.ready = ready]
    BY <2>1
  <2>3. d = link.down \o more
    BY <1>7, <2>2, LinkFacts DEF Page!Link
  <2>4. d \in Seq(Page!Frame) /\ <<>> \in Seq(Page!Frame)
    BY <1>8, <2>3
  <2> QED BY <2>2, <2>4, LinkFacts DEF Page!Link
<1>10. MayFollow(more, link, link', PageGone)
  BY <1>1, <1>6 DEF MayFollow
<1>11. \A i \in DOMAIN link'.hold : link'.hold[i].t = "output" /\ link'.hold[i].of = link'.at
  <2>1. DOMAIN <<>> = {}
    OBVIOUS
  <2> QED BY <1>9, <2>1
<1>12. PageInOrder(link', life.live, dead, PageGone)
  BY <1>6, <1>7, <1>9, <1>10, <1>11, LinkFacts, SendingKeeps
<1>13. UNCHANGED <<alive, output>> /\ PageGone' = PageGone /\ Page!Started' = Page!Started
  BY DEF PageGone, Page!Started, Page!server
<1>14. FramesInOrder'
  BY <1>12, <1>13 DEF FramesInOrder, Page!page, Page!shown
<1> QED BY <1>1, <1>9, <1>13, <1>14, LinkFacts, DaemonKeeps

(* The page says that it is ready. *)
LEMMA PageReadyStep ==
  ASSUME Page!ParametersFit, PageInv, Page!Ready
  PROVE  PageInv'
<1>1. link.at # Page!NoShell /\ link.ready # "no"
        /\ UNCHANGED <<Page!server, Page!page, os, Page!shown, drops, acts>>
  BY DEF Page!Ready
<1>2. CASE link.phase = "pending"
  <2>1. link' = Page!Promoted(link.ready = "replay")
    BY <1>2 DEF Page!Ready
  <2>2. Page!Promoted(link.ready = "replay")
        = [Page!Promoted(link.ready = "replay") EXCEPT !.ready = "no"]
    BY LinkFacts DEF Page!Promoted, Page!Link
  <2>3. (link.ready = "replay") \in BOOLEAN
    OBVIOUS
  <2> QED BY <1>1, <1>2, <2>1, <2>2, <2>3, PromotedKeeps
<1>3. CASE link.phase # "pending"
  <2>1. /\ link' = [link EXCEPT !.ready = "no"]
        /\ link.phase = "live"
    BY <1>1, <1>3, LinkFacts DEF Page!Ready
  <2>2. /\ link' \in Page!Link /\ link'.down = link.down /\ link'.told = link.told
        /\ link'.at = link.at /\ link'.phase = link.phase /\ link'.hold = link.hold
    BY <2>1, LinkFacts DEF Page!Link
  <2>3. UNCHANGED <<alive, output>> /\ PageGone' = PageGone /\ Page!Started' = Page!Started
    BY <1>1 DEF PageGone, Page!Started, Page!server
  <2>4. PageInOrder(link', life.live, dead, PageGone)
    BY <2>2, LinkFacts DEF PageInOrder, Introduced
  <2>5. FramesInOrder'
    BY <1>1, <2>3, <2>4 DEF FramesInOrder, Page!page, Page!shown
  <2> QED BY <1>1, <2>1, <2>2, <2>3, <2>5, LinkFacts, DaemonKeeps
<1> QED BY <1>2, <1>3

(* A page that is not ready in time is promoted without a replay. *)
LEMMA ReadyLateStep ==
  ASSUME Page!ParametersFit, PageInv, Page!ReadyLate
  PROVE  PageInv'
<1>1. link.ready \in {"no", "plain", "replay"}
  BY LinkFacts DEF Page!Link
<1> QED BY <1>1, PromotedKeeps DEF Page!ReadyLate

(* A shell exits: its viewer is told, and let go. *)
LEMMA ExitStep ==
  ASSUME Page!ParametersFit, PageInv, NEW s \in Page!Shells, Page!Exit(s)
  PROVE  PageInv'
<1>1. /\ s \in alive /\ s # Page!NoShell /\ alive' = alive \ {s} /\ output' = output
      /\ drops' \in 0 .. MaxDrops /\ UNCHANGED <<Page!page, os, Page!shown, acts>>
  BY LinkFacts, IdsAre DEF Page!Exit
<1>2. /\ Page!Started' = Page!Started /\ PageGone \subseteq PageGone' /\ s \in PageGone'
      /\ alive' \in SUBSET Page!Shells /\ alive' \subseteq Page!Started'
  BY <1>1, LinkFacts DEF Page!Started, PageGone
<1>3. CASE link.at # s
  <2>1. UNCHANGED link
    BY <1>3 DEF Page!Exit
  <2> QED BY <1>1, <1>2, <2>1, LinkFacts, DaemonKeeps
<1>4. CASE link.at = s
  <2> DEFINE m == [Page!Event("exit") EXCEPT !.of = s]
             more == <<m, Page!Event("close")>>
  <2>1. /\ m \in Page!Frame /\ m.t = "exit" /\ m.of = s
        /\ Page!Event("close") \in Page!Frame /\ Page!Event("close").t = "close"
    BY FramesHere
  <2>2. link' = [link EXCEPT !.phase = "closed", !.at = Page!NoShell, !.hold = <<>>,
                             !.down = @ \o more]
    BY <1>4 DEF Page!Exit
  <2> HIDE DEF m
  <2>3. more \in Seq(Page!Frame) /\ DOMAIN more = {1, 2} /\ more[1] = m
          /\ more[2] = Page!Event("close")
    BY <2>1
  <2> HIDE DEF more
  <2>4. link.down \o more \in Seq(Page!Frame) /\ <<>> \in Seq(Page!Frame)
    BY <2>3, LinkFacts, Joined
  <2>5. /\ link' \in Page!Link /\ link'.down = link.down \o more /\ link'.told = link.told
        /\ link'.at = Page!NoShell /\ link'.phase = "closed" /\ link'.hold = <<>>
    BY <2>2, <2>4, LinkFacts, IdsAre DEF Page!Link
  <2>6. MayFollow(more, link, link', PageGone')
    BY <1>1, <1>2, <1>4, <2>1, <2>3, <2>5 DEF MayFollow
  <2>7. \A i \in DOMAIN link'.hold : link'.hold[i].t = "output" /\ link'.hold[i].of = link'.at
    <3>1. DOMAIN <<>> = {}
      OBVIOUS
    <3> QED BY <2>5, <3>1
  <2>8. link.phase # "closed" /\ PageInOrder(link, life.live, dead, PageGone)
    BY <1>1, <1>4, LinkFacts
  <2>9. PageInOrder(link', life.live, dead, PageGone')
    BY <1>2, <2>3, <2>5, <2>6, <2>7, <2>8, LinkFacts, SendingKeeps
  <2>10. FramesInOrder'
    BY <1>1, <2>9 DEF FramesInOrder, Page!page, Page!shown
  <2> QED BY <1>1, <1>2, <2>5, <2>8, <2>10, LinkFacts, DaemonKeeps
<1> QED BY <1>3, <1>4

(* A connection is lost with what is on its way. *)
LEMMA DropStep ==
  ASSUME Page!ParametersFit, PageInv, Page!Drop
  PROVE  PageInv'
<1>1. /\ link.phase # "closed" /\ drops' \in 0 .. MaxDrops
      /\ UNCHANGED <<Page!server, Page!page, os, Page!shown, acts>>
  BY LinkFacts DEF Page!Drop
<1>2. PICK n \in 0 .. Len(link.down) :
        link' = [link EXCEPT !.phase = "closed", !.at = Page!NoShell, !.hold = <<>>,
                   !.ready = "no", !.down = SubSeq(@, 1, n) \o <<Page!Event("close")>>]
  BY DEF Page!Drop
<1> DEFINE more == <<Page!Event("close")>>
           cut == SubSeq(link.down, 1, n)
           mid == [link EXCEPT !.at = Page!NoShell, !.hold = <<>>, !.down = cut]
<1>3. more \in Seq(Page!Frame) /\ DOMAIN more = {1} /\ more[1].t = "close"
  BY FramesHere
<1>4. cut \in Seq(Page!Frame)
  BY LinkFacts, LenProperties, SubSeqProperties
<1>5. link' = [link EXCEPT !.phase = "closed", !.at = Page!NoShell, !.hold = <<>>,
                 !.ready = "no", !.down = cut \o more]
  BY <1>2
<1> HIDE DEF more
<1>6. cut = SubSeq(link.down, 1, n)
  OBVIOUS
<1> HIDE DEF cut
<1>7. /\ mid \in Page!Link /\ mid.at = Page!NoShell /\ mid.hold = <<>> /\ mid.down = cut
      /\ mid.told = link.told /\ mid.phase = link.phase
  <2>1. <<>> \in Seq(Page!Frame)
    OBVIOUS
  <2> QED BY <1>4, <2>1, LinkFacts, IdsAre DEF Page!Link
<1> HIDE DEF mid
<1>8. PageInOrder(mid, life.live, dead, PageGone)
  BY <1>6, <1>7, LinkFacts, CuttingKeeps
<1>9. cut \o more \in Seq(Page!Frame) /\ <<>> \in Seq(Page!Frame) /\ DOMAIN <<>> = {}
  BY <1>3, <1>4, Joined
<1>10. /\ link' \in Page!Link /\ link'.down = mid.down \o more /\ link'.told = link.told
       /\ link'.at = Page!NoShell /\ link'.phase = "closed" /\ link'.hold = <<>>
  BY <1>5, <1>7, <1>9, LinkFacts, IdsAre DEF Page!Link
<1>11. MayFollow(more, mid, link', PageGone)
  BY <1>3, <1>10 DEF MayFollow
<1>12. \A i \in DOMAIN link'.hold : FALSE
  BY <1>9, <1>10
<1>13. PageInOrder(link', life.live, dead, PageGone)
  BY <1>1, <1>3, <1>7, <1>8, <1>10, <1>11, <1>12, SendingKeeps
<1>14. UNCHANGED <<alive, output>> /\ PageGone' = PageGone /\ Page!Started' = Page!Started
  BY <1>1 DEF PageGone, Page!Started, Page!server
<1>15. FramesInOrder'
  BY <1>1, <1>13, <1>14 DEF FramesInOrder, Page!page, Page!shown
<1> QED BY <1>1, <1>10, <1>14, <1>15, LinkFacts, DaemonKeeps

-----------------------------------------------------------------------------
(* The page's steps                                                        *)

(* The empty sequence has no frame. *)
LEMMA NoFrames ==
  /\ <<>> \in Seq(Page!Frame) /\ DOMAIN <<>> = {} /\ Len(<<>>) = 0 /\ Page!Frames(<<>>) = 0
<1>1. <<>> \in Seq(Page!Frame) /\ DOMAIN <<>> = {} /\ Len(<<>>) = 0
  OBVIOUS
<1>2. {i \in DOMAIN <<>> : <<>>[i].t = "output"} = {}
  BY <1>1
<1> QED BY <1>1, <1>2, FS_EmptySet, PageCounts DEF Page!Frames

(* A new output session has nothing to write, and one that is over no use. *)
LEMMA NothingWaits ==
  ASSUME Page!ParametersFit
  PROVE  /\ Page!NewOutput \in Page!OutputSession /\ Page!Disposed \in Page!OutputSession
         /\ Page!NewOutput.queue = <<>> /\ Page!NewOutput.kept = <<>> /\ Page!NewOutput.on
         /\ Page!Disposed.queue = <<>> /\ Page!Disposed.kept = <<>> /\ ~Page!Disposed.on
         /\ ~Page!Disposed.draining
         /\ \A o \in {Page!NewOutput, Page!Disposed} :
              /\ Page!Frames(o.queue) + Len(o.kept) <= QueueMax
              /\ \A live : OfShell(o.queue, live) /\ OfShell(o.kept, live)
              /\ \A i \in DOMAIN o.kept : o.kept[i].t = "output"
<1>1. /\ Page!NewOutput \in Page!OutputSession /\ Page!NewOutput.queue = <<>>
       /\ Page!NewOutput.kept = <<>>
      /\ Page!NewOutput.on
  BY NoFrames DEF Page!NewOutput, Page!OutputSession
<1>2. /\ Page!Disposed \in Page!OutputSession /\ Page!Disposed.queue = <<>>
       /\ Page!Disposed.kept = <<>>
      /\ ~Page!Disposed.on /\ ~Page!Disposed.draining
  BY NoFrames DEF Page!Disposed, Page!NewOutput, Page!OutputSession
<1>3. /\ Page!Frames(<<>>) + Len(<<>>) <= QueueMax
      /\ \A live : OfShell(<<>>, live)
      /\ \A i \in DOMAIN <<>> : <<>>[i].t = "output"
  BY NoFrames, IdsAre DEF OfShell
<1> QED BY <1>1, <1>2, <1>3

(* Another socket for the page, with what it says of itself in l. *)
LEMMA ConnectKeeps ==
  ASSUME Page!ParametersFit, PageInv, NEW l \in Page!Life, Page!Connect(l), l.live = life.live,
         ~l.exited, ~l.resuming, l.next \notin dead,
         acts' \in 0 .. MaxActs, UNCHANGED <<Page!server, bar, Page!shown, drops>>
  PROVE  PageInv'
<1> DEFINE sid == Page!Requested(l)
<1>1. /\ life' = [l EXCEPT !.next = Page!NoShell] /\ link' = Page!Opening(sid)
      /\ os' = Page!NewOutput
      /\ timer' = FALSE /\ UNCHANGED replace
  BY DEF Page!Connect
<1>2. /\ Page!TypeOK /\ IdsKept /\ ScreenKept
      /\ bar \in Page!Ids /\ life.live \in Page!Ids /\ Page!NoShell \in Page!Ids
      /\ life.live \notin dead /\ bar \notin dead /\ Page!NoShell \notin dead
  BY IdsAre DEF PageInv, Page!TypeOK, IdsKept, Page!Life
<1>3. sid \in Page!Ids /\ sid \notin dead
  BY <1>2 DEF Page!Requested, Page!Life
<1> HIDE DEF sid
<1>4. /\ life' \in Page!Life /\ life'.next = Page!NoShell /\ life'.live = life.live
      /\ ~life'.exited /\ ~life'.resuming
  BY <1>1, <1>2 DEF Page!Life
<1>5. /\ link' \in Page!Link /\ link'.phase = "opening" /\ link'.at = Page!NoShell
      /\ link'.sid = sid
      /\ link'.hold = <<>> /\ link'.down = <<>> /\ ~link'.told
  BY <1>1, <1>2, <1>3, NoFrames DEF Page!Opening, Page!Link
<1>6. UNCHANGED <<alive, output, screen, gap, dead>>
        /\ PageGone' = PageGone /\ Page!Started' = Page!Started
  BY DEF PageGone, Page!Started, Page!server, Page!shown
<1>7. Page!TypeOK'
  BY <1>1, <1>2, <1>4, <1>5, <1>6, NothingWaits DEF Page!TypeOK
<1>8. IdsKept'
  BY <1>2, <1>4, <1>5, <1>6 DEF IdsKept
<1>9. SocketKept'
  BY <1>1, <1>3, <1>4, <1>5, <1>6 DEF SocketKept
<1>10. FramesInOrder'
  BY <1>5, NoFrames DEF FramesInOrder, PageInOrder
<1>11. ScreenKept'
  BY <1>1, <1>2, <1>4, <1>5, <1>6, NothingWaits DEF ScreenKept
<1> QED BY <1>7, <1>8, <1>9, <1>10, <1>11 DEF PageInv

(* The reconnect timer. *)
LEMMA TimerFiresStep ==
  ASSUME Page!ParametersFit, PageInv, Page!TimerFires
  PROVE  PageInv'
<1>1. /\ life \in Page!Life /\ ~life.exited /\ ~life.resuming /\ life.next = Page!NoShell
      /\ Page!NoShell \notin dead /\ acts \in 0 .. MaxActs
  BY IdsAre DEF PageInv, Page!TypeOK, SocketKept, IdsKept, Page!TimerFires
<1> QED BY <1>1, ConnectKeeps DEF Page!TimerFires

(* The user chooses. *)
LEMMA ManuallyStep ==
  ASSUME Page!ParametersFit, PageInv, Page!Reconnect \/ Page!SwitchToFresh
           \/ \E s \in Page!Shells : Page!SwitchTo(s)
  PROVE  PageInv'
<1>1. /\ life \in Page!Life /\ life.next = Page!NoShell /\ Page!NoShell \notin dead
      /\ Page!NoShell \in Page!Ids
      /\ acts \in 0 .. MaxActs /\ MaxActs \in Nat /\ alive \cap dead = {}
  BY IdsAre DEF PageInv, Page!TypeOK, IdsKept, PageGone, Page!ParametersFit
<1>2. ASSUME NEW l \in Page!Life, Page!Manually(l), l.live = life.live, l.next \notin dead
      PROVE  PageInv'
  <2> DEFINE k == [l EXCEPT !.exited = FALSE, !.ever = FALSE, !.reattach = FALSE,
                            !.resuming = FALSE]
  <2>1. /\ k \in Page!Life /\ k.live = life.live /\ k.next \notin dead
        /\ ~k.exited /\ ~k.resuming
    BY <1>2 DEF Page!Life
  <2>2. Page!Connect(k) /\ acts' \in 0 .. MaxActs
          /\ UNCHANGED <<Page!server, bar, Page!shown, drops>>
    BY <1>1, <1>2 DEF Page!Manually
  <2> HIDE DEF k
  <2> QED BY <2>1, <2>2, ConnectKeeps
<1>3. CASE Page!Reconnect
  BY <1>1, <1>2, <1>3 DEF Page!Reconnect
<1>4. CASE Page!SwitchToFresh
  <2> DEFINE l == [life EXCEPT !.next = Page!NoShell, !.fresh = TRUE]
  <2>1. l \in Page!Life /\ l.live = life.live /\ l.next \notin dead
    BY <1>1 DEF Page!Life
  <2>2. Page!Manually(l)
    BY <1>4 DEF Page!SwitchToFresh
  <2> HIDE DEF l
  <2> QED BY <1>2, <2>1, <2>2
<1>5. ASSUME NEW s \in Page!Shells, Page!SwitchTo(s) PROVE PageInv'
  <2> DEFINE l == [life EXCEPT !.next = s, !.fresh = FALSE]
  <2>1. l \in Page!Life /\ l.live = life.live /\ l.next \notin dead /\ Page!Manually(l)
    BY <1>1, <1>5 DEF Page!Life, Page!SwitchTo, Page!Ids
  <2> HIDE DEF l
  <2> QED BY <1>2, <2>1
<1> QED BY <1>3, <1>4, <1>5

(* A phone comes back to a session. *)
LEMMA PageResumeStep ==
  ASSUME Page!ParametersFit, PageInv, NEW s \in alive \cup {Page!NoShell}, Page!Resume(s)
  PROVE  PageInv'
<1> DEFINE l == [life EXCEPT !.resuming = FALSE, !.next = s]
<1>1. /\ life \in Page!Life /\ ~life.exited /\ s \in Page!Ids /\ s \notin dead
      /\ acts \in 0 .. MaxActs
  BY IdsAre DEF PageInv, Page!TypeOK, IdsKept, SocketKept, PageGone, Page!Resume, Page!Ids
<1>2. l \in Page!Life /\ l.live = life.live /\ l.next \notin dead /\ ~l.exited /\ ~l.resuming
  BY <1>1 DEF Page!Life
<1>3. Page!Connect(l) /\ UNCHANGED <<Page!server, bar, Page!shown, drops, acts>>
  BY DEF Page!Resume
<1> HIDE DEF l
<1> QED BY <1>1, <1>2, <1>3, ConnectKeeps

(* What the page knows as it takes a frame. *)
LEMMA TakeFacts ==
  ASSUME Page!ParametersFit, PageInv, link.down # <<>>, UNCHANGED <<Page!server, drops, acts>>
  PROVE  /\ Head(link.down) \in Page!Frame /\ Tail(link.down) \in Seq(Page!Frame)
         /\ Page!Took \in Page!Link /\ Page!Took.down = Tail(link.down)
         /\ Page!Took.told = link.told
         /\ Page!Took.at = link.at /\ Page!Took.phase = link.phase /\ Page!Took.hold = link.hold
         /\ Page!Took.sid = link.sid /\ Page!Took.ready = link.ready
         /\ ~timer /\ ~life.resuming /\ link.phase # "opening"
         /\ Head(link.down).t # "close" => ~life.exited
         /\ Head(link.down).t # "session" => PageInOrder(Page!Took, life.live, dead, PageGone)
         /\ Head(link.down).t \in {"output", "exit"} =>
              link.told /\ Head(link.down).of = life.live
         /\ UNCHANGED <<alive, output>> /\ PageGone' = PageGone /\ Page!Started' = Page!Started
<1> DEFINE d == link.down
<1>1. /\ Head(d) \in Page!Frame /\ Tail(d) \in Seq(Page!Frame) /\ Head(d) = d[1]
      /\ 1 \in DOMAIN d
      /\ DOMAIN d = 1 .. Len(d) /\ Len(d) \in Nat
  BY LinkFacts, PageHeadTail
<1>2. /\ Page!Took \in Page!Link /\ Page!Took.down = Tail(d) /\ Page!Took.told = link.told
      /\ Page!Took.at = link.at /\ Page!Took.phase = link.phase /\ Page!Took.hold = link.hold
      /\ Page!Took.sid = link.sid /\ Page!Took.ready = link.ready
  BY <1>1, LinkFacts DEF Page!Took, Page!Link
<1>3. /\ ~timer /\ ~life.resuming /\ (Head(d).t # "close" => ~life.exited)
      /\ link.phase # "opening"
  BY <1>1 DEF PageInv, SocketKept
<1>4. Head(d).t # "session" => PageInOrder(Page!Took, life.live, dead, PageGone)
  BY <1>2, LinkFacts, TakingKeeps
<1>5. Head(d).t \in {"output", "exit"} => link.told /\ Head(d).of = life.live
  <2>1. Head(d).t \in {"output", "exit"} => Introduced(link, life.live, Head(d).of, 1)
    BY <1>1, LinkFacts DEF PageInOrder
  <2>2. \A j \in DOMAIN d : ~(j < 1)
    BY <1>1
  <2> QED BY <2>1, <2>2 DEF Introduced
<1>6. UNCHANGED <<alive, output>> /\ PageGone' = PageGone /\ Page!Started' = Page!Started
  BY DEF Page!server, PageGone, Page!Started
<1> QED BY <1>1, <1>2, <1>3, <1>4, <1>5, <1>6

(* The socket opens. *)
LEMMA OpensKeeps ==
  ASSUME Page!ParametersFit, PageInv, link.down # <<>>, UNCHANGED <<Page!server, drops, acts>>,
         Head(link.down).t = "open", Page!Opens
  PROVE  PageInv'
<1>1. /\ life' = [life EXCEPT !.ever = TRUE] /\ link' = Page!Took
      /\ UNCHANGED <<bar, timer, replace, os, screen, gap, dead>>
  BY DEF Page!Opens, Page!shown
<1>2. Page!TypeOK /\ IdsKept /\ SocketKept /\ ScreenKept /\ life \in Page!Life
  BY DEF PageInv, Page!TypeOK
<1>3. /\ life' \in Page!Life /\ life'.live = life.live /\ life'.exited = life.exited
      /\ life'.next = life.next /\ life'.resuming = life.resuming
  BY <1>1, <1>2 DEF Page!Life
<1>4. Page!TypeOK'
  BY <1>1, <1>2, <1>3, TakeFacts DEF Page!TypeOK
<1>5. IdsKept'
  BY <1>1, <1>2, <1>3, TakeFacts DEF IdsKept
<1>6. SocketKept'
  BY <1>1, <1>2, <1>3, TakeFacts DEF SocketKept
<1>7. FramesInOrder'
  BY <1>1, <1>3, TakeFacts DEF FramesInOrder
<1>8. ScreenKept'
  BY <1>1, <1>2, <1>3, TakeFacts DEF ScreenKept
<1> QED BY <1>4, <1>5, <1>6, <1>7, <1>8 DEF PageInv

(* The page learns which shell it has. *)
LEMMA TakesSessionKeeps ==
  ASSUME Page!ParametersFit, PageInv, link.down # <<>>, UNCHANGED <<Page!server, drops, acts>>,
         NEW s, s = Head(link.down).of, Head(link.down).t = "session", Page!TakesSession(s)
  PROVE  PageInv'
<1> DEFINE prior == life.live
           replaces == replace \/ life.fresh \/ (prior # Page!NoShell /\ s # prior)
           wants == replaces \/ prior = Page!NoShell
<1>1. /\ life' = [life EXCEPT !.live = s, !.fresh = FALSE, !.reattach = FALSE]
      /\ bar' = s
      /\ replace' = replaces
      /\ screen' = IF replaces \/ prior # Page!NoShell THEN screen ELSE Page!Owned(s)
      /\ os' = IF ~os.on THEN os
               ELSE [Page!NewOutput EXCEPT !.inReplay = wants, !.suppress = wants,
                                      !.reset = wants /\ replaces]
      /\ link' = [Page!Took EXCEPT !.told = TRUE, !.ready = IF wants THEN "replay" ELSE "plain"]
      /\ UNCHANGED <<timer, gap, dead>>
  BY DEF Page!TakesSession
<1>2. /\ Page!TypeOK /\ IdsKept /\ SocketKept /\ ScreenKept /\ life \in Page!Life
      /\ os \in Page!OutputSession
      /\ replace \in BOOLEAN
  BY DEF PageInv, Page!TypeOK
<1>3. /\ link' \in Page!Link /\ link'.down = Tail(link.down) /\ link'.told = TRUE
      /\ link'.at = link.at /\ link'.phase = link.phase /\ link'.hold = link.hold
      /\ link'.sid = link.sid
  BY <1>1, TakeFacts DEF Page!Link
<1>4. /\ PageInOrder(link', s, dead, PageGone) /\ s \in Page!Shells /\ s \notin dead
      /\ link.at \in {s, Page!NoShell} /\ s # Page!NoShell /\ s \in Page!Ids
  <2>1. link \in Page!Link /\ PageInOrder(link, life.live, dead, PageGone)
    BY LinkFacts
  <2> DEFINE k == link'
  <2>3. /\ k \in Page!Link /\ k.down = Tail(link.down) /\ k.told /\ k.at = link.at
        /\ k.phase = link.phase /\ k.hold = link.hold
    BY <1>3
  <2> HIDE DEF k
  <2>4. PageInOrder(k, s, dead, PageGone) /\ s \in Page!Shells \ dead
          /\ k.at \in {s, Page!NoShell}
    BY <2>1, <2>3, TakingSessionKeeps
  <2>2. PageInOrder(link', s, dead, PageGone) /\ s \in Page!Shells \ dead
          /\ link'.at \in {s, Page!NoShell}
    BY <2>4 DEF k
  <2> QED BY <1>3, <2>2, IdsAre DEF Page!Ids
<1>5. /\ life' \in Page!Life /\ life'.live = s /\ life'.exited = life.exited
      /\ life'.next = life.next /\ life'.resuming = life.resuming
  BY <1>1, <1>2, <1>4 DEF Page!Life
<1>6. replaces \in BOOLEAN /\ wants \in BOOLEAN
  BY <1>2 DEF Page!Life
<1>7. ~link.told
  BY LinkFacts, PageHeadTail DEF PageInOrder
<1>8. /\ os' \in Page!OutputSession /\ os'.on = os.on
      /\ os.on => /\ os'.queue = <<>> /\ os'.kept = <<>> /\ os'.draining = FALSE
                  /\ os'.inReplay = wants /\ os'.suppress = wants
                  /\ os'.reset = (wants /\ replaces)
      /\ ~os.on => os' = Page!Disposed
  <2>1. CASE os.on
    <3>1. (wants /\ replaces) \in BOOLEAN
      OBVIOUS
    <3> HIDE DEF wants, replaces
    <3> QED BY <1>1, <1>6, <2>1, <3>1, NothingWaits DEF Page!OutputSession, Page!NewOutput
  <2>2. CASE ~os.on
    BY <1>1, <1>2, <2>2, NothingWaits DEF ScreenKept
  <2> QED BY <2>1, <2>2
<1>9. /\ Page!Frames(os'.queue) + Len(os'.kept) <= QueueMax
      /\ OfShell(os'.queue, s) /\ OfShell(os'.kept, s)
      /\ \A i \in DOMAIN os'.kept : os'.kept[i].t = "output"
  <2>1. os'.queue = <<>> /\ os'.kept = <<>>
    BY <1>8, NothingWaits
  <2> QED BY <2>1, NothingWaits
<1>10. /\ screen' \in [of : Page!Ids, last : Nat \cup {Page!Unknown}]
       /\ ~replaces => screen'.of = s
  <2>1. Page!Owned(s) \in [of : Page!Ids, last : Nat \cup {Page!Unknown}]
          /\ Page!Owned(s).of = s
    BY <1>2, <1>4 DEF Page!Owned, Page!TypeOK
  <2>2. ~replaces /\ prior # Page!NoShell => screen.of = s
    BY <1>2 DEF ScreenKept
  <2> QED BY <1>1, <1>2, <2>1, <2>2 DEF Page!TypeOK
<1> HIDE DEF replaces, wants
<1>11. Page!TypeOK'
  BY <1>1, <1>2, <1>3, <1>4, <1>5, <1>6, <1>8, <1>9, <1>10, TakeFacts DEF Page!TypeOK
<1>12. IdsKept'
  BY <1>1, <1>2, <1>4, <1>5, TakeFacts DEF IdsKept
<1>13. SocketKept'
  BY <1>1, <1>2, <1>3, <1>5, <1>7, TakeFacts DEF SocketKept
<1>14. FramesInOrder'
  BY <1>1, <1>4, <1>5, TakeFacts DEF FramesInOrder
<1>15. ScreenKept'
  <2>1. replaces => wants
    BY DEF wants
  <2> QED BY <1>1, <1>3, <1>4, <1>5, <1>8, <1>9, <1>10, <2>1 DEF ScreenKept
<1> QED BY <1>11, <1>12, <1>13, <1>14, <1>15 DEF PageInv

(* A frame waits to be decompressed, or the page gives its socket up. *)
LEMMA QueuesKeeps ==
  ASSUME Page!ParametersFit, PageInv, link.down # <<>>, UNCHANGED <<Page!server, drops, acts>>,
         NEW m, m = Head(link.down), m.t \in {"output", "replay-end"}, Page!Queues(m)
  PROVE  PageInv'
<1>1. /\ Page!TypeOK /\ IdsKept /\ SocketKept /\ ScreenKept /\ os \in Page!OutputSession
      /\ os.queue \in Seq(Page!Frame) /\ os.kept \in Seq(Page!Frame)
      /\ UNCHANGED <<life, bar, timer, replace, screen, gap, dead>>
  BY DEF PageInv, Page!TypeOK, Page!OutputSession, Page!Queues, Page!page, Page!shown
<1>2. CASE os.on /\ m.t = "output" /\ Page!Frames(os.queue) + Len(os.kept) + 1 > QueueMax
  <2> DEFINE d == <<Page!Event("close")>>
  <2>1. d \in Seq(Page!Frame) /\ \A i \in DOMAIN d : d[i].t = "close"
    BY FramesHere
  <2>2. /\ os' = Page!Disposed
        /\ link' = [link EXCEPT !.phase = "closed", !.at = Page!NoShell, !.hold = <<>>,
                                !.ready = "no", !.down = d]
    BY <1>2 DEF Page!Queues
  <2> HIDE DEF d
  <2>3. /\ link' \in Page!Link /\ link'.phase = "closed" /\ link'.at = Page!NoShell
        /\ link'.hold = <<>> /\ link'.down = d /\ link'.told = link.told
    BY <2>1, <2>2, LinkFacts, NoFrames, IdsAre DEF Page!Link
  <2>4. Page!TypeOK'
    BY <1>1, <2>2, <2>3, NothingWaits, TakeFacts DEF Page!TypeOK
  <2>5. IdsKept'
    BY <1>1, <2>3, TakeFacts DEF IdsKept
  <2>6. SocketKept'
    BY <1>1, <2>1, <2>3, TakeFacts DEF SocketKept
  <2>7. FramesInOrder'
    BY <2>1, <2>3, NoFrames DEF FramesInOrder, PageInOrder
  <2>8. ScreenKept'
    BY <1>1, <2>2, <2>3, NothingWaits DEF ScreenKept
  <2> QED BY <2>4, <2>5, <2>6, <2>7, <2>8 DEF PageInv
<1>3. CASE ~(os.on /\ m.t = "output" /\ Page!Frames(os.queue) + Len(os.kept) + 1 > QueueMax)
  <2>1. /\ os' = IF os.on THEN [os EXCEPT !.queue = Append(@, m)] ELSE os
        /\ link' = Page!Took
    BY <1>3 DEF Page!Queues
  <2>2. /\ Append(os.queue, m) \in Seq(Page!Frame) /\ Page!Frames(os.queue) \in Nat
        /\ Len(os.kept) \in Nat
        /\ Page!Frames(Append(os.queue, m)) =
             IF m.t = "output" THEN Page!Frames(os.queue) + 1 ELSE Page!Frames(os.queue)
    BY <1>1, TakeFacts, FramesOneMore, AppendProperties, LenProperties
  <2>3. OfShell(Append(os.queue, m), life.live)
    <3>1. /\ DOMAIN Append(os.queue, m) = 1 .. Len(os.queue) + 1 /\ Len(os.queue) \in Nat
          /\ DOMAIN os.queue = 1 .. Len(os.queue)
          /\ \A i \in 1 .. Len(os.queue) : Append(os.queue, m)[i] = os.queue[i]
          /\ Append(os.queue, m)[Len(os.queue) + 1] = m
      BY <1>1, TakeFacts, AppendProperties, LenProperties
    <3>2. m.t = "output" => m.of = life.live
      BY TakeFacts
    <3>3. OfShell(os.queue, life.live)
      BY <1>1 DEF ScreenKept
    <3> QED BY <3>1, <3>2, <3>3 DEF OfShell
  <2>4. /\ os' \in Page!OutputSession /\ os'.on = os.on /\ os'.kept = os.kept
        /\ os'.inReplay = os.inReplay /\ os'.reset = os.reset /\ os'.suppress = os.suppress
        /\ os'.draining = os.draining
        /\ os'.queue = IF os.on THEN Append(os.queue, m) ELSE os.queue
        /\ ~os.on => os' = os
    BY <1>1, <2>1, <2>2 DEF Page!OutputSession
  <2>5. Page!Frames(os'.queue) + Len(os'.kept) <= QueueMax
    <3>1. Page!Frames(os.queue) + Len(os.kept) <= QueueMax
      BY <1>1 DEF Page!TypeOK
    <3> QED BY <1>3, <2>2, <2>4, <3>1, IdsAre
  <2>6. Page!TypeOK'
    BY <1>1, <2>1, <2>4, <2>5, TakeFacts DEF Page!TypeOK
  <2>7. IdsKept'
    BY <1>1, <2>1, TakeFacts DEF IdsKept
  <2>8. SocketKept'
    BY <1>1, <2>1, TakeFacts DEF SocketKept
  <2>9. FramesInOrder'
    BY <1>1, <2>1, TakeFacts DEF FramesInOrder
  <2>10. ScreenKept'
    BY <1>1, <2>1, <2>3, <2>4, TakeFacts DEF ScreenKept
  <2> QED BY <2>6, <2>7, <2>8, <2>9, <2>10 DEF PageInv
<1> QED BY <1>2, <1>3

(* The page is told that its shell is dead. *)
LEMMA TakesExitKeeps ==
  ASSUME Page!ParametersFit, PageInv, link.down # <<>>, UNCHANGED <<Page!server, drops, acts>>,
         NEW s, s = Head(link.down).of, Head(link.down).t = "exit", Page!TakesExit(s)
  PROVE  PageInv'
<1>1. /\ Page!TypeOK /\ IdsKept /\ SocketKept /\ ScreenKept /\ life \in Page!Life
      /\ ~life.exited
  BY TakeFacts DEF PageInv, Page!TypeOK
<1>2. /\ life' = [life EXCEPT !.exited = TRUE, !.live = Page!NoShell]
      /\ bar' = Page!NoShell /\ dead' = dead \cup {s} /\ link' = Page!Took
      /\ UNCHANGED <<timer, replace, os, screen, gap>>
  BY <1>1 DEF Page!TakesExit
<1>3. /\ life' \in Page!Life /\ life'.exited /\ life'.live = Page!NoShell
      /\ life'.next = life.next /\ life'.resuming = life.resuming
  BY <1>1, <1>2, IdsAre DEF Page!Life
<1>4. /\ s \in PageGone /\ link.phase = "closed" /\ link.at = Page!NoShell /\ link.hold = <<>>
      /\ \A i \in DOMAIN Tail(link.down) : Tail(link.down)[i].t = "close"
  <2>1. /\ Head(link.down) = link.down[1] /\ 1 \in DOMAIN link.down
        /\ DOMAIN Tail(link.down) = 1 .. Len(link.down) - 1 /\ Len(link.down) \in Nat
        /\ \A i \in DOMAIN Tail(link.down) :
             i + 1 \in DOMAIN link.down /\ Tail(link.down)[i] = link.down[i + 1]
    BY LinkFacts, PageHeadTail
  <2>2. \A i \in DOMAIN Tail(link.down) : 1 < i + 1
    BY <2>1
  <2>3. /\ s \in PageGone /\ link.phase = "closed"
        /\ \A j \in DOMAIN link.down : 1 < j => link.down[j].t = "close"
    BY <2>1, LinkFacts DEF PageInOrder
  <2>4. link.at = Page!NoShell /\ link.hold = <<>>
    BY <2>3, LinkFacts
  <2> QED BY <2>1, <2>2, <2>3, <2>4
<1>5. s \in Page!Shells /\ Page!NoShell \notin dead' /\ Page!NoShell \in Page!Ids
  BY <1>1, <1>2, <1>4, IdsAre DEF PageGone, Page!Started, Page!TypeOK
<1>6. Page!TypeOK'
  BY <1>1, <1>2, <1>3, <1>5, TakeFacts DEF Page!TypeOK
<1>7. IdsKept'
  BY <1>1, <1>2, <1>3, <1>4, <1>5, TakeFacts DEF IdsKept
<1>8. SocketKept'
  <2>1. /\ link'.phase = "closed" /\ link'.at = Page!NoShell /\ link'.hold = <<>>
        /\ link'.down = Tail(link.down)
    BY <1>2, <1>4, TakeFacts
  <2>2. ~timer' /\ ~life'.resuming
    BY <1>2, <1>3, TakeFacts
  <2> QED BY <1>4, <2>1, <2>2 DEF SocketKept
<1>9. FramesInOrder'
  BY <1>2, <1>4, TakeFacts, NoFrames DEF FramesInOrder, PageInOrder
<1>10. ScreenKept'
  BY <1>1, <1>2, <1>3, <1>4, TakeFacts DEF ScreenKept, OfShell
<1> QED BY <1>6, <1>7, <1>8, <1>9, <1>10 DEF PageInv

(* The socket has closed: the page waits for another, or says so. *)
LEMMA ClosesKeeps ==
  ASSUME Page!ParametersFit, PageInv, link.down # <<>>, UNCHANGED <<Page!server, drops, acts>>,
         Page!Closes
  PROVE  PageInv'
<1> DEFINE silent == life.live # Page!NoShell /\ ~life.reattach
           again == ~life.exited /\ (silent \/ ~life.ever)
<1>1. /\ Page!TypeOK /\ IdsKept /\ SocketKept /\ ScreenKept /\ life \in Page!Life
  BY DEF PageInv, Page!TypeOK
<1>2. /\ os' = Page!Disposed /\ link' = Page!NoLink /\ timer' = again
      /\ life' = IF life.exited \/ ~life.ever THEN life
                 ELSE [life EXCEPT !.reattach = silent, !.exited = ~silent]
      /\ UNCHANGED <<bar, replace, screen, gap, dead>>
  BY DEF Page!Closes, Page!shown
<1>3. /\ link' \in Page!Link /\ link'.phase = "closed" /\ link'.at = Page!NoShell
      /\ link'.down = <<>> /\ link'.hold = <<>> /\ ~link'.told
  BY <1>2, NoFrames, IdsAre DEF Page!NoLink, Page!Opening, Page!Link
<1>4. silent \in BOOLEAN /\ again \in BOOLEAN /\ life.exited \in BOOLEAN
  BY <1>1 DEF Page!Life
<1>5. /\ life' \in Page!Life /\ life'.live = life.live /\ life'.next = life.next
      /\ life'.resuming = life.resuming
  <2> HIDE DEF silent, again
  <2> QED BY <1>1, <1>2, <1>4 DEF Page!Life
<1>6. again => ~life'.exited
  <2>1. CASE life.exited \/ ~life.ever
    BY <1>2, <2>1
  <2>2. CASE ~(life.exited \/ ~life.ever)
    <3>1. life'.exited = ~silent
      BY <1>1, <1>2, <2>2 DEF Page!Life
    <3> QED BY <2>2, <3>1
  <2> QED BY <2>1, <2>2
<1> HIDE DEF silent, again
<1>7. Page!TypeOK'
  BY <1>1, <1>2, <1>3, <1>4, <1>5, NothingWaits, TakeFacts DEF Page!TypeOK
<1>8. IdsKept'
  BY <1>1, <1>2, <1>3, <1>5, TakeFacts DEF IdsKept
<1>9. SocketKept'
  <2>1. ~life'.resuming
    BY <1>5, TakeFacts
  <2> QED BY <1>2, <1>3, <1>6, <2>1, NoFrames DEF SocketKept
<1>10. FramesInOrder'
  BY <1>3, NoFrames DEF FramesInOrder, PageInOrder
<1>11. ScreenKept'
  BY <1>1, <1>2, <1>3, <1>5, NothingWaits DEF ScreenKept
<1> QED BY <1>7, <1>8, <1>9, <1>10, <1>11 DEF PageInv

(* The page takes what comes next. *)
LEMMA TakeStep ==
  ASSUME Page!ParametersFit, PageInv, Page!Take
  PROVE  PageInv'
<1> DEFINE m == Head(link.down)
<1>1. link.down # <<>> /\ UNCHANGED <<Page!server, drops, acts>>
  BY DEF Page!Take
<1>2. \/ m.t = "open" /\ Page!Opens
      \/ m.t = "session" /\ Page!TakesSession(m.of)
      \/ m.t \in {"output", "replay-end"} /\ Page!Queues(m)
      \/ m.t = "exit" /\ Page!TakesExit(m.of)
      \/ m.t = "close" /\ Page!Closes
  BY DEF Page!Take
<1> QED
  BY <1>1, <1>2, OpensKeeps, TakesSessionKeeps, QueuesKeeps, TakesExitKeeps, ClosesKeeps

(* The page writes a frame, or keeps it for the replay. *)
LEMMA DecompressStep ==
  ASSUME Page!ParametersFit, PageInv, Page!Decompress
  PROVE  PageInv'
<1> DEFINE q == os.queue
           m == Head(q)
           others == Tail(q)
           c == os.kept
<1>1. /\ Page!TypeOK /\ IdsKept /\ SocketKept /\ ScreenKept
      /\ os \in Page!OutputSession /\ q \in Seq(Page!Frame) /\ c \in Seq(Page!Frame)
      /\ screen \in [of : Page!Ids, last : Nat \cup {Page!Unknown}] /\ life.live \in Page!Ids
      /\ replace \in BOOLEAN /\ gap \in BOOLEAN
  BY DEF PageInv, Page!TypeOK, Page!OutputSession, Page!Life
<1>2. /\ q # <<>> /\ UNCHANGED <<alive, output, link, life, bar, timer, dead, drops, acts>>
      /\ PageGone' = PageGone /\ Page!Started' = Page!Started
  BY DEF Page!Decompress, Page!server, PageGone, Page!Started
<1>3. /\ m \in Page!Frame /\ m = q[1] /\ 1 \in DOMAIN q /\ others \in Seq(Page!Frame)
      /\ \A i \in DOMAIN others : i + 1 \in DOMAIN q /\ others[i] = q[i + 1]
      /\ Page!Frames(q) \in Nat /\ Page!Frames(others) \in Nat /\ Len(c) \in Nat
      /\ Page!Frames(others) = IF m.t = "output" THEN Page!Frames(q) - 1 ELSE Page!Frames(q)
      /\ Page!Frames(q) + Len(c) <= QueueMax
  BY <1>1, <1>2, PageHeadTail, FramesRest, LenProperties DEF Page!TypeOK
<1>4. os.on
  BY <1>1, <1>2, NothingWaits DEF ScreenKept
<1>5. /\ OfShell(q, life.live) /\ OfShell(c, life.live) /\ OfShell(others, life.live)
      /\ \A i \in DOMAIN c : c[i].t = "output"
      /\ m.t = "output" /\ life.live # Page!NoShell => m.of = life.live
  BY <1>1, <1>3 DEF ScreenKept, OfShell
<1>6. IdsKept' /\ SocketKept' /\ FramesInOrder'
  BY <1>1, <1>2 DEF PageInv, IdsKept, SocketKept, FramesInOrder
<1>7. CASE /\ m.t = "output" /\ os.inReplay
           /\ os' = [os EXCEPT !.queue = others, !.kept = Append(@, m)]
           /\ UNCHANGED <<replace, screen, gap>>
  <2>1. /\ Append(c, m) \in Seq(Page!Frame) /\ Len(Append(c, m)) = Len(c) + 1
        /\ DOMAIN Append(c, m) = 1 .. Len(c) + 1 /\ DOMAIN c = 1 .. Len(c)
        /\ \A i \in 1 .. Len(c) : Append(c, m)[i] = c[i]
        /\ Append(c, m)[Len(c) + 1] = m
    BY <1>1, <1>3, AppendProperties, LenProperties
  <2>2. /\ OfShell(Append(c, m), life.live)
        /\ \A i \in DOMAIN Append(c, m) : Append(c, m)[i].t = "output"
    <3>1. /\ m.t = "output" /\ (life.live # Page!NoShell => m.of = life.live)
          /\ \A i \in DOMAIN c : c[i].t = "output"
          /\ life.live # Page!NoShell => \A i \in DOMAIN c : c[i].of = life.live
      BY <1>5, <1>7 DEF OfShell
    <3> DEFINE more == Append(c, m)
    <3>2. \A i \in DOMAIN more : more[i] = m \/ (i \in DOMAIN c /\ more[i] = c[i])
      BY <2>1
    <3> HIDE DEF more, m, c
    <3>3. OfShell(more, life.live) /\ \A i \in DOMAIN more : more[i].t = "output"
      BY <3>1, <3>2 DEF OfShell
    <3> QED BY <3>3 DEF more
  <2> HIDE DEF others, m
  <2>3. /\ os' \in Page!OutputSession /\ os'.queue = others /\ os'.kept = Append(c, m)
        /\ os'.on = os.on /\ os'.inReplay = os.inReplay /\ os'.reset = os.reset
        /\ os'.suppress = os.suppress /\ os'.draining = os.draining
    BY <1>1, <1>3, <1>7, <2>1 DEF Page!OutputSession
  <2>4. Page!Frames(os'.queue) + Len(os'.kept) <= QueueMax
    BY <1>3, <1>7, <2>1, <2>3, IdsAre
  <2>5. Page!TypeOK'
    BY <1>1, <1>2, <1>7, <2>3, <2>4 DEF Page!TypeOK
  <2>6. ScreenKept'
    BY <1>1, <1>2, <1>4, <1>5, <1>7, <2>2, <2>3 DEF ScreenKept
  <2> QED BY <1>6, <2>5, <2>6 DEF PageInv
<1>8. CASE /\ m.t = "output" /\ ~os.inReplay
           /\ os' = [os EXCEPT !.queue = others] /\ screen' = Page!Written(screen, m)
           /\ gap' = (gap \/ Page!Misses(screen, m)) /\ UNCHANGED replace
  <2>1. /\ screen' \in [of : Page!Ids, last : Nat \cup {Page!Unknown}] /\ screen'.of = m.of
    BY <1>3, <1>8 DEF Page!Written, Page!Frame
  <2>2. gap' \in BOOLEAN
    BY <1>8
  <2> HIDE DEF others, m
  <2>3. /\ os' \in Page!OutputSession /\ os'.queue = others /\ os'.kept = c
        /\ os'.on = os.on /\ os'.inReplay = os.inReplay
    BY <1>1, <1>3, <1>8 DEF Page!OutputSession
  <2>4. Page!Frames(os'.queue) + Len(os'.kept) <= QueueMax
    BY <1>3, <1>8, <2>3, IdsAre
  <2>5. Page!TypeOK'
    BY <1>1, <1>2, <1>8, <2>1, <2>2, <2>3, <2>4 DEF Page!TypeOK
  <2>6. ScreenKept'
    BY <1>1, <1>2, <1>4, <1>5, <1>8, <2>1, <2>3 DEF ScreenKept
  <2> QED BY <1>6, <2>5, <2>6 DEF PageInv
<1>9. CASE m.t = "replay-end" /\ Page!Flushes(others)
  <2> DEFINE base == IF os.reset THEN [of |-> life.live, last |-> Page!Unknown] ELSE screen
             full == os.reset \/ c # <<>>
  <2>1. /\ os' = [os EXCEPT !.queue = others, !.inReplay = FALSE, !.kept = <<>>,
                     !.reset = FALSE, !.suppress = @ /\ full, !.draining = full]
        /\ screen' = IF c = <<>> THEN base ELSE Page!Written(base, c[Len(c)])
        /\ replace' = (replace /\ ~full)
        /\ gap' = (gap \/ (c # <<>> /\ Page!Misses(base, c[1])))
    BY <1>9 DEF Page!Flushes
  <2>2. full \in BOOLEAN /\ (os.suppress /\ full) \in BOOLEAN
    OBVIOUS
  <2>3. base \in [of : Page!Ids, last : Nat \cup {Page!Unknown}]
          /\ (os.reset => base.of = life.live)
    BY <1>1
  <2>4. c # <<>> => /\ c[Len(c)] \in Page!Frame
                    /\ life.live # Page!NoShell => c[Len(c)].of = life.live
    <3> SUFFICES ASSUME c # <<>>
                 PROVE  /\ c[Len(c)] \in Page!Frame
                        /\ life.live # Page!NoShell => c[Len(c)].of = life.live
      OBVIOUS
    <3>1. /\ DOMAIN c = 1 .. Len(c) /\ Len(c) \in Nat /\ Len(c) # 0
          /\ c \in [1 .. Len(c) -> Page!Frame]
      BY <1>1, LenProperties, EmptySeq
    <3>2. Len(c) \in DOMAIN c
      BY <3>1
    <3> QED BY <1>5, <3>1, <3>2 DEF OfShell
  <2>5. /\ screen' \in [of : Page!Ids, last : Nat \cup {Page!Unknown}]
        /\ c # <<>> => screen'.of = c[Len(c)].of
        /\ c = <<>> => screen' = base
    <3> HIDE DEF base
    <3> QED BY <2>1, <2>3, <2>4 DEF Page!Written, Page!Frame
  <2>6. gap' \in BOOLEAN /\ replace' \in BOOLEAN
    <3>1. \A a, b : (a \/ b) \in BOOLEAN /\ (a /\ b) \in BOOLEAN
      OBVIOUS
    <3> QED BY <2>1, <3>1
  <2>7. ~replace' /\ life.live # Page!NoShell => screen'.of = life.live
    <3> SUFFICES ASSUME ~replace', life.live # Page!NoShell PROVE screen'.of = life.live
      OBVIOUS
    <3>1. CASE c # <<>>
      BY <2>4, <2>5, <3>1
    <3>2. CASE c = <<>> /\ os.reset
      BY <2>3, <2>5, <3>2
    <3>3. CASE c = <<>> /\ ~os.reset
      <4>1. ~replace /\ screen' = screen
        BY <2>1, <2>5, <3>3
      <4> QED BY <1>1, <4>1 DEF ScreenKept
    <3> QED BY <3>1, <3>2, <3>3
  <2>8. ~(link.told /\ replace')
    BY <1>1, <1>4, <2>1 DEF ScreenKept
  <2> HIDE DEF full, base, others, m
  <2>9. /\ os' \in Page!OutputSession /\ os'.queue = others /\ os'.kept = <<>> /\ os'.on = os.on
    BY <1>1, <1>3, <2>1, <2>2, NoFrames DEF Page!OutputSession
  <2>10. Page!Frames(os'.queue) + Len(os'.kept) <= QueueMax
    <3>1. Len(os'.kept) = 0 /\ Page!Frames(os'.queue) = Page!Frames(q)
      BY <1>3, <1>9, <2>9, NoFrames
    <3> QED BY <1>3, <3>1, IdsAre
  <2>11. Page!TypeOK'
    BY <1>1, <1>2, <2>5, <2>6, <2>9, <2>10 DEF Page!TypeOK
  <2>12. ScreenKept'
    <3>1. OfShell(os'.kept, life.live) /\ \A i \in DOMAIN os'.kept : os'.kept[i].t = "output"
      BY <2>9, NoFrames DEF OfShell
    <3> QED BY <1>1, <1>2, <1>4, <1>5, <2>7, <2>8, <2>9, <3>1 DEF ScreenKept
  <2> QED BY <1>6, <2>11, <2>12 DEF PageInv
<1> QED BY <1>7, <1>8, <1>9 DEF Page!Decompress

(* The terminal has parsed the replay. *)
LEMMA DrainedStep ==
  ASSUME Page!ParametersFit, PageInv, Page!Drained
  PROVE  PageInv'
<1>1. /\ Page!TypeOK /\ IdsKept /\ SocketKept /\ ScreenKept /\ os \in Page!OutputSession
      /\ os.draining /\ os' = [os EXCEPT !.draining = FALSE, !.suppress = FALSE]
      /\ UNCHANGED <<alive, output, link, life, bar, timer, replace, screen, gap, dead, drops,
                     acts>>
      /\ PageGone' = PageGone /\ Page!Started' = Page!Started
  BY DEF PageInv, Page!TypeOK, Page!Drained, Page!server, Page!page, Page!shown, PageGone,
         Page!Started
<1>2. /\ os' \in Page!OutputSession /\ os'.queue = os.queue /\ os'.kept = os.kept
      /\ os'.on = os.on
  BY <1>1 DEF Page!OutputSession
<1>3. os.on
  BY <1>1, NothingWaits DEF ScreenKept
<1>4. Page!TypeOK'
  BY <1>1, <1>2 DEF Page!TypeOK
<1>5. IdsKept' /\ SocketKept' /\ FramesInOrder'
  BY <1>1 DEF PageInv, IdsKept, SocketKept, FramesInOrder
<1>6. ScreenKept'
  BY <1>1, <1>2, <1>3 DEF ScreenKept
<1> QED BY <1>4, <1>5, <1>6 DEF PageInv

-----------------------------------------------------------------------------
(* The invariant                                                           *)

(* It holds at the start. *)
LEMMA PageStarts ==
  ASSUME Page!ParametersFit, Page!Init
  PROVE  PageInv
<1>1. PICK phone \in BOOLEAN :
        /\ phone => bar = Page!NoShell
        /\ life = [exited |-> FALSE, ever |-> FALSE, live |-> Page!NoShell,
                   next |-> Page!NoShell,
                   fresh |-> FALSE, reattach |-> FALSE, resuming |-> phone]
        /\ link = IF phone THEN Page!NoLink ELSE Page!Opening(bar)
        /\ os = IF phone THEN Page!Disposed ELSE Page!NewOutput
  BY DEF Page!Init
<1>2. /\ alive = {1} /\ 1 \in Page!Shells /\ Page!NoShell # 1 /\ bar \in Page!Ids
      /\ Page!NoShell \in Page!Ids
      /\ output \in [Page!Shells -> Nat \cup {Page!Unknown}] /\ output[1] # Page!Unknown
      /\ timer = FALSE /\ replace = FALSE /\ gap = FALSE /\ dead = {}
      /\ screen = [of |-> Page!NoShell, last |-> Page!Unknown]
      /\ drops \in 0 .. MaxDrops /\ acts \in 0 .. MaxActs
  BY IdsAre DEF Page!Init, Page!Ids, Page!ParametersFit, Page!Shells, Page!NoShell, Page!Unknown
<1>3. /\ life \in Page!Life /\ life.live = Page!NoShell /\ life.next = Page!NoShell
      /\ ~life.exited
      /\ life.resuming = phone
  BY <1>1, <1>2 DEF Page!Life
<1>4. /\ link \in Page!Link /\ link.at = Page!NoShell /\ link.down = <<>> /\ link.hold = <<>>
      /\ ~link.told /\ link.phase = (IF phone THEN "closed" ELSE "opening")
  BY <1>1, <1>2, NoFrames DEF Page!Link, Page!NoLink, Page!Opening
<1>5. Page!TypeOK
  BY <1>1, <1>2, <1>3, <1>4, NothingWaits DEF Page!TypeOK
<1>6. IdsKept
  BY <1>2, <1>3, <1>4 DEF IdsKept, Page!Started, PageGone
<1>7. SocketKept
  BY <1>2, <1>3, <1>4 DEF SocketKept
<1>8. FramesInOrder
  BY <1>4, NoFrames DEF FramesInOrder, PageInOrder
<1>9. ScreenKept
  BY <1>1, <1>2, <1>3, <1>4, NothingWaits DEF ScreenKept
<1> QED BY <1>5, <1>6, <1>7, <1>8, <1>9 DEF PageInv

(* Every step keeps it. *)
LEMMA PageStep ==
  ASSUME Page!ParametersFit, PageInv, [Page!Next]_(Page!vars)
  PROVE  PageInv'
<1>1. CASE Page!Accept
  BY <1>1, AcceptStep
<1>2. ASSUME NEW s \in Page!Shells, Page!Emit(s) PROVE PageInv'
  BY <1>2, EmitStep
<1>3. CASE Page!Ready
  BY <1>3, PageReadyStep
<1>4. CASE Page!ReadyLate
  BY <1>4, ReadyLateStep
<1>5. ASSUME NEW s \in Page!Shells, Page!Exit(s) PROVE PageInv'
  BY <1>5, ExitStep
<1>6. CASE Page!Drop
  BY <1>6, DropStep
<1>7. CASE Page!TimerFires
  BY <1>7, TimerFiresStep
<1>8. CASE Page!Reconnect \/ Page!SwitchToFresh \/ \E s \in Page!Shells : Page!SwitchTo(s)
  BY <1>8, ManuallyStep
<1>9. ASSUME NEW s \in alive \cup {Page!NoShell}, Page!Resume(s) PROVE PageInv'
  BY <1>9, PageResumeStep
<1>10. CASE Page!Take
  BY <1>10, TakeStep
<1>11. CASE Page!Decompress
  BY <1>11, DecompressStep
<1>12. CASE Page!Drained
  BY <1>12, DrainedStep
<1>13. CASE UNCHANGED Page!vars
  BY <1>13 DEF PageInv, Page!TypeOK, IdsKept, SocketKept, FramesInOrder, ScreenKept, PageGone,
     Page!Started,
               Page!vars, Page!server, Page!page, Page!shown
<1> QED
  BY <1>1, <1>2, <1>3, <1>4, <1>5, <1>6, <1>7, <1>8, <1>9, <1>10, <1>11, <1>12, <1>13
  DEF Page!Next

(* It always holds. *)
LEMMA PageInvariance == ASSUME Page!ParametersFit PROVE Page!Spec => []PageInv
<1> QED BY PageStarts, PageStep, PTL DEF Page!Spec

-----------------------------------------------------------------------------
(* What the user may rely on                                               *)

(* Every variable keeps its type, and what waits in the decompress queue   *)
(* or for the end of the replay never exceeds the queue's limit            *)
(* (handleBinaryMessage in create-terminal-output-session.ts).             *)
THEOREM PageIsTyped == ASSUME Page!ParametersFit PROVE Page!Spec => []Page!TypeOK
<1>1. PageInv => Page!TypeOK
  BY DEF PageInv
<1> QED BY <1>1, PageInvariance, PTL

(* What passes the terminal's onData event goes to the shell on the        *)
(* screen, however connections are lost, shells exit and the user switches *)
(* in the middle of a switch (create-terminal-session-lifecycle.ts,        *)
(* create-terminal-output-session.ts, use-terminal-runtime.ts).  It says   *)
(* nothing of key handlers that send by themselves.                        *)
THEOREM KeysGoWhereTheyShow == ASSUME Page!ParametersFit PROVE Page!Spec => []Page!ShownIsTyped
<1>1. PageInv => Page!ShownIsTyped
  BY DEF PageInv, IdsKept, ScreenKept, Page!ShownIsTyped, Page!Sends
<1> QED BY <1>1, PageInvariance, PTL

(* No socket asks for a shell whose exit the page was told (markShellDead  *)
(* in create-terminal-session-lifecycle.ts).                               *)
THEOREM DeadIsLeftAlone == ASSUME Page!ParametersFit PROVE Page!Spec => []Page!DeadIsLeft
<1>1. PageInv => Page!DeadIsLeft
  BY DEF PageInv, SocketKept, Page!DeadIsLeft
<1> QED BY <1>1, PageInvariance, PTL
=============================================================================
