---------------------------- MODULE ViewerRolesProofs ----------------------------
(***************************************************************************)
(* Proofs about ViewerRoles, for any viewers and widths: one viewer        *)
(* answers, the size follows the viewer that is used, and no focus is      *)
(* reported that nobody has.                                               *)
(***************************************************************************)
EXTENDS ViewerRoles, FiniteSetTheorems, TLAPS

-----------------------------------------------------------------------------
(* Sequences of distinct elements                                          *)

LEMMA NumbersHaveMin ==
  ASSUME NEW I \in SUBSET Nat, I # {}
  PROVE  \E i \in I : \A j \in I : i <= j
<1>1. PICK i \in I : \A j \in I : <<j, i>> \notin OpToRel(<, Nat)
  BY NatLessThanWellFounded, WFMin
<1>2. \A j \in I : ~(j < i)
  BY <1>1 DEF OpToRel
<1> QED BY <1>2

LEMMA MinMax ==
  ASSUME NEW n \in Nat, NEW I \in SUBSET (1 .. n), I # {}
  PROVE  Min(I) \in I /\ Max(I) \in I /\ \A j \in I : j <= Max(I)
<1>1. \E i \in I : \A j \in I : i <= j
  BY NumbersHaveMin
<1>2. \E i \in I : \A j \in I : i >= j
  <2> DEFINE D == {n - j : j \in I}
  <2>1. D \subseteq Nat /\ D # {}
    <3>1. \A j \in I : n - j \in Nat
      OBVIOUS
    <3>2. PICK j \in I : TRUE
      OBVIOUS
    <3> QED BY <3>1, <3>2
  <2>2. PICK d \in D : \A e \in D : d <= e
    <3> HIDE DEF D
    <3> QED BY <2>1, NumbersHaveMin
  <2>3. PICK i \in I : d = n - i
    BY <2>2
  <2>4. \A j \in I : n - i <= n - j /\ j \in Nat /\ i \in Nat
    BY <2>2, <2>3
  <2> QED BY <2>4
<1>3. Min(I) \in I
  BY <1>1 DEF Min
<1>4. Max(I) \in I /\ \A j \in I : Max(I) >= j
  BY <1>2 DEF Max
<1> QED BY <1>3, <1>4

LEMMA FirstOfIn ==
  ASSUME NEW V, NEW s \in Seq(V), NEW A, A \cap ToSet(s) # {}
  PROVE  FirstOf(s, A) \in A \cap ToSet(s)
<1> DEFINE I == {i \in DOMAIN s : s[i] \in A}
<1>1. Len(s) \in Nat /\ I \subseteq 1 .. Len(s) /\ I # {}
  BY DEF ToSet
<1>2. Min(I) \in I
  <2> HIDE DEF I
  <2> QED BY <1>1, MinMax
<1> QED BY <1>2 DEF FirstOf, ToSet

(* x is the last element of s that is in A. *)
LastIs(s, A, x) ==
    \E k \in DOMAIN s :
        s[k] = x /\ x \in A /\ \A j \in DOMAIN s : s[j] \in A => j <= k

LEMMA LastOfIs ==
  ASSUME NEW V, NEW s \in Seq(V), NEW A, A \cap ToSet(s) # {}
  PROVE  LastIs(s, A, LastOf(s, A)) /\ LastOf(s, A) \in A \cap ToSet(s)
<1> DEFINE I == {i \in DOMAIN s : s[i] \in A}
<1>1. Len(s) \in Nat /\ I \subseteq 1 .. Len(s) /\ I # {}
  BY DEF ToSet
<1>2. Max(I) \in I /\ \A j \in I : j <= Max(I)
  <2> HIDE DEF I
  <2> QED BY <1>1, MinMax
<1>3. LastOf(s, A) = s[Max(I)]
  BY DEF LastOf
<1>4. PICK k \in I : k = Max(I)
  BY <1>2
<1> HIDE DEF LastOf
<1> QED BY <1>2, <1>3, <1>4 DEF LastIs, ToSet

LEMMA LastOfUnique ==
  ASSUME NEW V, NEW s \in Seq(V), NEW A, NEW x, LastIs(s, A, x)
  PROVE  LastOf(s, A) = x
<1>1. PICK k \in DOMAIN s :
        s[k] = x /\ x \in A /\ \A j \in DOMAIN s : s[j] \in A => j <= k
  BY DEF LastIs
<1>2. LastIs(s, A, LastOf(s, A))
  BY <1>1, LastOfIs DEF ToSet
<1>3. PICK m \in DOMAIN s : /\ s[m] = LastOf(s, A) /\ LastOf(s, A) \in A
                            /\ \A j \in DOMAIN s : s[j] \in A => j <= m
  BY <1>2 DEF LastIs
<1>4. m <= k /\ k <= m /\ m \in Int /\ k \in Int
  BY <1>1, <1>3
<1> QED BY <1>1, <1>3, <1>4

LEMMA LastOfFewer ==
  ASSUME NEW s, NEW A, NEW B \in SUBSET A, NEW x \in B, LastIs(s, A, x)
  PROVE  LastIs(s, B, x)
BY DEF LastIs

LEMMA LastOfAppend ==
  ASSUME NEW V, NEW s \in Seq(V), NEW A, NEW x \in V, x \in A
  PROVE  LastIs(Append(s, x), A, x)
BY DEF LastIs

LEMMA AppendEffect ==
  ASSUME NEW V, NEW s \in Seq(V), IsInjective(s), NEW c \in V, c \notin ToSet(s)
  PROVE  /\ Append(s, c) \in Seq(V) /\ IsInjective(Append(s, c))
         /\ ToSet(Append(s, c)) = ToSet(s) \cup {c} /\ Append(s, c) # <<>>
<1>1. /\ Len(s) \in Nat /\ DOMAIN s = 1 .. Len(s)
      /\ Append(s, c) \in Seq(V) /\ Append(s, c) # <<>>
      /\ DOMAIN Append(s, c) = 1 .. (Len(s) + 1)
      /\ \A i \in 1 .. Len(s) : Append(s, c)[i] = s[i]
      /\ Append(s, c)[Len(s) + 1] = c
  OBVIOUS
<1>2. 1 .. (Len(s) + 1) = (1 .. Len(s)) \cup {Len(s) + 1}
  BY <1>1
<1>3. IsInjective(Append(s, c))
  BY <1>1, <1>2 DEF IsInjective, ToSet
<1>4. ToSet(Append(s, c)) = {Append(s, c)[i] : i \in 1 .. Len(s)} \cup {c}
  BY <1>1, <1>2 DEF ToSet
<1>5. {Append(s, c)[i] : i \in 1 .. Len(s)} = ToSet(s)
  BY <1>1 DEF ToSet
<1> QED BY <1>1, <1>3, <1>4, <1>5

(* Without(s, c) has the others, in their order. *)
LEMMA WithoutEffect ==
  ASSUME NEW V, NEW s \in Seq(V), IsInjective(s), NEW c
  PROVE  /\ Without(s, c) \in Seq(V) /\ IsInjective(Without(s, c))
         /\ ToSet(Without(s, c)) = ToSet(s) \ {c}
         /\ \A A, x : c \notin A /\ LastIs(s, A, x) => LastIs(Without(s, c), A, x)
<1>1. CASE c \notin ToSet(s)
  BY <1>1 DEF Without
<1>2. CASE c \in ToSet(s)
  <2> DEFINE at == CHOOSE i \in DOMAIN s : s[i] = c
             t == [i \in 1 .. Len(s) - 1 |-> IF i < at THEN s[i] ELSE s[i + 1]]
  <2>1. at \in DOMAIN s /\ s[at] = c
    BY <1>2 DEF ToSet
  <2>2. Without(s, c) = t
    BY <1>2 DEF Without
  <2> HIDE DEF at
  <2>3. Len(s) \in Nat /\ DOMAIN s = 1 .. Len(s) /\ at \in 1 .. Len(s)
    BY <2>1
  <2>4. t \in Seq(V) /\ DOMAIN t = 1 .. Len(s) - 1
    BY <2>3
  <2>5. \A i \in 1 .. Len(s) - 1 : t[i] = IF i < at THEN s[i] ELSE s[i + 1]
    OBVIOUS
  <2> HIDE DEF t
  <2>6. IsInjective(t)
    <3> SUFFICES ASSUME NEW a \in DOMAIN t, NEW b \in DOMAIN t, t[a] = t[b]
                 PROVE  a = b
      BY DEF IsInjective
    <3>1. PICK i \in DOMAIN s : t[a] = s[i] /\ i = IF a < at THEN a ELSE a + 1
      BY <2>3, <2>4, <2>5
    <3>2. PICK j \in DOMAIN s : t[b] = s[j] /\ j = IF b < at THEN b ELSE b + 1
      BY <2>3, <2>4, <2>5
    <3>3. i = j
      BY <3>1, <3>2 DEF IsInjective
    <3>4. a \in Int /\ b \in Int /\ at \in Int
      BY <2>3, <2>4
    <3> QED BY <3>1, <3>2, <3>3, <3>4
  <2>7. ASSUME NEW k \in DOMAIN s, k # at
        PROVE  \E i \in DOMAIN t : t[i] = s[k] /\ i = IF k < at THEN k ELSE k - 1
    <3>1. CASE k < at
      BY <2>3, <2>4, <2>5, <2>7, <3>1
    <3>2. CASE k > at
      <4>1. k - 1 \in 1 .. Len(s) - 1 /\ ~(k - 1 < at) /\ (k - 1) + 1 = k
        BY <2>3, <3>2
      <4> QED BY <2>3, <2>4, <2>5, <3>2, <4>1
    <3> QED BY <2>3, <2>7, <3>1, <3>2
  <2>8. ToSet(t) = ToSet(s) \ {c}
    <3>1. ASSUME NEW i \in DOMAIN t PROVE t[i] \in ToSet(s) \ {c}
      BY <2>1, <2>3, <2>4, <2>5, <3>1 DEF ToSet, IsInjective
    <3>2. ASSUME NEW k \in DOMAIN s, s[k] # c PROVE s[k] \in ToSet(t)
      BY <2>1, <2>7, <3>2 DEF ToSet
    <3> QED BY <3>1, <3>2 DEF ToSet
  <2>9. ASSUME NEW A, NEW x, c \notin A, LastIs(s, A, x) PROVE LastIs(t, A, x)
    <3>1. PICK k \in DOMAIN s :
            s[k] = x /\ x \in A /\ \A j \in DOMAIN s : s[j] \in A => j <= k
      BY <2>9 DEF LastIs
    <3>2. k # at
      BY <2>1, <2>9, <3>1
    <3>3. PICK i \in DOMAIN t : t[i] = x /\ i = IF k < at THEN k ELSE k - 1
      BY <2>7, <3>1, <3>2
    <3>4. ASSUME NEW j \in DOMAIN t, t[j] \in A PROVE j <= i
      <4>1. CASE j < at
        <5>1. j \in DOMAIN s /\ s[j] \in A
          BY <2>3, <2>4, <2>5, <3>4, <4>1
        <5>2. j <= k
          BY <3>1, <5>1
        <5> QED BY <2>3, <2>4, <3>2, <3>3, <4>1, <5>1, <5>2
      <4>2. CASE ~(j < at)
        <5>1. j + 1 \in DOMAIN s /\ s[j + 1] \in A
          BY <2>3, <2>4, <2>5, <3>4, <4>2
        <5>2. j + 1 <= k
          BY <3>1, <5>1
        <5> QED BY <2>3, <2>4, <3>2, <3>3, <4>2, <5>1, <5>2
      <4> QED BY <4>1, <4>2
    <3> QED BY <3>1, <3>3, <3>4 DEF LastIs
  <2> QED BY <2>2, <2>4, <2>6, <2>8, <2>9
<1> QED BY <1>1, <1>2

LEMMA SeqOfSet ==
  ASSUME NEW V, NEW s \in Seq(V), NEW W
  PROVE  /\ ToSet(s) \subseteq W => s \in Seq(W)
         /\ ToSet(s) \subseteq V /\ (s = <<>> <=> ToSet(s) = {})
<1>1. /\ Len(s) \in Nat /\ DOMAIN s = 1 .. Len(s)
      /\ \A i \in 1 .. Len(s) : s[i] \in V /\ s[i] \in ToSet(s)
      /\ s = [i \in 1 .. Len(s) |-> s[i]]
  BY DEF ToSet
<1>2. ASSUME ToSet(s) \subseteq W PROVE s \in Seq(W)
  BY <1>1, <1>2
<1>3. ToSet(s) \subseteq V
  BY DEF ToSet
<1>4. s = <<>> => ToSet(s) = {}
  BY DEF ToSet
<1>5. s # <<>> => ToSet(s) # {}
  <2> SUFFICES ASSUME s # <<>> PROVE 1 \in 1 .. Len(s)
    BY <1>1
  <2> QED OBVIOUS
<1> QED BY <1>2, <1>3, <1>4, <1>5

-----------------------------------------------------------------------------
(* The invariant                                                           *)

(* Nobody or one viewer has the flag; somebody as soon as one is live.     *)
Answering ==
    /\ responders = {} \/ \E c \in Viewer : responders = {c}
    /\ live # {} => responders # {}

(* Who has focus was active, so that an heir is found by its activity.     *)
FocusIsActive == focused \subseteq ToSet(recent)

(* The owner was the last to be active of those that have focus. *)
OwnerIsLast == focused # {} => LastIs(recent, focused, owner)

(* A session that is gone has no viewers. *)
GoneIsEmpty == ~alive => order = <<>>

IInv ==
    /\ TypeOK /\ Answering /\ FocusIsActive /\ OwnerIsLast /\ GoneIsEmpty
    /\ NoGhostFocus

Sizes == [Viewer -> Width \cup {0}]
Grids == [pty : Width \cup {NULL}, shared : Width \cup {NULL}, multi : BOOLEAN,
          told : [Viewer -> Width \cup {NULL}]]

(* What TypeOK says, with the sequences over one set. *)
Shape ==
    /\ alive \in BOOLEAN /\ reporting \in BOOLEAN
    /\ order \in Seq(Viewer) /\ IsInjective(order)
    /\ recent \in Seq(Viewer) /\ IsInjective(recent) /\ ToSet(recent) \subseteq Viewers
    /\ live \subseteq Viewers /\ focused \subseteq Viewers /\ responders \subseteq Viewers
    /\ owner \in Viewers \cup {NULL} /\ (owner = NULL <=> order = <<>>)
    /\ size \in Sizes /\ grid \in Grids
    /\ \A c \in Viewer \ Viewers : size[c] = 0 /\ grid.told[c] = NULL
    /\ signal \in BOOLEAN \cup {NULL} /\ (signal = NULL <=> ~reporting \/ ~alive)

LEMMA ShapeIsType == TypeOK <=> Shape
<1>1. ASSUME TypeOK PROVE Shape
  <2>1. order \in Seq(Viewer) /\ recent \in Seq(Viewers)
    BY <1>1 DEF TypeOK
  <2>2. Viewers \subseteq Viewer
    BY <2>1, SeqOfSet DEF Viewers
  <2>3. ToSet(recent) \subseteq Viewers
    BY <2>1, SeqOfSet
  <2>4. recent \in Seq(Viewer)
    BY <2>1, <2>2, <2>3, SeqOfSet
  <2> QED BY <1>1, <2>1, <2>3, <2>4 DEF TypeOK, Shape, Sizes, Grids
<1>2. ASSUME Shape PROVE TypeOK
  <2>1. recent \in Seq(Viewers)
    BY <1>2, SeqOfSet DEF Shape
  <2> QED BY <1>2, <2>1 DEF TypeOK, Shape, Sizes, Grids
<1> QED BY <1>1, <1>2

LEMMA ShapeIsType2 == TypeOK' <=> Shape'
BY ShapeIsType, PTL

-----------------------------------------------------------------------------
(* The helpers of the hub                                                  *)

LEMMA RecomputeEffect ==
  ASSUME grid \in Grids, NEW s \in Seq(Viewer), NEW o \in Viewer \cup {NULL},
         NEW sizes \in Sizes
  PROVE  /\ Recompute(s, o, sizes) \in Grids
         /\ \A c \in Viewer \ ToSet(s) : Recompute(s, o, sizes).told[c] = grid.told[c]
         /\ o = NULL => Recompute(s, o, sizes) = grid
         /\ o # NULL /\ sizes[o] # 0 => Recompute(s, o, sizes).pty = sizes[o]
<1>1. CASE o = NULL \/ (o # NULL /\ sizes[o] = 0)
  BY <1>1 DEF Recompute
<1>2. CASE o # NULL /\ sizes[o] # 0
  <2> DEFINE cols == sizes[o]
             says == IF Len(s) > 1 THEN grid.shared # cols ELSE grid.multi
             told == [c \in Viewer |-> IF says /\ c \in ToSet(s) THEN cols
                                       ELSE grid.told[c]]
  <2>1. Recompute(s, o, sizes) =
          [pty |-> cols, shared |-> cols, multi |-> Len(s) > 1, told |-> told]
    BY <1>2 DEF Recompute
  <2>2. cols \in Width /\ grid.told \in [Viewer -> Width \cup {NULL}]
    BY <1>2 DEF Sizes, Grids
  <2> HIDE DEF says, cols
  <2>3. told \in [Viewer -> Width \cup {NULL}]
    BY <2>2
  <2>4. \A c \in Viewer \ ToSet(s) : told[c] = grid.told[c]
    OBVIOUS
  <2> HIDE DEF told
  <2>5. (Len(s) > 1) \in BOOLEAN
    OBVIOUS
  <2> QED BY <1>2, <2>1, <2>2, <2>3, <2>4, <2>5 DEF Grids, cols
<1> QED BY <1>1, <1>2

LEMMA TouchedEffect ==
  ASSUME Shape, NEW c \in Viewer
  PROVE  /\ Touched(c) \in Seq(Viewer) /\ IsInjective(Touched(c))
         /\ ToSet(Touched(c)) = ToSet(recent) \cup {c}
         /\ \A A : c \in A => LastIs(Touched(c), A, c)
<1> DEFINE rest == Without(recent, c)
<1>1. rest \in Seq(Viewer) /\ IsInjective(rest) /\ ToSet(rest) = ToSet(recent) \ {c}
  BY WithoutEffect DEF Shape
<1>2. Touched(c) = Append(rest, c)
  BY DEF Touched
<1> HIDE DEF rest
<1>3. /\ Append(rest, c) \in Seq(Viewer) /\ IsInjective(Append(rest, c))
      /\ ToSet(Append(rest, c)) = ToSet(rest) \cup {c}
  BY <1>1, AppendEffect
<1>4. \A A : c \in A => LastIs(Append(rest, c), A, c)
  BY <1>1, LastOfAppend
<1> QED BY <1>1, <1>2, <1>3, <1>4

(* A viewer that is promoted owns the size, and was active last.           *)
LEMMA PromoteEffect ==
  ASSUME Shape, NEW c \in Viewers, PromoteOwner(c)
  PROVE  /\ recent' \in Seq(Viewer) /\ IsInjective(recent')
         /\ ToSet(recent') = ToSet(recent) \cup {c}
         /\ \A A : c \in A => LastIs(recent', A, c)
         /\ owner' = c /\ grid' \in Grids
         /\ \A d \in Viewer \ Viewers : grid'.told[d] = grid.told[d]
         /\ PtyFollowsOwner /\ size[c] # 0 => grid'.pty = size[c]
<1>1. c \in Viewer /\ c # NULL /\ order \in Seq(Viewer)
  BY SeqOfSet, ConstantsAssumption DEF Shape, Viewers
<1>2. owner' = c /\ grid' \in {grid, Recompute(order, c, size)}
  BY DEF PromoteOwner
<1>3. /\ grid' \in Grids
      /\ \A d \in Viewer \ Viewers : grid'.told[d] = grid.told[d]
  BY <1>1, <1>2, RecomputeEffect DEF Shape, Viewers
<1>4. PtyFollowsOwner /\ size[c] # 0 => grid'.pty = size[c]
  BY <1>1, RecomputeEffect DEF PromoteOwner, PtyFollowsOwner, Shape
<1>5. recent' = Touched(c)
  BY DEF PromoteOwner
<1> QED BY <1>1, <1>2, <1>3, <1>4, <1>5, TouchedEffect

(* An heir is one of the candidates, and the last of those that have focus. *)
LEMMA LatestEffect ==
  ASSUME Shape, NEW among \in SUBSET Viewers
  PROVE  /\ among = {} => LatestByActivity(among) = NULL
         /\ among # {} => LatestByActivity(among) \in among
         /\ among # {} /\ among \subseteq ToSet(recent)
              => LastIs(recent, among, LatestByActivity(among))
<1> DEFINE active == among \cap ToSet(recent)
<1>1. recent \in Seq(Viewer) /\ order \in Seq(Viewer)
  BY DEF Shape
<1>2. CASE active # {}
  <2>1. LatestByActivity(among) = LastOf(recent, active)
    BY <1>2 DEF LatestByActivity
  <2>2. LastIs(recent, active, LastOf(recent, active)) /\ LastOf(recent, active) \in active
    <3> DEFINE B == active
    <3>1. B \cap ToSet(recent) # {}
      BY <1>2
    <3> HIDE DEF B
    <3>2. LastIs(recent, B, LastOf(recent, B)) /\ LastOf(recent, B) \in B
      BY <1>1, <3>1, LastOfIs
    <3> QED BY <3>2 DEF B
  <2>3. among \subseteq ToSet(recent) => active = among
    OBVIOUS
  <2> QED BY <1>2, <2>1, <2>2, <2>3
<1>3. CASE active = {} /\ among # {}
  <2>1. LatestByActivity(among) = FirstOf(order, among)
    BY <1>3 DEF LatestByActivity
  <2>2. among \cap ToSet(order) # {}
    BY <1>3 DEF Viewers
  <2> QED BY <1>1, <1>3, <2>1, <2>2, FirstOfIn
<1>4. CASE among = {}
  BY <1>4 DEF LatestByActivity
<1> QED BY <1>2, <1>3, <1>4

(* Somebody among s has the flag, and nobody else if nobody else had it.   *)
LEMMA EnsuredEffect ==
  ASSUME NEW s \in Seq(Viewer), NEW flags \in SUBSET ToSet(s),
         flags = {} \/ \E c \in Viewer : flags = {c},
         NEW preferred \in ToSet(s) \cup {NULL}
  PROVE  LET f == Ensured(s, flags, preferred)
         IN  /\ f \subseteq ToSet(s) /\ (f = {} \/ \E c \in Viewer : f = {c})
             /\ f = {} => s = <<>>
<1>1. ToSet(s) \subseteq Viewer /\ NULL \notin Viewer /\ (s = <<>> <=> ToSet(s) = {})
  BY SeqOfSet, ConstantsAssumption
<1>2. CASE flags # {}
  BY <1>2 DEF Ensured
<1>3. CASE flags = {} /\ preferred # NULL
  <2>1. Ensured(s, flags, preferred) = {preferred}
    BY <1>3 DEF Ensured
  <2> QED BY <1>1, <1>3, <2>1
<1>4. CASE flags = {} /\ preferred = NULL
  <2> DEFINE ready == live \cap ToSet(s)
             candidates == IF ready # {} THEN ready ELSE ToSet(s)
  <2>1. Ensured(s, flags, preferred) = IF s = <<>> THEN {} ELSE {FirstOf(s, candidates)}
    BY <1>4 DEF Ensured
  <2>2. ASSUME s # <<>> PROVE FirstOf(s, candidates) \in ToSet(s)
    <3>1. candidates \cap ToSet(s) # {}
      BY <1>1, <2>2
    <3> HIDE DEF candidates
    <3> QED BY <3>1, FirstOfIn
  <2> HIDE DEF candidates
  <2> QED BY <1>1, <2>1, <2>2
<1> QED BY <1>2, <1>3, <1>4

LEMMA SignalEffect ==
  ASSUME NEW on \in BOOLEAN, NEW f
  PROVE  /\ FocusSignal(on, f) \in BOOLEAN \cup {NULL}
         /\ FocusSignal(on, f) = NULL <=> ~on
         /\ FocusSignal(on, f) = TRUE => f # {}
BY ConstantsAssumption DEF FocusSignal

-----------------------------------------------------------------------------
(* The operations keep the invariant                                       *)

LEMMA InitIInv == Init => IInv /\ PtyFollowsOwner
<1> SUFFICES ASSUME Init PROVE IInv /\ PtyFollowsOwner
  OBVIOUS
<1>1. Viewers = {} /\ ToSet(recent) = {}
  BY DEF Init, Viewers, ToSet
<1>2. Shape
  <2>1. order \in Seq(Viewer) /\ IsInjective(order) /\ recent = order
    BY DEF Init, IsInjective
  <2>2. size \in Sizes /\ grid \in Grids
    BY DEF Init, Sizes, Grids
  <2>3. /\ \A c \in Viewer \ Viewers : size[c] = 0 /\ grid.told[c] = NULL
        /\ signal = NULL /\ reporting = FALSE /\ alive = TRUE /\ owner = NULL
        /\ order = <<>>
    BY DEF Init
  <2> QED BY <1>1, <2>1, <2>2, <2>3 DEF Shape, Init
<1>3. TypeOK
  BY <1>2, ShapeIsType
<1>4. Answering /\ FocusIsActive /\ OwnerIsLast /\ GoneIsEmpty /\ PtyFollowsOwner
  BY DEF Init, Answering, FocusIsActive, OwnerIsLast, GoneIsEmpty, PtyFollowsOwner
<1>5. NoGhostFocus
  BY ConstantsAssumption DEF Init, NoGhostFocus
<1> QED BY <1>3, <1>4, <1>5 DEF IInv

LEMMA AttachStep ==
  ASSUME IInv, NEW c \in Viewer, Attach(c)
  PROVE  IInv' /\ (PtyFollowsOwner => PtyFollowsOwner')
<1> DEFINE s == Append(order, c)
           sized == Recompute(s, owner, size)
<1>1. Shape /\ Viewers \subseteq Viewer
  BY ShapeIsType, SeqOfSet DEF IInv, Shape, Viewers
<1>2. /\ alive /\ c \notin Viewers /\ order' = s
      /\ signal' = FocusSignal(reporting, focused)
      /\ UNCHANGED <<alive, live, size, focused, responders, reporting>>
  BY DEF Attach
<1>3. /\ s \in Seq(Viewer) /\ IsInjective(s) /\ s # <<>>
      /\ Viewers' = Viewers \cup {c} /\ ToSet(s) = Viewers \cup {c}
  BY <1>1, <1>2, AppendEffect DEF Shape, Viewers
<1>4. /\ recent' \in Seq(Viewer) /\ IsInjective(recent') /\ ToSet(recent') \subseteq Viewers'
      /\ owner' \in Viewers' /\ owner' # NULL /\ grid' \in Grids
      /\ \A d \in Viewer \ Viewers' : grid'.told[d] = NULL
      /\ FocusIsActive' /\ OwnerIsLast' /\ (PtyFollowsOwner => PtyFollowsOwner')
  <2>1. CASE owner = NULL
    <3>1. recent' = Touched(c) /\ owner' = c /\ grid' = grid
      BY <2>1 DEF Attach
    <3>2. Viewers = {} /\ focused = {}
      BY <1>1, <2>1, SeqOfSet DEF Shape, Viewers
    <3>3. size[c] = 0
      BY <1>1, <1>2 DEF Shape
    <3>4. /\ recent' \in Seq(Viewer) /\ IsInjective(recent')
          /\ ToSet(recent') = ToSet(recent) \cup {c}
      BY <1>1, <3>1, TouchedEffect
    <3> QED BY <1>1, <1>2, <1>3, <3>1, <3>2, <3>3, <3>4, ConstantsAssumption
            DEF Shape, FocusIsActive, OwnerIsLast, PtyFollowsOwner
  <2>2. CASE owner # NULL
    <3>1. /\ grid' = [sized EXCEPT !.told[c] = sized.shared]
          /\ recent' = recent /\ owner' = owner
      BY <2>2 DEF Attach
    <3>2. /\ sized \in Grids
          /\ \A d \in Viewer \ ToSet(s) : sized.told[d] = grid.told[d]
          /\ size[owner] # 0 => sized.pty = size[owner]
      <4>1. grid \in Grids /\ size \in Sizes /\ owner \in Viewer \cup {NULL}
        BY <1>1 DEF Shape
      <4> QED BY <1>3, <2>2, <4>1, RecomputeEffect
    <3> HIDE DEF sized
    <3>3. /\ grid' \in Grids /\ grid'.pty = sized.pty
          /\ \A d \in Viewer \ {c} : grid'.told[d] = sized.told[d]
      BY <3>1, <3>2 DEF Grids
    <3>4. \A d \in Viewer \ Viewers' : grid'.told[d] = NULL
      BY <1>1, <1>3, <3>2, <3>3 DEF Shape
    <3>5. FocusIsActive' /\ OwnerIsLast'
      BY <1>2, <3>1 DEF IInv, FocusIsActive, OwnerIsLast
    <3>6. PtyFollowsOwner'
      BY <1>2, <3>1, <3>2, <3>3 DEF PtyFollowsOwner
    <3> QED BY <1>1, <1>3, <2>2, <3>1, <3>3, <3>4, <3>5, <3>6 DEF Shape
  <2> QED BY <2>1, <2>2
<1>5. /\ signal' \in BOOLEAN \cup {NULL} /\ (signal' = NULL <=> ~reporting')
      /\ signal' = TRUE => focused' # {}
  BY <1>1, <1>2, SignalEffect DEF Shape
<1>6. Shape'
  <2>1. \A d \in Viewer \ Viewers' : size'[d] = 0
    BY <1>1, <1>2, <1>3 DEF Shape
  <2> QED BY <1>1, <1>2, <1>3, <1>4, <1>5, <2>1 DEF Shape
<1>7. Answering' /\ GoneIsEmpty' /\ NoGhostFocus'
  BY <1>2, <1>5 DEF IInv, Answering, GoneIsEmpty, NoGhostFocus
<1> QED BY <1>4, <1>6, <1>7, ShapeIsType2 DEF IInv

LEMMA PromoteStep ==
  ASSUME IInv, NEW c \in Viewer, Promote(c)
  PROVE  IInv' /\ (PtyFollowsOwner => PtyFollowsOwner')
<1>1. Shape
  BY ShapeIsType DEF IInv
<1>2. /\ c \in Viewers /\ responders' = Ensured(order, responders, c)
      /\ live' \in {live, live \cup {c}}
      /\ UNCHANGED <<alive, order, recent, size, focused, owner, grid, reporting, signal>>
  BY DEF Promote
<1>3. Viewers' = Viewers
  BY <1>2 DEF Viewers
<1>4. /\ responders' \subseteq Viewers
      /\ responders' = {} \/ \E d \in Viewer : responders' = {d}
      /\ responders' # {}
  <2>1. order # <<>>
    BY <1>1, <1>2, SeqOfSet DEF Shape, Viewers
  <2> QED BY <1>1, <1>2, <2>1, EnsuredEffect DEF IInv, Answering, Shape, Viewers
<1>5. Shape'
  BY <1>1, <1>2, <1>3, <1>4 DEF Shape
<1>6. Answering'
  BY <1>4 DEF Answering
<1>7. FocusIsActive' /\ OwnerIsLast' /\ GoneIsEmpty' /\ NoGhostFocus'
      /\ (PtyFollowsOwner => PtyFollowsOwner')
  BY <1>2 DEF IInv, FocusIsActive, OwnerIsLast, GoneIsEmpty, NoGhostFocus, PtyFollowsOwner
<1> QED BY <1>5, <1>6, <1>7, ShapeIsType2 DEF IInv

LEMMA InputStep ==
  ASSUME IInv, NEW c \in Viewer, Input(c)
  PROVE  IInv' /\ (PtyFollowsOwner => PtyFollowsOwner')
<1>1. Shape
  BY ShapeIsType DEF IInv
<1>2. /\ c \in Viewers /\ live' \in {live, live \cup {c}}
      /\ focused' = focused \cup {c} /\ PromoteOwner(c)
      /\ responders' = {c}
      /\ UNCHANGED <<alive, order, size, reporting, signal>>
  BY DEF Input, Assigned
<1>3. Viewers' = Viewers
  BY <1>2 DEF Viewers
<1>4. /\ recent' \in Seq(Viewer) /\ IsInjective(recent')
      /\ ToSet(recent') = ToSet(recent) \cup {c}
      /\ \A A : c \in A => LastIs(recent', A, c)
      /\ owner' = c /\ grid' \in Grids
      /\ \A d \in Viewer \ Viewers : grid'.told[d] = grid.told[d]
      /\ PtyFollowsOwner /\ size[c] # 0 => grid'.pty = size[c]
  BY <1>1, <1>2, PromoteEffect
<1>5. Shape'
  <2>1. order # <<>> /\ c # NULL
    BY <1>1, <1>2, SeqOfSet, ConstantsAssumption DEF Shape, Viewers
  <2> QED BY <1>1, <1>2, <1>3, <1>4, <2>1 DEF Shape
<1>6. Answering' /\ FocusIsActive' /\ OwnerIsLast'
  BY <1>2, <1>4 DEF IInv, Answering, FocusIsActive, OwnerIsLast
<1>7. GoneIsEmpty' /\ NoGhostFocus' /\ (PtyFollowsOwner => PtyFollowsOwner')
  BY <1>2, <1>4 DEF IInv, GoneIsEmpty, NoGhostFocus, PtyFollowsOwner
<1> QED BY <1>5, <1>6, <1>7, ShapeIsType2 DEF IInv

LEMMA GainFocusStep ==
  ASSUME IInv, NEW c \in Viewer, GainFocus(c)
  PROVE  IInv' /\ (PtyFollowsOwner => PtyFollowsOwner')
<1>1. Shape
  BY ShapeIsType DEF IInv
<1>2. /\ c \in Viewers /\ focused' = focused \cup {c} /\ PromoteOwner(c)
      /\ signal' = FocusSignal(reporting, focused')
      /\ UNCHANGED <<alive, order, live, size, responders, reporting>>
  BY DEF GainFocus
<1>3. Viewers' = Viewers /\ alive
  <2>1. alive
    BY <1>1, <1>2, SeqOfSet DEF IInv, GoneIsEmpty, Shape, Viewers
  <2> QED BY <1>2, <2>1 DEF Viewers
<1>4. /\ recent' \in Seq(Viewer) /\ IsInjective(recent')
      /\ ToSet(recent') = ToSet(recent) \cup {c}
      /\ \A A : c \in A => LastIs(recent', A, c)
      /\ owner' = c /\ grid' \in Grids
      /\ \A d \in Viewer \ Viewers : grid'.told[d] = grid.told[d]
      /\ PtyFollowsOwner /\ size[c] # 0 => grid'.pty = size[c]
  BY <1>1, <1>2, PromoteEffect
<1>5. /\ signal' \in BOOLEAN \cup {NULL} /\ (signal' = NULL <=> ~reporting)
      /\ signal' = TRUE => focused' # {}
  BY <1>1, <1>2, SignalEffect DEF Shape
<1>6. Shape'
  <2>1. order # <<>> /\ c # NULL
    BY <1>1, <1>2, SeqOfSet, ConstantsAssumption DEF Shape, Viewers
  <2> QED BY <1>1, <1>2, <1>3, <1>4, <1>5, <2>1 DEF Shape
<1>7. Answering' /\ FocusIsActive' /\ OwnerIsLast'
  BY <1>2, <1>4 DEF IInv, Answering, FocusIsActive, OwnerIsLast
<1>8. GoneIsEmpty' /\ NoGhostFocus' /\ (PtyFollowsOwner => PtyFollowsOwner')
  BY <1>2, <1>3, <1>4, <1>5 DEF GoneIsEmpty, NoGhostFocus, PtyFollowsOwner
<1> QED BY <1>6, <1>7, <1>8, ShapeIsType2 DEF IInv

LEMMA LoseFocusStep ==
  ASSUME IInv, NEW c \in Viewer, LoseFocus(c)
  PROVE  IInv' /\ (PtyFollowsOwner => PtyFollowsOwner')
<1> DEFINE left == focused \ {c}
           heir == LatestByActivity(left)
<1>1. Shape
  BY ShapeIsType DEF IInv
<1>2. /\ c \in Viewers /\ focused' = left
      /\ IF owner = c /\ heir # NULL THEN PromoteOwner(heir)
         ELSE UNCHANGED <<recent, owner, grid>>
      /\ signal' = FocusSignal(reporting, left)
      /\ UNCHANGED <<alive, order, live, size, responders, reporting>>
  BY DEF LoseFocus
<1>3. Viewers' = Viewers /\ alive /\ left \in SUBSET Viewers
  <2>1. alive
    BY <1>1, <1>2, SeqOfSet DEF IInv, GoneIsEmpty, Shape, Viewers
  <2> QED BY <1>1, <1>2, <2>1 DEF Shape, Viewers
<1>4. /\ left = {} => heir = NULL
      /\ left # {} => heir \in left /\ LastIs(recent, left, heir)
  BY <1>1, <1>3, LatestEffect DEF IInv, FocusIsActive
<1> HIDE DEF heir
<1>5. /\ signal' \in BOOLEAN \cup {NULL} /\ (signal' = NULL <=> ~reporting)
      /\ signal' = TRUE => focused' # {}
  BY <1>1, <1>2, SignalEffect DEF Shape
<1>6. /\ recent' \in Seq(Viewer) /\ IsInjective(recent')
      /\ ToSet(recent) \subseteq ToSet(recent') /\ ToSet(recent') \subseteq Viewers
      /\ owner' \in Viewers \cup {NULL} /\ (owner' = NULL <=> order = <<>>)
      /\ grid' \in Grids
      /\ \A d \in Viewer \ Viewers : grid'.told[d] = grid.told[d]
      /\ OwnerIsLast' /\ (PtyFollowsOwner => PtyFollowsOwner')
  <2>1. CASE owner = c /\ heir # NULL
    <3>1. PromoteOwner(heir) /\ heir \in left /\ heir \in Viewers
      BY <1>2, <1>3, <1>4, <2>1
    <3>2. /\ recent' \in Seq(Viewer) /\ IsInjective(recent')
          /\ ToSet(recent') = ToSet(recent) \cup {heir}
          /\ \A A : heir \in A => LastIs(recent', A, heir)
          /\ owner' = heir /\ grid' \in Grids
          /\ \A d \in Viewer \ Viewers : grid'.told[d] = grid.told[d]
          /\ PtyFollowsOwner /\ size[heir] # 0 => grid'.pty = size[heir]
      BY <1>1, <3>1, PromoteEffect
    <3>3. order # <<>>
      BY <1>1, <1>2, SeqOfSet DEF Shape, Viewers
    <3>4. OwnerIsLast' /\ (PtyFollowsOwner => PtyFollowsOwner')
      BY <1>2, <3>1, <3>2 DEF OwnerIsLast, PtyFollowsOwner
    <3> QED BY <1>1, <2>1, <3>1, <3>2, <3>3, <3>4 DEF Shape
  <2>2. CASE ~(owner = c /\ heir # NULL)
    <3>1. UNCHANGED <<recent, owner, grid>>
      BY <1>2, <2>2
    <3>2. ASSUME left # {} PROVE LastIs(recent, left, owner)
      <4>1. heir # NULL /\ owner # c
        BY <1>1, <1>3, <1>4, <2>2, <3>2, SeqOfSet, ConstantsAssumption DEF Shape, Viewers
      <4>2. LastIs(recent, focused, owner)
        BY <3>2 DEF IInv, OwnerIsLast
      <4>3. owner \in left
        BY <4>1, <4>2 DEF LastIs
      <4> QED BY <4>2, <4>3, LastOfFewer
    <3> QED BY <1>1, <1>2, <3>1, <3>2 DEF Shape, OwnerIsLast, PtyFollowsOwner
  <2> QED BY <2>1, <2>2
<1>7. Shape'
  BY <1>1, <1>2, <1>3, <1>5, <1>6 DEF Shape
<1>8. FocusIsActive' /\ Answering' /\ GoneIsEmpty' /\ NoGhostFocus'
  BY <1>2, <1>3, <1>5, <1>6 DEF IInv, FocusIsActive, Answering, GoneIsEmpty, NoGhostFocus
<1> QED BY <1>6, <1>7, <1>8, ShapeIsType2 DEF IInv

LEMMA ResizeStep ==
  ASSUME IInv, NEW c \in Viewer, NEW cols \in Width, Resize(c, cols)
  PROVE  IInv' /\ (PtyFollowsOwner => PtyFollowsOwner')
<1>1. Shape
  BY ShapeIsType DEF IInv
<1>2. /\ c \in Viewers /\ size' = [size EXCEPT ![c] = cols]
      /\ grid' = IF owner = c THEN Recompute(order, c, size') ELSE grid
      /\ UNCHANGED <<alive, order, recent, live, focused, responders, owner,
                     reporting, signal>>
  BY DEF Resize, who, roles
<1>3. Viewers' = Viewers
  BY <1>2 DEF Viewers
<1>4. size' \in Sizes /\ \A d \in Viewer : size'[d] = IF d = c THEN cols ELSE size[d]
  BY <1>1, <1>2 DEF Shape, Sizes
<1>5. /\ grid' \in Grids
      /\ \A d \in Viewer \ Viewers : grid'.told[d] = grid.told[d]
      /\ owner = c => grid'.pty = cols
      /\ owner # c => grid' = grid
  <2>1. CASE owner = c
    <3>1. grid' = Recompute(order, c, size') /\ c # NULL /\ size'[c] # 0 /\ size'[c] = cols
      BY <1>2, <1>4, <2>1, ConstantsAssumption
    <3> QED BY <1>1, <1>4, <2>1, <3>1, RecomputeEffect DEF Shape, Viewers
  <2>2. CASE owner # c
    BY <1>1, <1>2, <2>2 DEF Shape
  <2> QED BY <2>1, <2>2
<1>6. Shape'
  BY <1>1, <1>2, <1>3, <1>4, <1>5 DEF Shape
<1>7. PtyFollowsOwner => PtyFollowsOwner'
  BY <1>1, <1>2, <1>4, <1>5, ConstantsAssumption, SeqOfSet
     DEF Shape, Viewers, PtyFollowsOwner
<1>8. FocusIsActive' /\ OwnerIsLast' /\ Answering' /\ GoneIsEmpty' /\ NoGhostFocus'
  BY <1>2 DEF IInv, FocusIsActive, OwnerIsLast, Answering, GoneIsEmpty, NoGhostFocus
<1> QED BY <1>6, <1>7, <1>8, ShapeIsType2 DEF IInv

(* The PTY is resized past its owner only if somebody watches: ById. *)
LEMMA ResizeByIdStep ==
  ASSUME IInv, NEW cols \in Width, ResizeById(cols)
  PROVE  IInv' /\ (~ById /\ PtyFollowsOwner => PtyFollowsOwner')
<1>1. Shape
  BY ShapeIsType DEF IInv
<1>2. /\ order # <<>> => ById
      /\ grid' = [grid EXCEPT !.pty = cols]
      /\ UNCHANGED <<alive, order, recent, live, size, focused, responders, owner,
                     reporting, signal>>
  BY DEF ResizeById, who, roles
<1>3. Viewers' = Viewers
  BY <1>2 DEF Viewers
<1>4. grid' \in Grids /\ grid'.told = grid.told
  BY <1>1, <1>2 DEF Shape, Grids
<1>5. Shape'
  BY <1>1, <1>2, <1>3, <1>4 DEF Shape
<1>6. ~ById /\ PtyFollowsOwner => PtyFollowsOwner'
  BY <1>1, <1>2 DEF Shape, PtyFollowsOwner
<1>7. FocusIsActive' /\ OwnerIsLast' /\ Answering' /\ GoneIsEmpty' /\ NoGhostFocus'
  BY <1>2 DEF IInv, FocusIsActive, OwnerIsLast, Answering, GoneIsEmpty, NoGhostFocus
<1> QED BY <1>5, <1>6, <1>7, ShapeIsType2 DEF IInv

LEMMA ToggleReportingStep ==
  ASSUME IInv, ToggleReporting
  PROVE  IInv' /\ (PtyFollowsOwner => PtyFollowsOwner')
<1>1. Shape
  BY ShapeIsType DEF IInv
<1>2. /\ alive /\ reporting' = ~reporting
      /\ signal' = FocusSignal(reporting', focused)
      /\ UNCHANGED <<alive, order, recent, live, size, focused, responders, owner, grid>>
  BY DEF ToggleReporting, who, roles
<1>3. Viewers' = Viewers /\ reporting' \in BOOLEAN
  BY <1>2 DEF Viewers
<1>4. /\ signal' \in BOOLEAN \cup {NULL} /\ (signal' = NULL <=> ~reporting')
      /\ signal' = TRUE => focused # {}
  BY <1>2, <1>3, SignalEffect
<1>5. Shape'
  BY <1>1, <1>2, <1>3, <1>4 DEF Shape
<1>6. FocusIsActive' /\ OwnerIsLast' /\ Answering' /\ GoneIsEmpty' /\ NoGhostFocus'
      /\ (PtyFollowsOwner => PtyFollowsOwner')
  BY <1>2, <1>4 DEF IInv, FocusIsActive, OwnerIsLast, Answering, GoneIsEmpty, NoGhostFocus,
                    PtyFollowsOwner
<1> QED BY <1>5, <1>6, ShapeIsType2 DEF IInv

LEMMA SessionEndsStep ==
  ASSUME IInv, SessionEnds
  PROVE  IInv' /\ PtyFollowsOwner'
<1>1. Shape
  BY ShapeIsType DEF IInv
<1>2. /\ alive' = FALSE /\ order' = <<>> /\ recent' = <<>> /\ focused' = {}
      /\ responders' = {} /\ live' = {} /\ size' = [c \in Viewer |-> 0]
      /\ owner' = NULL /\ signal' = NULL /\ reporting' = reporting
      /\ grid' = [grid EXCEPT !.told = [c \in Viewer |-> NULL]]
  BY DEF SessionEnds
<1>3. Viewers' = {} /\ ToSet(recent') = {}
  BY <1>2 DEF Viewers, ToSet
<1>4. /\ order' \in Seq(Viewer) /\ IsInjective(order')
      /\ recent' \in Seq(Viewer) /\ IsInjective(recent')
  BY <1>2 DEF IsInjective
<1>5. /\ size' \in Sizes /\ grid' \in Grids
      /\ \A c \in Viewer : size'[c] = 0 /\ grid'.told[c] = NULL
  BY <1>1, <1>2 DEF Shape, Sizes, Grids
<1>6. Shape'
  BY <1>1, <1>2, <1>3, <1>4, <1>5 DEF Shape
<1>7. FocusIsActive' /\ OwnerIsLast' /\ Answering' /\ GoneIsEmpty' /\ PtyFollowsOwner'
  BY <1>2 DEF FocusIsActive, OwnerIsLast, Answering, GoneIsEmpty, PtyFollowsOwner
<1>8. NoGhostFocus'
  BY <1>2, ConstantsAssumption DEF NoGhostFocus
<1> QED BY <1>6, <1>7, <1>8, ShapeIsType2 DEF IInv

LEMMA DetachStep ==
  ASSUME IInv, NEW c \in Viewer, Detach(c)
  PROVE  IInv' /\ (PtyFollowsOwner => PtyFollowsOwner')
<1> DEFINE s == Without(order, c)
           rest == Without(recent, c)
           left == focused \ {c}
           heir == IF left # {} THEN LatestByActivity(left)
                   ELSE LatestByActivity(Viewers \ {c})
           next == IF owner = c THEN heir ELSE owner
           sized == Recompute(s, next, size)
<1>1. Shape
  BY ShapeIsType DEF IInv
<1>2. /\ c \in Viewers /\ order' = s /\ recent' = rest /\ live' = live \ {c}
      /\ size' = [size EXCEPT ![c] = 0] /\ focused' = left /\ owner' = next
      /\ responders' = IF c \in responders
                       THEN Ensured(s, responders \ {c}, NULL) ELSE responders
      /\ grid' = [sized EXCEPT !.told[c] = NULL]
      /\ signal' = FocusSignal(reporting, left)
      /\ UNCHANGED <<alive, reporting>>
  BY DEF Detach
<1>3. /\ s \in Seq(Viewer) /\ IsInjective(s) /\ ToSet(s) = Viewers \ {c}
      /\ Viewers' = Viewers \ {c} /\ (s = <<>> <=> Viewers \ {c} = {})
  BY <1>1, <1>2, WithoutEffect, SeqOfSet DEF Shape, Viewers
<1>4. /\ rest \in Seq(Viewer) /\ IsInjective(rest) /\ ToSet(rest) = ToSet(recent) \ {c}
      /\ \A A, x : c \notin A /\ LastIs(recent, A, x) => LastIs(rest, A, x)
  BY <1>1, WithoutEffect DEF Shape
<1>5. /\ left # {} => heir \in left /\ LastIs(recent, left, heir)
      /\ left = {} /\ Viewers \ {c} # {} => heir \in Viewers \ {c}
      /\ left = {} /\ Viewers \ {c} = {} => heir = NULL
      /\ left \subseteq Viewers \ {c}
  <2>1. left \in SUBSET Viewers /\ left \subseteq Viewers \ {c} /\ left \subseteq ToSet(recent)
    BY <1>1 DEF Shape, IInv, FocusIsActive
  <2> QED BY <1>1, <2>1, LatestEffect
<1> HIDE DEF s, rest, heir
<1>6. alive /\ owner \in Viewers /\ NULL \notin Viewer /\ Viewers \subseteq Viewer
  <2>1. order # <<>> /\ Viewers \subseteq Viewer
    BY <1>1, <1>2, SeqOfSet DEF Shape, Viewers
  <2> QED BY <1>1, <2>1, ConstantsAssumption DEF IInv, GoneIsEmpty, Shape
<1>7. /\ next \in ToSet(s) \cup {NULL} /\ (next = NULL <=> s = <<>>)
      /\ next \in Viewer \cup {NULL} /\ next # c
  BY <1>2, <1>3, <1>5, <1>6
<1>8. OwnerIsLast'
  <2> SUFFICES ASSUME left # {} PROVE LastIs(rest, left, next)
    BY <1>2 DEF OwnerIsLast
  <2>1. CASE owner = c
    BY <1>4, <1>5, <2>1
  <2>2. CASE owner # c
    <3>1. LastIs(recent, focused, owner)
      BY DEF IInv, OwnerIsLast
    <3>2. owner \in left
      BY <2>2, <3>1 DEF LastIs
    <3> QED BY <1>4, <2>2, <3>1, <3>2, LastOfFewer
  <2> QED BY <2>1, <2>2
<1> HIDE DEF next
<1>9. /\ sized \in Grids
      /\ \A d \in Viewer \ ToSet(s) : sized.told[d] = grid.told[d]
      /\ next # NULL /\ size[next] # 0 => sized.pty = size[next]
  <2>1. grid \in Grids /\ size \in Sizes
    BY <1>1 DEF Shape
  <2> QED BY <1>3, <1>7, <2>1, RecomputeEffect
<1> HIDE DEF sized
<1>10. /\ grid' \in Grids /\ grid'.pty = sized.pty /\ grid'.told[c] = NULL
       /\ \A d \in Viewer \ {c} : grid'.told[d] = sized.told[d]
  BY <1>2, <1>9 DEF Grids
<1>11. /\ size' \in Sizes /\ size'[c] = 0
       /\ \A d \in Viewer \ {c} : size'[d] = size[d]
  BY <1>1, <1>2 DEF Shape, Sizes
<1>12. \A d \in Viewer \ Viewers' : size'[d] = 0 /\ grid'.told[d] = NULL
  <2> SUFFICES ASSUME NEW d \in Viewer \ Viewers', d # c
               PROVE  size'[d] = 0 /\ grid'.told[d] = NULL
    BY <1>10, <1>11
  <2> QED BY <1>1, <1>3, <1>9, <1>10, <1>11 DEF Shape
<1>13. /\ responders' \subseteq Viewers' /\ Answering'
  <2>1. CASE c \in responders
    <3>1. responders \ {c} = {}
      BY <2>1 DEF IInv, Answering
    <3>2. responders' = Ensured(s, {}, NULL)
      BY <1>2, <2>1, <3>1
    <3>3. /\ responders' \subseteq ToSet(s)
          /\ responders' = {} \/ \E d \in Viewer : responders' = {d}
          /\ responders' = {} => s = <<>>
      BY <1>3, <3>2, EnsuredEffect
    <3>4. live' # {} => s # <<>>
      BY <1>1, <1>2, <1>3 DEF Shape
    <3> QED BY <1>3, <3>3, <3>4 DEF Answering
  <2>2. CASE c \notin responders
    BY <1>1, <1>2, <1>3, <2>2 DEF IInv, Answering, Shape
  <2> QED BY <2>1, <2>2
<1>14. /\ signal' \in BOOLEAN \cup {NULL} /\ (signal' = NULL <=> ~reporting)
       /\ signal' = TRUE => left # {}
  BY <1>1, <1>2, SignalEffect DEF Shape
<1>15. Shape'
  <2>1. ToSet(rest) \subseteq Viewers \ {c}
    BY <1>1, <1>4 DEF Shape
  <2>2. live' \subseteq Viewers' /\ focused' \subseteq Viewers'
    BY <1>1, <1>2, <1>3, <1>5 DEF Shape
  <2>3. alive' \in BOOLEAN /\ reporting' \in BOOLEAN /\ alive'
    BY <1>1, <1>2, <1>6 DEF Shape
  <2> QED BY <1>2, <1>3, <1>4, <1>7, <1>10, <1>11, <1>12, <1>13, <1>14, <2>1, <2>2, <2>3
          DEF Shape
<1>16. FocusIsActive' /\ GoneIsEmpty' /\ NoGhostFocus'
  BY <1>2, <1>4, <1>6, <1>14 DEF IInv, FocusIsActive, GoneIsEmpty, NoGhostFocus
<1>17. PtyFollowsOwner'
  <2> SUFFICES ASSUME next # NULL, size'[next] # 0 PROVE grid'.pty = size'[next]
    BY <1>2 DEF PtyFollowsOwner
  <2>1. size'[next] = size[next]
    BY <1>7, <1>11
  <2> QED BY <1>9, <1>10, <2>1
<1> QED BY <1>8, <1>13, <1>15, <1>16, <1>17, ShapeIsType2 DEF IInv

-----------------------------------------------------------------------------
(* The theorems                                                            *)

LEMMA NextStep ==
  IInv /\ [Next]_vars => IInv' /\ (~ById /\ PtyFollowsOwner => PtyFollowsOwner')
<1> SUFFICES ASSUME IInv, [Next]_vars
             PROVE  IInv' /\ (~ById /\ PtyFollowsOwner => PtyFollowsOwner')
  OBVIOUS
<1>1. CASE \E c \in Viewer :
              \/ Attach(c) \/ Promote(c) \/ Input(c)
              \/ GainFocus(c) \/ LoseFocus(c) \/ Detach(c)
              \/ \E cols \in Width : Resize(c, cols)
  BY <1>1, AttachStep, PromoteStep, InputStep, GainFocusStep, LoseFocusStep,
     DetachStep, ResizeStep
<1>2. CASE \E cols \in Width : ResizeById(cols)
  BY <1>2, ResizeByIdStep
<1>3. CASE ToggleReporting
  BY <1>3, ToggleReportingStep
<1>4. CASE SessionEnds
  BY <1>4, SessionEndsStep
<1>5. CASE UNCHANGED vars
  <2>1. /\ UNCHANGED <<alive, order, recent, live, size, focused, responders, owner>>
        /\ UNCHANGED <<grid, reporting, signal>>
    BY <1>5 DEF vars, who, roles
  <2>2. Shape
    BY ShapeIsType DEF IInv
  <2>3. Shape'
    BY <2>1, <2>2 DEF Shape, Viewers
  <2> QED BY <2>1, <2>3, ShapeIsType2
          DEF IInv, Answering, FocusIsActive, OwnerIsLast, GoneIsEmpty, NoGhostFocus,
              PtyFollowsOwner
<1> QED BY <1>1, <1>2, <1>3, <1>4, <1>5 DEF Next

LEMMA Invariance == Spec => []IInv
<1>1. Init => IInv
  BY InitIInv
<1>2. IInv /\ [Next]_vars => IInv'
  BY NextStep
<1> QED BY <1>1, <1>2, PTL DEF Spec

(* The records of the viewers exist exactly while they are attached, and   *)
(* every variable has its type, whatever the hub is asked to do.           *)
THEOREM TypeCorrect == Spec => []TypeOK
<1>1. IInv => TypeOK
  BY DEF IInv
<1> QED BY <1>1, Invariance, PTL

(* One viewer answers the application: never two, and somebody as soon as  *)
(* one is live (ensureTerminalResponder, assignTerminalResponder, detach). *)
THEOREM OneAnswers == Spec => []OneResponder
<1>1. IInv => OneResponder
  <2> SUFFICES ASSUME IInv PROVE Cardinality(responders) <= 1
    BY DEF IInv, Answering, OneResponder
  <2>1. CASE responders = {}
    BY <2>1, FS_EmptySet
  <2>2. CASE \E c \in Viewer : responders = {c}
    BY <2>2, FS_Singleton
  <2> QED BY <2>1, <2>2 DEF IInv, Answering
<1> QED BY <1>1, Invariance, PTL

(* The application is told of no focus that no attached viewer has         *)
(* (syncFocusReporting, from attach, detach and setClientFocus).           *)
THEOREM FocusIsReal == Spec => []NoGhostFocus
<1>1. IInv => NoGhostFocus
  BY DEF IInv
<1> QED BY <1>1, Invariance, PTL

(* The owner of the size is the focused viewer that was active last,       *)
(* whatever comes over HTTP (latestClientByActivity, promoteResizeOwner).  *)
THEOREM OwnerIsUsed == Spec => []OwnerIsInUse
<1>1. IInv => OwnerIsInUse
  <2> SUFFICES ASSUME IInv, focused # {}
               PROVE  owner \in focused /\ owner = LastOf(recent, focused)
    BY DEF OwnerIsInUse
  <2>1. LastIs(recent, focused, owner) /\ recent \in Seq(Viewer)
    BY ShapeIsType DEF IInv, OwnerIsLast, Shape
  <2> QED BY <2>1, LastOfUnique DEF LastIs
<1> QED BY <1>1, Invariance, PTL

(* A program is laid out for the viewer that is used (recomputeResize at   *)
(* every handoff), as long as nobody resizes a watched session over HTTP:  *)
(* resizeById does not look for an owner.                                  *)
THEOREM SizeIsThatOfUse ==
  ASSUME ~ById
  PROVE  Spec => []SizeFollowsUse
<1>1. Init => PtyFollowsOwner
  BY InitIInv
<1>2. IInv /\ PtyFollowsOwner /\ [Next]_vars => PtyFollowsOwner'
  BY NextStep
<1>3. Spec => []PtyFollowsOwner
  BY <1>1, <1>2, Invariance, PTL DEF Spec
<1> QED BY <1>3, OwnerIsUsed, PTL DEF SizeFollowsUse

=============================================================================
