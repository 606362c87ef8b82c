---------------------------- MODULE ImApiProofs ----------------------------
(***************************************************************************)
(* Proofs about ImApi, for whatever servers there may be and any number of  *)
(* messages.  The socket is a sequence of any length; what the properties   *)
(* ask of it are numbers of messages (HowMany) and, for the switch, the     *)
(* order of Active and Deactive (Switched).  The invariant IInv says        *)
(*   - of set_im_window: one at a time is on its way to FbTerm or back, and  *)
(*     a callback waits for it, so that check_im_message, which reads only   *)
(*     when none does, never meets an AckWin (AckInv); hence the area of a   *)
(*     drawn window is spared (DrawInv);                                    *)
(*   - of a server that announces nothing: it keeps nothing back, FbTerm     *)
(*     waits for as many acknowledgements as are on the way, and what is     *)
(*     still to be processed leads from im_active to FbTerm's switch         *)
(*     (SilentInv).                                                         *)
(* The theorems are at the end.                                             *)
(***************************************************************************)
EXTENDS ImApi, FiniteSetTheorems, SequenceTheorems, TLAPS

-----------------------------------------------------------------------------
(***************************************************************************)
(* Counting in sequences.                                                  *)
(***************************************************************************)

Places(s, T) == {i \in 1..Len(s) : s[i] \in T}

LEMMA PlacesFinite ==
    ASSUME NEW S, NEW s \in Seq(S), NEW T
    PROVE  /\ IsFiniteSet(Places(s, T)) /\ HowMany(s, T) = Cardinality(Places(s, T))
           /\ HowMany(s, T) \in Nat
<1>1. Len(s) \in Nat
  OBVIOUS
<1>2. IsFiniteSet(1..Len(s))
  BY <1>1, FS_Interval
<1>3. Places(s, T) \in SUBSET (1..Len(s))
  BY DEF Places
<1>4. IsFiniteSet(Places(s, T))
  BY <1>2, <1>3, FS_Subset
<1>5. HowMany(s, T) = Cardinality(Places(s, T))
  BY DEF HowMany, Places
<1> QED BY <1>4, <1>5, FS_CardinalityType

\* None of them.
LEMMA CountNone ==
    ASSUME NEW S, NEW s \in Seq(S), NEW T
    PROVE  HowMany(s, T) = 0 <=> \A i \in 1..Len(s) : s[i] \notin T
<1>1. HowMany(s, T) = 0 <=> Places(s, T) = {}
  BY PlacesFinite, FS_EmptySet
<1> QED BY <1>1 DEF Places

LEMMA CountEmpty == \A T : HowMany(<<>>, T) = 0
<1> SUFFICES ASSUME NEW T PROVE HowMany(<<>>, T) = 0
  OBVIOUS
<1>1. {i \in 1..Len(<<>>) : <<>>[i] \in T} = {}
  OBVIOUS
<1> QED BY <1>1, FS_EmptySet DEF HowMany

LEMMA CountOne ==
    ASSUME NEW e, NEW T
    PROVE  HowMany(<<e>>, T) = IF e \in T THEN 1 ELSE 0
<1>1. CASE e \in T
  <2>1. {i \in 1..Len(<<e>>) : <<e>>[i] \in T} = {1}
    BY <1>1
  <2> QED BY <1>1, <2>1, FS_Singleton DEF HowMany
<1>2. CASE e \notin T
  <2>1. {i \in 1..Len(<<e>>) : <<e>>[i] \in T} = {}
    BY <1>2
  <2> QED BY <1>2, <2>1, FS_EmptySet DEF HowMany
<1> QED BY <1>1, <1>2

\* At most one: two places are the same.
LEMMA CountAtMostOne ==
    ASSUME NEW S, NEW s \in Seq(S), NEW T, HowMany(s, T) <= 1,
           NEW i \in 1..Len(s), NEW j \in 1..Len(s), s[i] \in T, s[j] \in T
    PROVE  i = j
<1>1. i \in Places(s, T) /\ j \in Places(s, T)
  BY DEF Places
<1>2. /\ IsFiniteSet(Places(s, T)) /\ HowMany(s, T) = Cardinality(Places(s, T))
      /\ HowMany(s, T) \in Nat
  BY PlacesFinite
<1>3. HowMany(s, T) # 0
  BY <1>1, <1>2, FS_EmptySet
<1>4. HowMany(s, T) = 1
  BY <1>2, <1>3
<1>5. PICK x : Places(s, T) = {x}
  BY <1>2, <1>4, FS_Singleton
<1> QED BY <1>1, <1>5

LEMMA CountConcat ==
    ASSUME NEW S, NEW s \in Seq(S), NEW t \in Seq(S), NEW T
    PROVE  HowMany(s \o t, T) = HowMany(s, T) + HowMany(t, T)
<1> DEFINE m == Len(s)
           n == Len(t)
           A == Places(s, T)
           B == Places(t, T)
           C == {m + i : i \in B}
           f == [i \in B |-> m + i]
<1>1. m \in Nat /\ n \in Nat /\ Len(s \o t) = m + n /\ s \o t \in Seq(S)
  BY ConcatProperties
<1>2. Places(s \o t, T) = A \cup C
  <2>1. ASSUME NEW k \in 1..(m + n)
        PROVE  k \in Places(s \o t, T) <=> k \in A \cup C
    <3>1. CASE k <= m
      <4>1. (s \o t)[k] = s[k] /\ k \in 1..m
        BY <1>1, <2>1, <3>1, ConcatProperties
      <4>2. k \notin C
        BY <1>1, <3>1 DEF Places
      <4> QED BY <1>1, <2>1, <4>1, <4>2 DEF Places
    <3>2. CASE ~(k <= m)
      <4>1. (s \o t)[k] = t[k - m] /\ k - m \in 1..n
        BY <1>1, <2>1, <3>2, ConcatProperties
      <4>2. k \notin A
        BY <1>1, <3>2 DEF Places
      <4>3. k \in C <=> k - m \in B
        BY <1>1, <2>1 DEF Places
      <4> QED BY <1>1, <2>1, <4>1, <4>2, <4>3 DEF Places
    <3> QED BY <3>1, <3>2
  <2>2. Places(s \o t, T) \subseteq 1..(m + n) /\ A \cup C \subseteq 1..(m + n)
    BY <1>1 DEF Places
  <2> QED BY <2>1, <2>2
<1>3. IsFiniteSet(A) /\ IsFiniteSet(B)
  BY PlacesFinite
<1>4. f \in Bijection(B, C)
  <2>1. f \in [B -> C]
    OBVIOUS
  <2>2. \A i, j \in B : f[i] = f[j] => i = j
    BY <1>1 DEF Places
  <2>3. \A k \in C : \E i \in B : f[i] = k
    OBVIOUS
  <2> QED BY <2>1, <2>2, <2>3 DEF Bijection, Injection, Surjection, IsInjective
<1>5. IsFiniteSet(C) /\ Cardinality(C) = Cardinality(B)
  BY <1>3, <1>4, FS_Bijection DEF ExistsBijection
<1>6. A \cap C = {}
  BY <1>1 DEF Places
<1>7. Cardinality(A \cup C) = Cardinality(A) + Cardinality(C) - Cardinality(A \cap C)
  BY <1>3, <1>5, FS_Union
<1>8. Cardinality(A \cup C) = Cardinality(A) + Cardinality(B)
  <2>1. Cardinality(A) \in Nat /\ Cardinality(B) \in Nat
    BY <1>3, FS_CardinalityType
  <2>2. Cardinality(A \cap C) = 0
    BY <1>6, FS_EmptySet
  <2> HIDE DEF A, B, C
  <2> QED BY <1>5, <1>7, <2>1, <2>2
<1> QED BY <1>1, <1>2, <1>8, PlacesFinite

\* Taking the first element.
LEMMA CountTail ==
    ASSUME NEW S, NEW s \in Seq(S), s # <<>>, NEW T
    PROVE  HowMany(s, T) = HowMany(Tail(s), T) + (IF Head(s) \in T THEN 1 ELSE 0)
<1>1. s = <<Head(s)>> \o Tail(s)
  OBVIOUS
<1>2. <<Head(s)>> \in Seq(S) /\ Tail(s) \in Seq(S)
  OBVIOUS
<1>3. HowMany(s, T) = HowMany(<<Head(s)>>, T) + HowMany(Tail(s), T)
  BY <1>1, <1>2, CountConcat
<1>4. HowMany(Tail(s), T) \in Nat
  BY <1>2, PlacesFinite
<1> QED BY <1>3, <1>4, CountOne

-----------------------------------------------------------------------------
(***************************************************************************)
(* The history of the switch along a sequence of messages.                 *)
(***************************************************************************)

\* A message of FbTerm turns the input method on or off, and only from off or on.
Turns(m, before, after) ==
    /\ m.type = "Active" => ~before /\ after
    /\ m.type = "Deactive" => before /\ ~after
    /\ m.type \notin {"Active", "Deactive"} => (before <=> after)

\* The messages s take a server from the state "first" to the state "last": it is
\* on after the first i of them if i is in H.
Switched(s, first, last) ==
    \E H \in SUBSET (0..Len(s)) :
      /\ 0 \in H <=> first
      /\ Len(s) \in H <=> last
      /\ \A i \in 1..Len(s) : Turns(s[i], i - 1 \in H, i \in H)

LEMMA SwitchedEmpty ==
    ASSUME NEW a, NEW b
    PROVE  Switched(<<>>, a, b) <=> (a <=> b)
<1>1. Len(<<>>) = 0 /\ 0..0 = {0} /\ 1..0 = {}
  OBVIOUS
<1>2. ASSUME Switched(<<>>, a, b) PROVE a <=> b
  BY <1>1, <1>2 DEF Switched
<1>3. ASSUME a <=> b PROVE Switched(<<>>, a, b)
  <2>1. CASE a
    <3>1. {0} \in SUBSET (0..Len(<<>>)) /\ 0 \in {0}
      BY <1>1
    <3> QED BY <1>1, <1>3, <2>1, <3>1 DEF Switched
  <2>2. CASE ~a
    <3>1. {} \in SUBSET (0..Len(<<>>)) /\ 0 \notin {}
      OBVIOUS
    <3> QED BY <1>1, <1>3, <2>2, <3>1 DEF Switched
  <2> QED BY <2>1, <2>2
<1> QED BY <1>2, <1>3

LEMMA SwitchedOne ==
    ASSUME NEW m, NEW a, NEW b, Turns(m, a, b)
    PROVE  Switched(<<m>>, a, b)
<1> DEFINE H == {i \in 0..1 : (i = 0 /\ a) \/ (i = 1 /\ b)}
<1>1. (0 \in H <=> a) /\ (1 \in H <=> b)
  OBVIOUS
<1>2. Len(<<m>>) = 1 /\ <<m>>[1] = m
  OBVIOUS
<1>3. H \in SUBSET (0..Len(<<m>>))
  BY <1>2
<1> HIDE DEF H
<1>4. Turns(m, 0 \in H, 1 \in H)
  BY <1>1 DEF Turns
<1>5. \A i \in 1..Len(<<m>>) : Turns(<<m>>[i], i - 1 \in H, i \in H)
  <2> SUFFICES ASSUME NEW i \in 1..1 PROVE Turns(<<m>>[i], i - 1 \in H, i \in H)
    BY <1>2
  <2>1. i = 1 /\ i - 1 = 0
    OBVIOUS
  <2> QED BY <1>2, <1>4, <2>1
<1> QED BY <1>1, <1>2, <1>3, <1>5 DEF Switched

LEMMA SwitchedTail ==
    ASSUME NEW S, NEW s \in Seq(S), s # <<>>, NEW a, NEW b, Switched(s, a, b)
    PROVE  \E c \in BOOLEAN : Turns(Head(s), a, c) /\ Switched(Tail(s), c, b)
<1> DEFINE n == Len(s)
           t == Tail(s)
<1>1. n \in Nat \ {0} /\ Len(t) = n - 1 /\ (\A i \in 1..(n - 1) : t[i] = s[i + 1]) /\ Head(s) = s[1]
  BY HeadTailProperties, EmptySeq
<1>2. PICK H \in SUBSET (0..n) : /\ 0 \in H <=> a
                                 /\ n \in H <=> b
                                 /\ \A i \in 1..n : Turns(s[i], i - 1 \in H, i \in H)
  BY DEF Switched
<1> DEFINE G == {i \in 0..(n - 1) : i + 1 \in H}
<1> HIDE DEF n, t
<1>3. \A i \in 0..(n - 1) : i \in G <=> i + 1 \in H
  OBVIOUS
<1>4. G \in SUBSET (0..Len(t))
  BY <1>1
<1> HIDE DEF G
<1>5. Turns(Head(s), a, 0 \in G)
  <2>1. Turns(s[1], 1 - 1 \in H, 1 \in H)
    BY <1>1, <1>2
  <2>2. (0 \in G <=> 1 \in H) /\ (1 - 1 \in H <=> a)
    BY <1>1, <1>2, <1>3
  <2> QED BY <1>1, <2>1, <2>2 DEF Turns
<1>6. Switched(t, 0 \in G, b)
  <2>1. Len(t) \in G <=> b
    BY <1>1, <1>2, <1>3
  <2>2. ASSUME NEW i \in 1..Len(t) PROVE Turns(t[i], i - 1 \in G, i \in G)
    <3>1. i \in 1..(n - 1) /\ i + 1 \in 1..n /\ (i + 1) - 1 = i /\ (i - 1) + 1 = i
      BY <1>1
    <3>2. Turns(s[i + 1], i \in H, i + 1 \in H)
      BY <1>2, <3>1
    <3>3. (i - 1 \in G <=> i \in H) /\ (i \in G <=> i + 1 \in H)
      BY <1>1, <1>3, <3>1
    <3> QED BY <1>1, <3>1, <3>2, <3>3 DEF Turns
  <2> QED BY <1>4, <2>1, <2>2 DEF Switched
<1>7. (0 \in G) \in BOOLEAN
  OBVIOUS
<1> QED BY <1>5, <1>6, <1>7 DEF t

LEMMA SwitchedConcat ==
    ASSUME NEW S, NEW s \in Seq(S), NEW t \in Seq(S), NEW a, NEW b, NEW c,
           Switched(s, a, b), Switched(t, b, c)
    PROVE  Switched(s \o t, a, c)
<1> DEFINE m == Len(s)
           n == Len(t)
           u == s \o t
<1>1. /\ m \in Nat /\ n \in Nat /\ Len(u) = m + n
      /\ \A i \in 1..m + n : u[i] = IF i <= m THEN s[i] ELSE t[i - m]
  BY ConcatProperties
<1>2. PICK F \in SUBSET (0..m) : /\ 0 \in F <=> a
                                 /\ m \in F <=> b
                                 /\ \A i \in 1..m : Turns(s[i], i - 1 \in F, i \in F)
  BY DEF Switched
<1>3. PICK G \in SUBSET (0..n) : /\ 0 \in G <=> b
                                 /\ n \in G <=> c
                                 /\ \A i \in 1..n : Turns(t[i], i - 1 \in G, i \in G)
  BY DEF Switched
<1> HIDE DEF m, n, u
<1> DEFINE H == {i \in 0..(m + n) : IF i <= m THEN i \in F ELSE i - m \in G}
<1>4. \A i \in 0..(m + n) : i \in H <=> IF i <= m THEN i \in F ELSE i - m \in G
  OBVIOUS
<1>5. H \in SUBSET (0..Len(u))
  BY <1>1
<1> HIDE DEF H
<1>6. \A i \in 0..m : i \in H <=> i \in F
  BY <1>1, <1>4
<1>7. \A i \in m..(m + n) : i \in H <=> i - m \in G
  BY <1>1, <1>2, <1>3, <1>4
<1>8. 0 \in H <=> a
  BY <1>1, <1>2, <1>6
<1>9. Len(u) \in H <=> c
  BY <1>1, <1>3, <1>7
<1>10. ASSUME NEW i \in 1..Len(u) PROVE Turns(u[i], i - 1 \in H, i \in H)
  <2>1. CASE i <= m
    <3>1. u[i] = s[i] /\ i \in 1..m /\ i \in 0..m /\ i - 1 \in 0..m
      BY <1>1, <2>1
    <3> QED BY <1>2, <1>6, <3>1 DEF Turns
  <2>2. CASE ~(i <= m)
    <3>1. /\ u[i] = t[i - m] /\ i - m \in 1..n
          /\ i \in m..(m + n) /\ i - 1 \in m..(m + n) /\ (i - 1) - m = (i - m) - 1
      BY <1>1, <2>2
    <3>2. Turns(t[i - m], (i - m) - 1 \in G, i - m \in G)
      BY <1>3, <3>1
    <3>3. (i \in H <=> i - m \in G) /\ (i - 1 \in H <=> (i - m) - 1 \in G)
      BY <1>7, <3>1
    <3> QED BY <3>1, <3>2, <3>3 DEF Turns
  <2> QED BY <2>1, <2>2
<1> QED BY <1>5, <1>8, <1>9, <1>10 DEF Switched, u

-----------------------------------------------------------------------------
(***************************************************************************)
(* The invariant.                                                          *)
(***************************************************************************)

\* FbTerm says goodbye only when it goes.
Kinds == IF fbterm = "gone" THEN FromFbterm ELSE FromFbterm \ {"Disconnect"}

Arriving(K) == {Msg(t) : t \in K}

Kept(K) == {Msg(t) : t \in K \ {"AckWin"}}
              \union {Garbage(t) : t \in (K \ {"AckWin"}) \union {"none"}}

On == fbterm \in {"on", "hiding", "away"}

TypeInv ==
    /\ fbterm \in {"off", "on", "hiding", "away", "gone"}
    /\ server \in Servers /\ sent \in 0..server.maxSent
    /\ area \in BOOLEAN /\ imfd \in BOOLEAN /\ im_active \in BOOLEAN
    /\ focus \in BOOLEAN /\ drawn \in BOOLEAN
    /\ toServer \in Seq(Arriving(Kinds))
    /\ batch \in Seq(Kept(Kinds))
    /\ pending \in Seq(Kept(Kinds))
    /\ toFbterm \in Seq(FromServer)
    /\ phase \in {"check", "pending", "reading", "read", "exit", "hung"}
    /\ waiting \in Callbacks \union {"none"}

AckWins == HowMany(toServer, {Msg("AckWin")})
Asks == HowMany(toFbterm, {"SetWin", "Unset"})

\* One set_im_window at a time is on its way to FbTerm or back, and a callback
\* waits for it, so check_im_message does not read meanwhile.
AckInv ==
    /\ waiting # "none" => phase \in {"pending", "read", "exit"}
    /\ waiting = "none" => AckWins = 0
    /\ AckWins <= 1
    /\ fbterm # "gone" => /\ waiting = "none" => Asks = 0
                          /\ Asks + AckWins <= 1

\* FbTerm spares the area of a window that is drawn: a server that announces one
\* draws after AckWin, and erases before it announces that there is none.
DrawInv ==
    fbterm # "gone" =>
      /\ imfd
      /\ waiting = "Deactive" => ~drawn /\ HowMany(toFbterm, {"SetWin"}) = 0
      /\ waiting # "Deactive" => HowMany(toFbterm, {"Unset"}) = 0
      /\ AckWins # 0 /\ waiting # "Deactive" => area
      /\ drawn => area

\* fbterm_ucimf never waits, keeps nothing back, and its messages tell the story
\* of the switch since it last looked.
Acknowledged ==
    HowMany(toServer, {Msg("HideUI")}) + HowMany(batch, {Msg("HideUI")})
      + HowMany(toFbterm, {"AckHideUI"}) = IF fbterm = "hiding" THEN 1 ELSE 0

Told ==
    /\ focus <=> im_active
    /\ \E mid \in BOOLEAN : Switched(batch, im_active, mid) /\ Switched(toServer, mid, On)

Silent ==
    /\ pending = <<>>
    /\ waiting = "none"
    /\ batch \in Seq(Arriving(Kinds))
    /\ phase \in {"check", "reading"} => batch = <<>>
    /\ Acknowledged
    /\ fbterm # "gone" => Told

SilentInv == server.announces = {} => Silent

IInv == TypeInv /\ AckInv /\ DrawInv /\ SilentInv

\* Messages are told apart by their types.
LEMMA MsgIs ==
    /\ \A t : Msg(t).type = t
    /\ \A t : Garbage(t).type = "Garbage"
    /\ \A t, u : Msg(t) = Msg(u) => t = u
BY DEF Msg, Garbage

LEMMA ArrivingKept ==
    ASSUME NEW K, NEW L, K \subseteq L
    PROVE  Arriving(K) \subseteq Arriving(L) /\ Kept(K) \subseteq Kept(L)
BY DEF Arriving, Kept

LEMMA InitIInv == Init => IInv
<1> SUFFICES ASSUME Init PROVE IInv
  OBVIOUS
<1>1. TypeInv
  <2>1. \A S : <<>> \in Seq(S)
    BY EmptySeq
  <2>2. server \in Servers /\ server.maxSent \in Nat
    BY ServersAssumption DEF Init
  <2>3. sent \in 0..server.maxSent
    BY <2>2 DEF Init
  <2> QED BY <2>1, <2>2, <2>3 DEF Init, TypeInv
<1>2. HowMany(toServer, {Msg("AckWin")}) = 0 /\ HowMany(toServer, {Msg("HideUI")}) = 0
  BY CountEmpty DEF Init
<1>3. HowMany(batch, {Msg("HideUI")}) = 0 /\ \A T : HowMany(toFbterm, T) = 0
  BY CountEmpty DEF Init
<1>4. AckInv /\ DrawInv
  BY <1>2, <1>3 DEF Init, AckInv, DrawInv, AckWins, Asks
<1>5. Switched(batch, im_active, FALSE) /\ Switched(toServer, FALSE, On)
  BY SwitchedEmpty DEF Init, On
<1>6. SilentInv
  <2>1. batch \in Seq(Arriving(Kinds))
    BY EmptySeq DEF Init
  <2>2. HowMany(toServer, {Msg("HideUI")}) + HowMany(batch, {Msg("HideUI")})
           + HowMany(toFbterm, {"AckHideUI"}) = 0
    BY <1>2, <1>3
  <2>3. fbterm # "hiding" /\ pending = <<>> /\ waiting = "none" /\ batch = <<>> /\ (focus <=> im_active)
    BY DEF Init
  <2>4. \E mid \in BOOLEAN : Switched(batch, im_active, mid) /\ Switched(toServer, mid, On)
    BY <1>5
  <2> QED BY <2>1, <2>2, <2>3, <2>4 DEF SilentInv, Silent, Acknowledged, Told
<1> QED BY <1>1, <1>4, <1>6 DEF IInv

\* The counts are numbers.
LEMMA Counts ==
    ASSUME TypeInv
    PROVE  /\ AckWins \in Nat /\ Asks \in Nat
           /\ \A T : HowMany(toServer, T) \in Nat
           /\ \A T : HowMany(batch, T) \in Nat
           /\ \A T : HowMany(toFbterm, T) \in Nat
BY PlacesFinite DEF TypeInv, AckWins, Asks

-----------------------------------------------------------------------------
(***************************************************************************)
(* FbTerm.                                                                 *)
(***************************************************************************)

\* FbTerm sends the messages ms.
LEMMA SendsIInv ==
    ASSUME IInv, NEW ms \in Seq(Arriving(Kinds')), Kinds \subseteq Kinds',
           toServer' = toServer \o ms,
           UNCHANGED <<server, area, toFbterm, library, ui>>,
           fbterm' \in {"off", "on", "hiding", "away", "gone"}, sent' \in 0..server.maxSent,
           fbterm # "gone", fbterm # "hiding",
           HowMany(ms, {Msg("AckWin")}) = 0,
           HowMany(ms, {Msg("HideUI")}) = IF fbterm' = "hiding" THEN 1 ELSE 0,
           fbterm' # "gone" => Switched(ms, On, On')
    PROVE  IInv'
<1>1. /\ toServer \in Seq(Arriving(Kinds')) /\ batch \in Seq(Kept(Kinds'))
      /\ pending \in Seq(Kept(Kinds'))
  <2>1. Arriving(Kinds) \subseteq Arriving(Kinds') /\ Kept(Kinds) \subseteq Kept(Kinds')
    BY ArrivingKept
  <2>2. toServer \in Seq(Arriving(Kinds)) /\ batch \in Seq(Kept(Kinds)) /\ pending \in Seq(Kept(Kinds))
    BY DEF IInv, TypeInv
  <2> QED BY <2>1, <2>2, SeqMonotonic
<1>2. toServer' \in Seq(Arriving(Kinds'))
  BY <1>1, ConcatProperties
<1>3. TypeInv'
  BY <1>1, <1>2 DEF IInv, TypeInv, library, ui
<1>4. \A T : HowMany(toServer', T) = HowMany(toServer, T) + HowMany(ms, T)
  BY <1>1, CountConcat
<1>5. AckWins' = AckWins /\ Asks' = Asks
  BY <1>4, Counts DEF AckWins, Asks, IInv
<1>6. AckInv'
  BY <1>5 DEF IInv, AckInv, library
<1>7. DrawInv'
  BY <1>5 DEF IInv, DrawInv, library, ui
<1>8. ASSUME server.announces = {}
      PROVE  /\ pending = <<>> /\ waiting = "none"
             /\ batch \in Seq(Arriving(Kinds'))
             /\ phase \in {"check", "reading"} => batch = <<>>
             /\ HowMany(toServer', {Msg("HideUI")}) + HowMany(batch, {Msg("HideUI")})
                  + HowMany(toFbterm, {"AckHideUI"}) = IF fbterm' = "hiding" THEN 1 ELSE 0
             /\ fbterm' # "gone" =>
                  /\ focus <=> im_active
                  /\ \E mid \in BOOLEAN : Switched(batch, im_active, mid) /\ Switched(toServer', mid, On')
  <2>1. /\ pending = <<>> /\ waiting = "none"
        /\ phase \in {"check", "reading"} => batch = <<>>
        /\ batch \in Seq(Arriving(Kinds))
        /\ focus <=> im_active
    BY <1>8 DEF IInv, SilentInv, Silent, Acknowledged, Told
  <2>2. batch \in Seq(Arriving(Kinds'))
    BY <2>1, ArrivingKept, SeqMonotonic
  <2>3. HowMany(toServer, {Msg("HideUI")}) + HowMany(batch, {Msg("HideUI")})
          + HowMany(toFbterm, {"AckHideUI"}) = 0
    BY <1>8 DEF IInv, SilentInv, Silent, Acknowledged, Told
  <2>4. /\ HowMany(toServer, {Msg("HideUI")}) \in Nat /\ HowMany(batch, {Msg("HideUI")}) \in Nat
        /\ HowMany(toFbterm, {"AckHideUI"}) \in Nat
    BY Counts DEF IInv
  <2>5. HowMany(toServer', {Msg("HideUI")}) + HowMany(batch, {Msg("HideUI")})
          + HowMany(toFbterm, {"AckHideUI"}) = IF fbterm' = "hiding" THEN 1 ELSE 0
    BY <1>4, <2>3, <2>4
  <2>6. PICK mid \in BOOLEAN : Switched(batch, im_active, mid) /\ Switched(toServer, mid, On)
    BY <1>8 DEF IInv, SilentInv, Silent, Acknowledged, Told
  <2>7. fbterm' # "gone" => Switched(toServer', mid, On')
    BY <1>1, <2>6, SwitchedConcat
  <2> QED BY <2>1, <2>2, <2>5, <2>6, <2>7
<1>9. SilentInv'
  BY <1>8 DEF SilentInv, Silent, Acknowledged, Told, library, ui
<1> QED BY <1>3, <1>6, <1>7, <1>9 DEF IInv

LEMMA OneMessage == \A t : [i \in 1..Len(<<t>>) |-> Msg(<<t>>[i])] = <<Msg(t)>>
OBVIOUS

LEMMA TwoMessages ==
    \A t, u : [i \in 1..Len(<<t, u>>) |-> Msg(<<t, u>>[i])] = <<Msg(t)>> \o <<Msg(u)>>
OBVIOUS

\* FbTerm sends one message.
LEMMA SendsOne ==
    ASSUME IInv, NEW from \in {"off", "on", "away"}, NEW to \in {"off", "on", "hiding", "away", "gone"},
           NEW t \in FromFbterm \ {"AckWin"}, FbtermSends(from, to, <<t>>),
           t = "Disconnect" <=> to = "gone",
           t = "HideUI" <=> to = "hiding",
           to # "gone" => Turns(Msg(t), On, to \in {"on", "hiding", "away"})
    PROVE  IInv'
<1> DEFINE ms == <<Msg(t)>>
<1>1. /\ fbterm = from /\ fbterm' = to
      /\ toServer' = toServer \o ms
      /\ UNCHANGED <<server, area, toFbterm, library, ui>>
      /\ sent + 1 <= server.maxSent /\ sent' = sent + 1
  BY OneMessage DEF FbtermSends
<1>2. sent' \in 0..server.maxSent
  BY <1>1, ServersAssumption DEF IInv, TypeInv
<1>3. Kinds \subseteq Kinds' /\ t \in Kinds'
  BY <1>1 DEF Kinds
<1>4. ms \in Seq(Arriving(Kinds'))
  BY <1>3 DEF Arriving
<1>5. /\ HowMany(ms, {Msg("AckWin")}) = 0
      /\ HowMany(ms, {Msg("HideUI")}) = IF to = "hiding" THEN 1 ELSE 0
  BY CountOne, MsgIs
<1>6. to # "gone" => Switched(ms, On, On')
  BY <1>1, SwitchedOne DEF On
<1> HIDE DEF ms
<1> QED BY <1>1, <1>2, <1>3, <1>4, <1>5, <1>6, SendsIInv

LEMMA FbtermStep ==
    ASSUME IInv, FbtermNext
    PROVE  IInv'
<1>1. CASE SwitchOn
  <2> DEFINE a == <<Msg("Active")>>
             b == <<Msg("CursorPosition")>>
             ms == a \o b
  <2>1. /\ fbterm = "off" /\ fbterm' = "on"
        /\ toServer' = toServer \o ms
        /\ UNCHANGED <<server, area, toFbterm, library, ui>>
        /\ sent + 2 <= server.maxSent /\ sent' = sent + 2
    BY <1>1, TwoMessages DEF SwitchOn, FbtermSends
  <2>2. sent' \in 0..server.maxSent
    BY <2>1, ServersAssumption DEF IInv, TypeInv
  <2>3. Kinds \subseteq Kinds' /\ "Active" \in Kinds' /\ "CursorPosition" \in Kinds'
    BY <2>1 DEF Kinds, FromFbterm
  <2>4. a \in Seq(Arriving(Kinds')) /\ b \in Seq(Arriving(Kinds'))
    BY <2>3 DEF Arriving
  <2>5. ms \in Seq(Arriving(Kinds')) /\ \A T : HowMany(ms, T) = HowMany(a, T) + HowMany(b, T)
    BY <2>4, ConcatProperties, CountConcat
  <2>6. HowMany(ms, {Msg("AckWin")}) = 0 /\ HowMany(ms, {Msg("HideUI")}) = 0
    BY <2>5, CountOne, MsgIs
  <2>7. Turns(Msg("Active"), On, On') /\ Turns(Msg("CursorPosition"), On', On')
    BY <2>1, MsgIs DEF Turns, On
  <2>8. Switched(a, On, On') /\ Switched(b, On', On')
    BY <2>7, SwitchedOne
  <2>9. Switched(ms, On, On')
    BY <2>4, <2>8, SwitchedConcat
  <2> HIDE DEF ms
  <2> QED BY <2>1, <2>2, <2>3, <2>5, <2>6, <2>9, SendsIInv
<1>2. CASE SwitchOff
  <2>1. FbtermSends("on", "off", <<"Deactive">>) /\ Turns(Msg("Deactive"), On, "off" \in {"on", "hiding", "away"})
    BY <1>2, MsgIs DEF SwitchOff, FbtermSends, Turns, On
  <2> QED BY <2>1, SendsOne DEF FromFbterm
<1>3. CASE Key
  <2>1. FbtermSends("on", "on", <<"SendKey">>) /\ Turns(Msg("SendKey"), On, TRUE)
    BY <1>3, MsgIs DEF Key, FbtermSends, Turns, On
  <2> QED BY <2>1, SendsOne DEF FromFbterm
<1>4. CASE CursorMoves
  <2>1. FbtermSends("on", "on", <<"CursorPosition">>) /\ Turns(Msg("CursorPosition"), On, TRUE)
    BY <1>4, MsgIs DEF CursorMoves, FbtermSends, Turns, On
  <2> QED BY <2>1, SendsOne DEF FromFbterm
<1>5. CASE Leave
  <2>1. FbtermSends("on", "hiding", <<"HideUI">>) /\ Turns(Msg("HideUI"), On, TRUE)
    BY <1>5, MsgIs DEF Leave, FbtermSends, Turns, On
  <2> QED BY <2>1, SendsOne DEF FromFbterm
<1>6. CASE Return
  <2>1. FbtermSends("away", "on", <<"ShowUI">>) /\ Turns(Msg("ShowUI"), On, TRUE)
    BY <1>6, MsgIs DEF Return, FbtermSends, Turns, On
  <2> QED BY <2>1, SendsOne DEF FromFbterm
<1>7. CASE Quit
  <2>1. PICK from \in {"off", "on", "away"} : FbtermSends(from, "gone", <<"Disconnect">>)
    BY <1>7 DEF Quit
  <2> QED BY <2>1, SendsOne DEF FromFbterm
<1> QED BY <1>1, <1>2, <1>3, <1>4, <1>5, <1>6, <1>7 DEF FbtermNext

\* Something moves from the count a to the count w.
Moved(a, w, b, v) == a \in Nat /\ w \in Nat /\ b \in Nat /\ v \in Nat /\ b + v = a + w /\ b <= a

LEMMA MovedIs ==
    ASSUME NEW a, NEW w, NEW b, NEW v, NEW n, n \in Nat, w \in Nat, b \in Nat, v = w + n, a = b + n
    PROVE  Moved(a, w, b, v)
BY DEF Moved

LEMMA MovedBound ==
    ASSUME NEW a, NEW w, NEW b, NEW v, Moved(a, w, b, v)
    PROVE  /\ a + w <= 1 => b + v <= 1 /\ v <= 1
           /\ a = 0 /\ w = 0 => b = 0 /\ v = 0
BY DEF Moved

\* FbTerm takes a message and answers it.
LEMMA ReceivesStep ==
    ASSUME IInv, FbtermReceives
    PROVE  IInv'
<1> DEFINE type == Head(toFbterm)
           reply == CASE type \in {"SetWin", "Unset"} -> <<Msg("AckWin")>>
                      [] type = "Ping" -> <<Msg("AckPing")>>
                      [] OTHER -> <<>>
<1>1. /\ fbterm # "gone" /\ toFbterm # <<>> /\ toFbterm' = Tail(toFbterm)
      /\ fbterm' = IF type = "AckHideUI" /\ fbterm = "hiding" THEN "away" ELSE fbterm
      /\ area' = ((area \/ type = "SetWin") /\ type # "Unset")
      /\ toServer' = toServer \o reply
      /\ UNCHANGED <<server, sent, library, ui>>
  BY DEF FbtermReceives
<1>2. type \in FromServer /\ toFbterm' \in Seq(FromServer)
  BY <1>1, HeadTailProperties DEF IInv, TypeInv
<1>3. \A T : HowMany(toFbterm, T) = HowMany(toFbterm', T) + (IF type \in T THEN 1 ELSE 0)
  BY <1>1, CountTail DEF IInv, TypeInv
<1>4. \A T : HowMany(toFbterm', T) \in Nat
  BY <1>2, PlacesFinite
<1>5. Kinds' = Kinds /\ On' = On /\ fbterm' # "gone"
  BY <1>1 DEF Kinds, On
<1>6. reply \in Seq(Arriving(Kinds))
  <2>1. "AckWin" \in Kinds /\ "AckPing" \in Kinds
    BY DEF Kinds, FromFbterm
  <2>2. Msg("AckWin") \in Arriving(Kinds) /\ Msg("AckPing") \in Arriving(Kinds)
    BY <2>1 DEF Arriving
  <2>3. reply \in {<<>>, <<Msg("AckWin")>>, <<Msg("AckPing")>>}
    OBVIOUS
  <2>4. <<>> \in Seq(Arriving(Kinds))
    BY EmptySeq
  <2>5. <<Msg("AckWin")>> \in Seq(Arriving(Kinds)) /\ <<Msg("AckPing")>> \in Seq(Arriving(Kinds))
    BY <2>2
  <2> HIDE DEF reply
  <2> QED BY <2>3, <2>4, <2>5
<1>7. /\ HowMany(reply, {Msg("AckWin")}) = IF type \in {"SetWin", "Unset"} THEN 1 ELSE 0
      /\ HowMany(reply, {Msg("HideUI")}) = 0
  <2>1. CASE type \in {"SetWin", "Unset"}
    BY <2>1, CountOne, MsgIs
  <2>2. CASE type = "Ping"
    BY <2>2, CountOne, MsgIs
  <2>3. CASE type \notin {"SetWin", "Unset", "Ping"}
    BY <2>3, CountEmpty
  <2> QED BY <2>1, <2>2, <2>3
<1>8. \A a : Switched(reply, a, a)
  <2> TAKE a
  <2>1. CASE type \in {"SetWin", "Unset"}
    <3>1. reply = <<Msg("AckWin")>> /\ Turns(Msg("AckWin"), a, a)
      BY <2>1, MsgIs DEF Turns
    <3> QED BY <3>1, SwitchedOne
  <2>2. CASE type = "Ping"
    <3>1. reply = <<Msg("AckPing")>> /\ Turns(Msg("AckPing"), a, a)
      BY <2>2, MsgIs DEF Turns
    <3> QED BY <3>1, SwitchedOne
  <2>3. CASE type \notin {"SetWin", "Unset", "Ping"}
    <3>1. reply = <<>>
      BY <2>3
    <3> QED BY <3>1, SwitchedEmpty
  <2> QED BY <2>1, <2>2, <2>3
<1> HIDE DEF reply
<1>9. toServer \in Seq(Arriving(Kinds))
  BY DEF IInv, TypeInv
<1>10. /\ toServer' \in Seq(Arriving(Kinds))
       /\ \A T : HowMany(toServer', T) = HowMany(toServer, T) + HowMany(reply, T)
  BY <1>1, <1>6, <1>9, ConcatProperties, CountConcat
<1> HIDE DEF type
<1>11. TypeInv'
  BY <1>1, <1>2, <1>5, <1>10 DEF IInv, TypeInv, library, ui
<1>12. /\ AckWins' = AckWins + (IF type \in {"SetWin", "Unset"} THEN 1 ELSE 0)
       /\ Asks = Asks' + (IF type \in {"SetWin", "Unset"} THEN 1 ELSE 0)
       /\ AckWins \in Nat /\ Asks' \in Nat
  <2>1. AckWins \in Nat /\ Asks \in Nat
    BY Counts DEF IInv
  <2>2. Asks' \in Nat
    BY <1>4 DEF Asks
  <2>3. Asks = Asks' + (IF type \in {"SetWin", "Unset"} THEN 1 ELSE 0)
    BY <1>3 DEF Asks
  <2>4. AckWins' = AckWins + (IF type \in {"SetWin", "Unset"} THEN 1 ELSE 0)
    BY <1>7, <1>10 DEF AckWins
  <2> QED BY <2>1, <2>2, <2>3, <2>4
<1>13. AckInv'
  <2>1. Asks + AckWins <= 1 /\ (waiting = "none" => AckWins = 0 /\ Asks = 0)
    BY <1>1 DEF IInv, AckInv
  <2> DEFINE n == IF type \in {"SetWin", "Unset"} THEN 1 ELSE 0
  <2>2. n \in Nat /\ AckWins' = AckWins + n /\ Asks = Asks' + n
    BY <1>12
  <2>3. AckWins \in Nat /\ Asks' \in Nat
    BY <1>12
  <2> HIDE DEF n
  <2>4. Moved(Asks, AckWins, Asks', AckWins')
    BY <2>2, <2>3, MovedIs
  <2>5. Asks' + AckWins' <= 1 /\ AckWins' <= 1
    BY <2>1, <2>4, MovedBound
  <2>7. ASSUME waiting = "none" PROVE AckWins' = 0 /\ Asks' = 0
    BY <2>1, <2>4, <2>7, MovedBound
  <2>8. waiting' = waiting
    BY <1>1 DEF library
  <2>9. waiting # "none" => phase' \in {"pending", "read", "exit"}
    BY <1>1 DEF IInv, AckInv, library
  <2> QED BY <2>5, <2>7, <2>8, <2>9 DEF AckInv
<1>14. DrawInv'
  <2>1. /\ imfd
        /\ waiting = "Deactive" => ~drawn /\ HowMany(toFbterm, {"SetWin"}) = 0
        /\ waiting # "Deactive" => HowMany(toFbterm, {"Unset"}) = 0
        /\ AckWins # 0 /\ waiting # "Deactive" => area
        /\ drawn => area
    BY <1>1 DEF IInv, DrawInv
  <2>2. HowMany(toFbterm', {"SetWin"}) \in Nat /\ HowMany(toFbterm', {"Unset"}) \in Nat
    BY <1>4
  <2>3. /\ HowMany(toFbterm, {"SetWin"}) = HowMany(toFbterm', {"SetWin"}) + (IF type = "SetWin" THEN 1 ELSE 0)
        /\ HowMany(toFbterm, {"Unset"}) = HowMany(toFbterm', {"Unset"}) + (IF type = "Unset" THEN 1 ELSE 0)
    BY <1>3
  <2>4. /\ waiting = "Deactive" => HowMany(toFbterm', {"SetWin"}) = 0 /\ type # "SetWin"
        /\ waiting # "Deactive" => HowMany(toFbterm', {"Unset"}) = 0 /\ type # "Unset"
    BY <2>1, <2>2, <2>3
  <2>5. drawn => area'
    BY <1>1, <2>1, <2>4
  <2>6. AckWins' # 0 /\ waiting # "Deactive" => area'
    <3> SUFFICES ASSUME AckWins' # 0, waiting # "Deactive" PROVE area'
      OBVIOUS
    <3>1. type # "Unset"
      BY <2>4
    <3>2. CASE type = "SetWin"
      BY <1>1, <3>2
    <3>3. CASE type # "SetWin"
      <4>1. AckWins # 0
        BY <1>12, <3>1, <3>3
      <4> QED BY <1>1, <2>1, <3>1, <4>1
    <3> QED BY <3>2, <3>3
  <2>7. UNCHANGED <<imfd, waiting, drawn>>
    BY <1>1 DEF library, ui
  <2> QED BY <2>1, <2>4, <2>5, <2>6, <2>7 DEF DrawInv
<1>15. ASSUME server.announces = {}
       PROVE  /\ HowMany(toServer', {Msg("HideUI")}) + HowMany(batch, {Msg("HideUI")})
                   + HowMany(toFbterm', {"AckHideUI"}) = IF fbterm' = "hiding" THEN 1 ELSE 0
              /\ \E mid \in BOOLEAN : Switched(batch, im_active, mid) /\ Switched(toServer', mid, On')
  <2>1. HowMany(toServer', {Msg("HideUI")}) = HowMany(toServer, {Msg("HideUI")})
    BY <1>7, <1>10, Counts DEF IInv
  <2>2. HowMany(toFbterm, {"AckHideUI"}) = HowMany(toFbterm', {"AckHideUI"}) + (IF type = "AckHideUI" THEN 1 ELSE 0)
    BY <1>3
  <2>3. /\ HowMany(toServer, {Msg("HideUI")}) \in Nat /\ HowMany(batch, {Msg("HideUI")}) \in Nat
        /\ HowMany(toFbterm', {"AckHideUI"}) \in Nat
    BY <1>4, Counts DEF IInv
  <2>4. HowMany(toServer, {Msg("HideUI")}) + HowMany(batch, {Msg("HideUI")})
           + HowMany(toFbterm, {"AckHideUI"}) = IF fbterm = "hiding" THEN 1 ELSE 0
    BY <1>15 DEF IInv, SilentInv, Silent, Acknowledged, Told
  <2>5. HowMany(toServer', {Msg("HideUI")}) + HowMany(batch, {Msg("HideUI")})
           + HowMany(toFbterm', {"AckHideUI"}) = IF fbterm' = "hiding" THEN 1 ELSE 0
    BY <1>1, <2>1, <2>2, <2>3, <2>4
  <2>6. PICK mid \in BOOLEAN : Switched(batch, im_active, mid) /\ Switched(toServer, mid, On)
    BY <1>1, <1>15 DEF IInv, SilentInv, Silent, Acknowledged, Told
  <2>7. Switched(toServer', mid, On')
    BY <1>1, <1>5, <1>6, <1>8, <1>9, <2>6, SwitchedConcat
  <2> QED BY <2>5, <2>6, <2>7
<1>16. SilentInv'
  BY <1>1, <1>5, <1>15 DEF IInv, SilentInv, Silent, Acknowledged, Told, library, ui
<1> QED BY <1>11, <1>13, <1>14, <1>16 DEF IInv

-----------------------------------------------------------------------------
(***************************************************************************)
(* The callbacks.                                                          *)
(***************************************************************************)

\* What the server writes.
LEMMA WriteIs ==
    ASSUME TypeInv, NEW STATE w, w \in Seq(FromServer), Write(w)
    PROVE  /\ toFbterm' \in Seq(FromServer)
           /\ imfd => \A T : HowMany(toFbterm', T) = HowMany(toFbterm, T) + HowMany(w, T)
           /\ ~imfd => toFbterm' = toFbterm
           /\ phase' = phase \/ (phase' = "exit" /\ fbterm = "gone")
<1>1. toFbterm \in Seq(FromServer)
  BY DEF TypeInv
<1>2. toFbterm' = IF imfd THEN toFbterm \o w ELSE toFbterm
  BY DEF Write
<1>3. phase' = phase \/ (phase' = "exit" /\ fbterm = "gone")
  BY DEF Write
<1>4. CASE imfd
  <2>1. toFbterm' = toFbterm \o w
    BY <1>2, <1>4
  <2>2. toFbterm' \in Seq(FromServer)
    BY <1>1, <2>1, ConcatProperties
  <2>3. \A T : HowMany(toFbterm \o w, T) = HowMany(toFbterm, T) + HowMany(w, T)
    BY <1>1, CountConcat
  <2> QED BY <1>3, <1>4, <2>1, <2>2, <2>3
<1>5. CASE ~imfd
  BY <1>1, <1>2, <1>3, <1>5
<1> QED BY <1>4, <1>5

\* The sets of messages the invariant counts on the way to FbTerm.
Asking == {{"SetWin", "Unset"}, {"SetWin"}, {"Unset"}}

LEMMA AnswersIs ==
    ASSUME NEW STATE type, NEW types \in Answers(type)
    PROVE  /\ types \in Seq(FromServer)
           /\ \A T \in Asking : HowMany(types, T) = 0
           /\ HowMany(types, {"AckHideUI"}) = IF type = "HideUI" THEN 1 ELSE 0
<1>1. /\ type = "HideUI" => types = <<"AckHideUI">>
      /\ type # "HideUI" => types \in {<<>>, <<"PutText">>}
  BY DEF Answers
<1>2. CASE type = "HideUI"
  <2>1. types = <<"AckHideUI">>
    BY <1>1, <1>2
  <2>2. types \in Seq(FromServer)
    BY <2>1 DEF FromServer
  <2>3. \A T : HowMany(types, T) = IF "AckHideUI" \in T THEN 1 ELSE 0
    BY <2>1, CountOne
  <2> QED BY <1>2, <2>2, <2>3 DEF Asking
<1>3. CASE type # "HideUI" /\ types = <<>>
  <2>1. types \in Seq(FromServer)
    BY <1>3, EmptySeq
  <2> QED BY <1>3, <2>1, CountEmpty
<1>4. CASE type # "HideUI" /\ types = <<"PutText">>
  <2>1. types \in Seq(FromServer)
    BY <1>4 DEF FromServer
  <2>2. \A T : HowMany(types, T) = IF "PutText" \in T THEN 1 ELSE 0
    BY <1>4, CountOne
  <2> QED BY <1>4, <2>1, <2>2 DEF Asking
<1> QED BY <1>1, <1>2, <1>3, <1>4

\* A callback to its end, after nothing or a Ping.
LEMMA FinishIs ==
    ASSUME TypeInv, NEW STATE type, NEW STATE first, first = <<>> \/ first = <<"Ping">>,
           Finish(type, first)
    PROVE  /\ toFbterm' \in Seq(FromServer)
           /\ imfd => /\ \A T \in Asking : HowMany(toFbterm', T) = HowMany(toFbterm, T)
                      /\ HowMany(toFbterm', {"AckHideUI"})
                           = HowMany(toFbterm, {"AckHideUI"}) + (IF type = "HideUI" THEN 1 ELSE 0)
           /\ ~imfd => toFbterm' = toFbterm
           /\ phase' = phase \/ (phase' = "exit" /\ fbterm = "gone")
           /\ im_active' \in BOOLEAN /\ focus' \in BOOLEAN /\ drawn' \in BOOLEAN
<1>1. PICK types \in Answers(type) : Write(first \o types)
  BY DEF Finish
<1>2. /\ types \in Seq(FromServer)
      /\ \A T \in Asking : HowMany(types, T) = 0
      /\ HowMany(types, {"AckHideUI"}) = IF type = "HideUI" THEN 1 ELSE 0
  BY AnswersIs
<1>3. /\ first \in Seq(FromServer)
      /\ \A T \in Asking \union {{"AckHideUI"}} : HowMany(first, T) = 0
  <2>1. CASE first = <<>>
    <3>1. first \in Seq(FromServer)
      BY <2>1, EmptySeq
    <3> QED BY <2>1, <3>1, CountEmpty
  <2>2. CASE first = <<"Ping">>
    <3>1. first \in Seq(FromServer)
      BY <2>2 DEF FromServer
    <3>2. \A T : HowMany(first, T) = IF "Ping" \in T THEN 1 ELSE 0
      BY <2>2, CountOne
    <3> QED BY <3>1, <3>2 DEF Asking
  <2> QED BY <2>1, <2>2
<1> DEFINE w == first \o types
<1>4. w \in Seq(FromServer) /\ \A T : HowMany(w, T) = HowMany(first, T) + HowMany(types, T)
  BY <1>2, <1>3, ConcatProperties, CountConcat
<1>5. Write(w)
  BY <1>1
<1> HIDE DEF w
<1>6. \A T \in Asking : HowMany(w, T) = 0
  BY <1>2, <1>3, <1>4
<1>7. HowMany(w, {"AckHideUI"}) = IF type = "HideUI" THEN 1 ELSE 0
  BY <1>2, <1>3, <1>4
<1>8. /\ toFbterm' \in Seq(FromServer)
      /\ imfd => \A T : HowMany(toFbterm', T) = HowMany(toFbterm, T) + HowMany(w, T)
      /\ ~imfd => toFbterm' = toFbterm
      /\ phase' = phase \/ (phase' = "exit" /\ fbterm = "gone")
  BY <1>4, <1>5, WriteIs
<1>9. \A T : HowMany(toFbterm, T) \in Nat
  BY Counts
<1>10. imfd => /\ \A T \in Asking : HowMany(toFbterm', T) = HowMany(toFbterm, T)
               /\ HowMany(toFbterm', {"AckHideUI"})
                    = HowMany(toFbterm, {"AckHideUI"}) + (IF type = "HideUI" THEN 1 ELSE 0)
  BY <1>6, <1>7, <1>8, <1>9
<1>11. im_active' \in BOOLEAN /\ focus' \in BOOLEAN /\ drawn' \in BOOLEAN
  BY DEF Finish, Ends, TypeInv
<1> QED BY <1>8, <1>10, <1>11

-----------------------------------------------------------------------------
(***************************************************************************)
(* process_message.                                                        *)
(***************************************************************************)

\* The first message of the batch is taken.
LEMMA TakenIs ==
    ASSUME TypeInv, NEW type, Takes(type)
    PROVE  /\ waiting = "none" /\ phase \in {"pending", "read"} /\ batch # <<>>
           /\ batch' \in Seq(Kept(Kinds))
           /\ batch \in Seq(Arriving(Kinds)) =>
                /\ batch' \in Seq(Arriving(Kinds))
                /\ type \in Kinds
                /\ HowMany(batch, {Msg("HideUI")})
                     = HowMany(batch', {Msg("HideUI")}) + (IF type = "HideUI" THEN 1 ELSE 0)
                /\ \A a, b : Switched(batch, a, b) =>
                     \E c \in BOOLEAN : Turns(Msg(type), a, c) /\ Switched(batch', c, b)
<1>1. /\ waiting = "none" /\ phase \in {"pending", "read"} /\ batch # <<>>
      /\ Head(batch).type = type /\ batch' = Tail(batch)
  BY DEF Takes, Processing
<1>2. batch \in Seq(Kept(Kinds))
  BY DEF TypeInv
<1>3. batch' \in Seq(Kept(Kinds))
  BY <1>1, <1>2, HeadTailProperties
<1>4. ASSUME batch \in Seq(Arriving(Kinds))
      PROVE  /\ batch' \in Seq(Arriving(Kinds))
             /\ type \in Kinds
             /\ HowMany(batch, {Msg("HideUI")})
                  = HowMany(batch', {Msg("HideUI")}) + (IF type = "HideUI" THEN 1 ELSE 0)
             /\ \A a, b : Switched(batch, a, b) =>
                  \E c \in BOOLEAN : Turns(Msg(type), a, c) /\ Switched(batch', c, b)
  <2>1. Head(batch) \in Arriving(Kinds) /\ batch' \in Seq(Arriving(Kinds))
    BY <1>1, <1>4, HeadTailProperties
  <2>2. PICK t \in Kinds : Head(batch) = Msg(t)
    BY <2>1 DEF Arriving
  <2>3. Head(batch) = Msg(type) /\ type \in Kinds
    BY <1>1, <2>2, MsgIs
  <2>4. Msg(type) = Msg("HideUI") <=> type = "HideUI"
    BY MsgIs
  <2>5. HowMany(batch, {Msg("HideUI")})
          = HowMany(batch', {Msg("HideUI")}) + (IF type = "HideUI" THEN 1 ELSE 0)
    BY <1>1, <1>4, <2>3, <2>4, CountTail
  <2>6. \A a, b : Switched(batch, a, b) =>
          \E c \in BOOLEAN : Turns(Msg(type), a, c) /\ Switched(batch', c, b)
    BY <1>1, <1>4, <2>3, SwitchedTail
  <2> QED BY <2>1, <2>3, <2>5, <2>6
<1> QED BY <1>1, <1>3, <1>4

\* None asked, so neither SetWin nor Unset.
LEMMA NoneAsked ==
    ASSUME TypeInv, Asks = 0
    PROVE  HowMany(toFbterm, {"SetWin"}) = 0 /\ HowMany(toFbterm, {"Unset"}) = 0
<1>1. \A i \in 1..Len(toFbterm) : toFbterm[i] \notin {"SetWin", "Unset"}
  BY CountNone DEF Asks, TypeInv
<1>2. /\ \A i \in 1..Len(toFbterm) : toFbterm[i] \notin {"SetWin"}
      /\ \A i \in 1..Len(toFbterm) : toFbterm[i] \notin {"Unset"}
  BY <1>1
<1> QED BY <1>2, CountNone DEF TypeInv

LEMMA SameKinds ==
    ASSUME UNCHANGED terminal
    PROVE  Kinds' = Kinds /\ On' = On /\ UNCHANGED <<server, fbterm, area, sent>>
BY DEF terminal, Kinds, On

\* A callback that announces: the answer is awaited.
LEMMA AnnounceStep ==
    ASSUME IInv, NEW type \in Callbacks, Takes(type), Announce(type),
           UNCHANGED <<terminal, toServer, pending, imfd>>
    PROVE  IInv'
<1> DEFINE ask == IF type = "Deactive" THEN "Unset" ELSE "SetWin"
<1>1. /\ type \in server.announces /\ imfd /\ waiting' = type
      /\ im_active' \in BOOLEAN /\ drawn' = (drawn /\ type # "Deactive") /\ focus' = focus
      /\ Write(<<ask>>)
  BY DEF Announce
<1>2. /\ waiting = "none" /\ batch' \in Seq(Kept(Kinds)) /\ phase \in {"pending", "read"}
  BY TakenIs DEF IInv
<1>3. Kinds' = Kinds /\ UNCHANGED <<server, fbterm, area, sent>>
  BY SameKinds
<1>4. <<ask>> \in Seq(FromServer)
  BY DEF FromServer
<1>5. \A T : HowMany(<<ask>>, T) = IF ask \in T THEN 1 ELSE 0
  BY CountOne
<1>6. /\ toFbterm' \in Seq(FromServer)
      /\ \A T : HowMany(toFbterm', T) = HowMany(toFbterm, T) + HowMany(<<ask>>, T)
      /\ phase' = phase \/ (phase' = "exit" /\ fbterm = "gone")
  BY <1>1, <1>4, WriteIs DEF IInv
<1>7. TypeInv'
  <2>1. /\ batch' \in Seq(Kept(Kinds')) /\ toServer' \in Seq(Arriving(Kinds'))
        /\ pending' \in Seq(Kept(Kinds'))
    BY <1>2, <1>3 DEF IInv, TypeInv
  <2>2. phase' \in {"check", "pending", "reading", "read", "exit", "hung"}
    BY <1>2, <1>6
  <2>3. drawn' \in BOOLEAN /\ focus' \in BOOLEAN
    BY <1>1 DEF IInv, TypeInv
  <2> QED BY <1>1, <1>3, <1>6, <2>1, <2>2, <2>3 DEF IInv, TypeInv
<1>8. AckWins = 0 /\ AckWins' = 0
  BY <1>2 DEF IInv, AckInv, AckWins
<1>9. fbterm # "gone" => Asks = 0 /\ Asks' = 1
  <2> SUFFICES ASSUME fbterm # "gone" PROVE Asks = 0 /\ Asks' = 1
    OBVIOUS
  <2>1. Asks = 0
    BY <1>2 DEF IInv, AckInv
  <2>2. HowMany(<<ask>>, {"SetWin", "Unset"}) = 1
    BY <1>5
  <2> QED BY <1>6, <2>1, <2>2 DEF Asks
<1>10. AckInv'
  <2>1. waiting' # "none"
    BY <1>1 DEF Callbacks
  <2>2. fbterm' # "gone" => Asks' + AckWins' <= 1
    BY <1>3, <1>8, <1>9
  <2>3. phase' \in {"pending", "read", "exit"}
    BY <1>2, <1>6
  <2> QED BY <1>8, <2>1, <2>2, <2>3 DEF AckInv
<1>11. ASSUME fbterm # "gone"
       PROVE  /\ type = "Deactive" => HowMany(toFbterm', {"SetWin"}) = 0
              /\ type # "Deactive" => HowMany(toFbterm', {"Unset"}) = 0
  <2>1. HowMany(toFbterm, {"SetWin"}) = 0 /\ HowMany(toFbterm, {"Unset"}) = 0
    BY <1>9, <1>11, NoneAsked DEF IInv
  <2>2. /\ type = "Deactive" => HowMany(<<ask>>, {"SetWin"}) = 0
        /\ type # "Deactive" => HowMany(<<ask>>, {"Unset"}) = 0
    BY <1>5
  <2> QED BY <1>6, <2>1, <2>2
<1>12. DrawInv'
  BY <1>1, <1>3, <1>8, <1>11 DEF IInv, DrawInv
<1>13. SilentInv'
  BY <1>1, <1>3 DEF SilentInv
<1> QED BY <1>7, <1>10, <1>12, <1>13 DEF IInv

\* The other callbacks, and those of a server that draws without being asked to
\* announce anything: the socket is closed, or the input method is off.
LEMMA CallbackStep ==
    ASSUME IInv, NEW type \in Callbacks, Takes(type), Finish(type, <<>>),
           ~(type \in server.announces /\ imfd /\ (im_active \/ type = "Active")),
           UNCHANGED <<terminal, toServer, pending, imfd, waiting>>
    PROVE  IInv'
<1>1. /\ waiting = "none" /\ phase \in {"pending", "read"} /\ batch # <<>>
      /\ batch' \in Seq(Kept(Kinds))
  BY TakenIs DEF IInv
<1>2. Kinds' = Kinds /\ On' = On /\ UNCHANGED <<server, fbterm, area, sent>>
  BY SameKinds
<1>3. /\ toFbterm' \in Seq(FromServer)
      /\ imfd => /\ \A T \in Asking : HowMany(toFbterm', T) = HowMany(toFbterm, T)
                 /\ HowMany(toFbterm', {"AckHideUI"})
                      = HowMany(toFbterm, {"AckHideUI"}) + (IF type = "HideUI" THEN 1 ELSE 0)
      /\ ~imfd => toFbterm' = toFbterm
      /\ phase' = phase \/ (phase' = "exit" /\ fbterm = "gone")
      /\ im_active' \in BOOLEAN /\ focus' \in BOOLEAN /\ drawn' \in BOOLEAN
  BY FinishIs DEF IInv
<1>4. TypeInv'
  <2>1. /\ batch' \in Seq(Kept(Kinds')) /\ toServer' \in Seq(Arriving(Kinds'))
        /\ pending' \in Seq(Kept(Kinds'))
    BY <1>1, <1>2 DEF IInv, TypeInv
  <2>2. phase' \in {"check", "pending", "reading", "read", "exit", "hung"}
    BY <1>1, <1>3
  <2> QED BY <1>2, <1>3, <2>1, <2>2 DEF IInv, TypeInv
<1>5. AckWins = 0 /\ AckWins' = AckWins
  BY <1>1 DEF IInv, AckInv, AckWins
<1>6. fbterm # "gone" => imfd
  BY DEF IInv, DrawInv
<1>7. fbterm # "gone" => Asks' = Asks
  BY <1>3, <1>6 DEF Asks, Asking
<1>8. AckInv'
  BY <1>1, <1>2, <1>5, <1>7 DEF IInv, AckInv
<1>9. DrawInv'
  <2> SUFFICES ASSUME fbterm # "gone" PROVE DrawInv'
    BY <1>2 DEF DrawInv
  <2>1. /\ imfd /\ HowMany(toFbterm, {"Unset"}) = 0 /\ (drawn => area)
    BY <1>1 DEF IInv, DrawInv
  <2>2. HowMany(toFbterm', {"Unset"}) = 0
    BY <1>3, <2>1 DEF Asking
  <2>3. ASSUME drawn' PROVE area
    <3>1. drawn' = IF Runs(type)
                   THEN (drawn \/ type \in server.announces) /\ type \notin {"Deactive", "HideUI"}
                   ELSE drawn
      BY DEF Finish, Ends
    <3>2. ~Runs(type) \/ type \notin server.announces \/ type = "Deactive"
      BY <2>1 DEF Runs
    <3>3. drawn
      BY <2>3, <3>1, <3>2
    <3> QED BY <2>1, <3>3
  <2> QED BY <1>1, <1>2, <1>5, <2>1, <2>2, <2>3 DEF DrawInv
<1>10. SilentInv'
  <2> SUFFICES ASSUME server.announces = {} PROVE Silent'
    BY <1>2 DEF SilentInv
  <2>1. Silent
    BY DEF IInv, SilentInv
  <2>2. /\ batch' \in Seq(Arriving(Kinds))
        /\ HowMany(batch, {Msg("HideUI")})
             = HowMany(batch', {Msg("HideUI")}) + (IF type = "HideUI" THEN 1 ELSE 0)
        /\ \A a, b : Switched(batch, a, b) =>
             \E c \in BOOLEAN : Turns(Msg(type), a, c) /\ Switched(batch', c, b)
    BY <2>1, TakenIs DEF IInv, Silent
  <2>3. /\ HowMany(batch', {Msg("HideUI")}) \in Nat
        /\ HowMany(toServer, {Msg("HideUI")}) \in Nat
        /\ HowMany(toFbterm, {"AckHideUI"}) \in Nat
    BY <2>2, PlacesFinite, Counts DEF IInv
  <2>4. Acknowledged
    BY <2>1 DEF Silent
  <2>5. HowMany(toFbterm', {"AckHideUI"})
          = HowMany(toFbterm, {"AckHideUI"}) + (IF type = "HideUI" THEN 1 ELSE 0)
    <3>1. CASE imfd
      BY <1>3, <3>1
    <3>2. CASE ~imfd
      <4>1. fbterm # "hiding"
        BY <1>6, <3>2
      <4>2. HowMany(batch, {Msg("HideUI")}) = 0
        BY <2>2, <2>3, <2>4, <4>1 DEF Acknowledged
      <4>3. type # "HideUI"
        BY <2>2, <2>3, <4>2
      <4> QED BY <1>3, <2>3, <3>2, <4>3
    <3> QED BY <3>1, <3>2
  <2>6. Acknowledged'
    BY <1>2, <2>2, <2>3, <2>4, <2>5 DEF Acknowledged
  <2>7. ASSUME fbterm # "gone" PROVE Told'
    <3>1. (focus <=> im_active) /\ \E mid \in BOOLEAN : Switched(batch, im_active, mid) /\ Switched(toServer, mid, On)
      BY <2>1, <2>7 DEF Silent, Told
    <3>2. PICK mid \in BOOLEAN : Switched(batch, im_active, mid) /\ Switched(toServer, mid, On)
      BY <3>1
    <3>3. PICK c \in BOOLEAN : Turns(Msg(type), im_active, c) /\ Switched(batch', c, mid)
      BY <2>2, <3>2
    <3>4. /\ im_active' = ((im_active \/ type = "Active") /\ type # "Deactive")
          /\ focus' = IF type \in {"Active", "Deactive"} THEN ~focus ELSE focus
      BY DEF Finish, Ends
    <3>5. /\ type = "Active" => ~im_active /\ c
          /\ type = "Deactive" => im_active /\ ~c
          /\ type \notin {"Active", "Deactive"} => (im_active <=> c)
      BY <3>3, MsgIs DEF Turns
    <3>6. (im_active' <=> c) /\ (focus' <=> im_active')
      <4>1. CASE type = "Active"
        BY <3>1, <3>4, <3>5, <4>1
      <4>2. CASE type = "Deactive"
        BY <3>1, <3>4, <3>5, <4>2
      <4>3. CASE type \notin {"Active", "Deactive"}
        BY <3>1, <3>4, <3>5, <4>3
      <4> QED BY <4>1, <4>2, <4>3
    <3>7. im_active' = c
      BY <1>3, <3>6
    <3>8. Switched(batch', im_active', mid) /\ Switched(toServer', mid, On')
      BY <1>2, <3>2, <3>3, <3>7
    <3> QED BY <3>6, <3>8 DEF Told
  <2>8. phase' \notin {"check", "reading"}
    BY <1>1, <1>3
  <2>9. pending' = <<>> /\ waiting' = "none"
    BY <2>1 DEF Silent
  <2> QED BY <1>2, <2>2, <2>6, <2>7, <2>8, <2>9 DEF Silent
<1> QED BY <1>4, <1>8, <1>9, <1>10 DEF IInv

-----------------------------------------------------------------------------
(***************************************************************************)
(* wait_message.                                                           *)
(***************************************************************************)

\* A read holds at most one AckWin, and AckIn finds it.
LEMMA AckInIs ==
    ASSUME NEW K, NEW s \in Seq(Arriving(K)), HowMany(s, {Msg("AckWin")}) <= 1
    PROVE  \/ AckIn(s) = 0 /\ HowMany(s, {Msg("AckWin")}) = 0
           \/ /\ AckIn(s) \in 1..Len(s)
              /\ HowMany(s, {Msg("AckWin")}) = 1
              /\ \A j \in 1..Len(s) : j # AckIn(s) => s[j] # Msg("AckWin")
<1> DEFINE I == {i \in 1..Len(s) : s[i] = Msg("AckWin")}
<1>1. AckIn(s) = IF I # {} THEN Min(I) ELSE 0
  BY DEF AckIn, SelectInSeq
<1>2. HowMany(s, {Msg("AckWin")}) \in Nat
  BY PlacesFinite
<1>3. HowMany(s, {Msg("AckWin")}) = 0 <=> I = {}
  BY CountNone
<1>4. CASE I = {}
  BY <1>1, <1>3, <1>4
<1>5. CASE I # {}
  <2>1. PICK k \in 1..Len(s) : s[k] = Msg("AckWin")
    BY <1>5
  <2>2. \A j \in 1..Len(s) : s[j] = Msg("AckWin") => j = k
    BY <2>1, CountAtMostOne
  <2>3. I = {k}
    BY <2>1, <2>2
  <2>4. Min(I) = k
    BY <2>3 DEF Min
  <2>5. HowMany(s, {Msg("AckWin")}) = 1
    BY <1>2, <1>3, <1>5
  <2> QED BY <1>1, <1>5, <2>1, <2>2, <2>4, <2>5
<1> QED BY <1>4, <1>5

\* What arrives without an AckWin may be kept.
LEMMA ArrivedIsKept ==
    ASSUME NEW K, NEW m \in Arriving(K), m # Msg("AckWin")
    PROVE  m \in Kept(K)
BY DEF Arriving, Kept

LEMMA ReadIsKept ==
    ASSUME NEW K, NEW s \in Seq(Arriving(K)), HowMany(s, {Msg("AckWin")}) = 0
    PROVE  s \in Seq(Kept(K))
<1>1. \A i \in 1..Len(s) : s[i] \in Arriving(K) /\ s[i] # Msg("AckWin")
  BY CountNone, ElementOfSeq
<1>2. \A i \in 1..Len(s) : s[i] \in Kept(K)
  BY <1>1, ArrivedIsKept
<1>3. SubSeq(s, 1, Len(s)) \in Seq(Kept(K))
  BY <1>2, SubSeqProperties, LenProperties
<1> QED BY <1>3, SubSeqFull

\* Nor does what wait_message keeps contain one, in the bytes it leaves behind either.
LEMMA WithoutAckKept ==
    ASSUME NEW K, NEW s \in Seq(Arriving(K)), NEW i \in 1..Len(s),
           \A j \in 1..Len(s) : j # i => s[j] # Msg("AckWin")
    PROVE  WithoutAck(s, i) \in Seq(Kept(K))
<1> DEFINE before == SubSeq(s, 1, i - 1)
           after == SubSeq(s, i + 1, Len(s))
           last == Last(s)
           rest == IF after = <<>> \/ Head(after).type # "SendKey" THEN <<>>
                   ELSE <<Garbage(IF last.type = "SendKey" THEN "none" ELSE last.type)>>
<1>1. WithoutAck(s, i) = before \o after \o rest
  BY DEF WithoutAck
<1>2. Len(s) \in Nat /\ \A j \in 1..Len(s) : s[j] \in Arriving(K)
  BY LenProperties, ElementOfSeq
<1>3. \A j \in 1..Len(s) : j # i => s[j] \in Kept(K)
  BY <1>2, ArrivedIsKept
<1>4. before \in Seq(Kept(K))
  BY <1>2, <1>3, SubSeqProperties
<1>5. after \in Seq(Kept(K)) /\ Len(after) = IF i + 1 <= Len(s) THEN Len(s) - (i + 1) + 1 ELSE 0
  BY <1>2, <1>3, SubSeqProperties
<1>6. rest \in Seq(Kept(K))
  <2>1. CASE after = <<>> \/ Head(after).type # "SendKey"
    BY <2>1, EmptySeq
  <2>2. CASE ~(after = <<>> \/ Head(after).type # "SendKey")
    <3>1. i + 1 <= Len(s)
      BY <1>2, <1>5, <2>2, SubSeqEmpty
    <3>2. last \in Arriving(K) /\ last # Msg("AckWin")
      BY <1>2, <3>1 DEF Last
    <3>3. PICK t \in K : last = Msg(t)
      BY <3>2 DEF Arriving
    <3>4. last.type = t /\ t # "AckWin"
      BY <3>2, <3>3, MsgIs
    <3>5. Garbage(IF last.type = "SendKey" THEN "none" ELSE last.type) \in Kept(K)
      BY <3>4 DEF Kept
    <3>6. rest = <<Garbage(IF last.type = "SendKey" THEN "none" ELSE last.type)>>
      BY <2>2
    <3> HIDE DEF rest, last
    <3> QED BY <3>5, <3>6
  <2> QED BY <2>1, <2>2
<1> HIDE DEF before, after, rest
<1>7. before \o after \in Seq(Kept(K))
  BY <1>4, <1>5, ConcatProperties
<1> QED BY <1>1, <1>6, <1>7, ConcatProperties

\* A read without AckWin is kept, one with AckWin ends the wait.
LEMMA WaitReadsStep ==
    ASSUME IInv, WaitReads
    PROVE  IInv'
<1> DEFINE i == AckIn(toServer)
<1>1. /\ waiting # "none" /\ toServer' = <<>>
      /\ UNCHANGED <<terminal, batch, imfd>>
  BY DEF WaitReads
<1>2. Kinds' = Kinds /\ On' = On /\ UNCHANGED <<server, fbterm, area, sent>>
  BY <1>1, SameKinds
<1>3. toServer \in Seq(Arriving(Kinds)) /\ pending \in Seq(Kept(Kinds)) /\ batch \in Seq(Kept(Kinds))
  BY DEF IInv, TypeInv
<1>4. \/ i = 0 /\ AckWins = 0
      \/ /\ i \in 1..Len(toServer) /\ AckWins = 1
         /\ \A j \in 1..Len(toServer) : j # i => toServer[j] # Msg("AckWin")
  BY <1>3, AckInIs DEF IInv, AckInv, AckWins
<1>5. AckWins' = 0
  BY <1>1, CountEmpty DEF AckWins
<1>6. toServer' \in Seq(Arriving(Kinds'))
  BY <1>1, EmptySeq
<1>7. SilentInv'
  BY <1>1, <1>2 DEF IInv, SilentInv, Silent
<1>8. CASE i = 0
  <2>1. pending' = pending \o toServer /\ UNCHANGED <<toFbterm, phase, waiting, ui>>
    BY <1>8 DEF WaitReads
  <2>2. AckWins = 0
    BY <1>4, <1>8
  <2>3. pending' \in Seq(Kept(Kinds))
    BY <1>3, <2>1, <2>2, ReadIsKept, ConcatProperties DEF AckWins
  <2>4. TypeInv'
    BY <1>1, <1>2, <1>3, <1>6, <2>1, <2>3 DEF IInv, TypeInv, ui
  <2>5. Asks' = Asks
    BY <2>1 DEF Asks
  <2>6. AckInv'
    BY <1>2, <1>5, <2>1, <2>2, <2>5 DEF IInv, AckInv
  <2>7. DrawInv'
    BY <1>1, <1>2, <1>5, <2>1 DEF IInv, DrawInv, ui
  <2> QED BY <1>7, <2>4, <2>6, <2>7 DEF IInv
<1>9. CASE i # 0
  <2> DEFINE first == IF pending' = <<>> THEN <<>> ELSE <<"Ping">>
  <2>1. /\ pending' = pending \o WithoutAck(toServer, i)
        /\ waiting' = "none"
        /\ Finish(waiting, first)
    BY <1>9 DEF WaitReads
  <2>2. i \in 1..Len(toServer) /\ AckWins = 1 /\ \A j \in 1..Len(toServer) : j # i => toServer[j] # Msg("AckWin")
    BY <1>4, <1>9
  <2> HIDE DEF i
  <2>3. WithoutAck(toServer, i) \in Seq(Kept(Kinds))
    BY <1>3, <2>2, WithoutAckKept
  <2>4. pending' \in Seq(Kept(Kinds))
    BY <1>3, <2>1, <2>3, ConcatProperties
  <2>5. PICK f \in {<<>>, <<"Ping">>} : f = first
    OBVIOUS
  <2>6. Finish(waiting, f)
    BY <2>1, <2>5
  <2> HIDE DEF first
  <2>7. /\ toFbterm' \in Seq(FromServer)
        /\ imfd => \A T \in Asking : HowMany(toFbterm', T) = HowMany(toFbterm, T)
        /\ phase' = phase \/ (phase' = "exit" /\ fbterm = "gone")
        /\ im_active' \in BOOLEAN /\ focus' \in BOOLEAN /\ drawn' \in BOOLEAN
    BY <2>5, <2>6, FinishIs DEF IInv
  <2>8. TypeInv'
    <3>1. phase' \in {"check", "pending", "reading", "read", "exit", "hung"}
      BY <2>7 DEF IInv, TypeInv
    <3>2. batch' \in Seq(Kept(Kinds')) /\ pending' \in Seq(Kept(Kinds'))
      BY <1>1, <1>2, <1>3, <2>4
    <3> QED BY <1>1, <1>2, <1>6, <2>1, <2>7, <3>1, <3>2 DEF IInv, TypeInv
  <2>9. fbterm # "gone" => imfd /\ Asks = 0 /\ Asks' = 0
    <3> SUFFICES ASSUME fbterm # "gone" PROVE imfd /\ Asks = 0 /\ Asks' = 0
      OBVIOUS
    <3>1. imfd /\ Asks + AckWins <= 1
      BY DEF IInv, DrawInv, AckInv
    <3>2. Asks \in Nat
      BY Counts DEF IInv
    <3>3. Asks = 0
      BY <2>2, <3>1, <3>2
    <3>4. Asks' = Asks
      BY <2>7, <3>1 DEF Asks, Asking
    <3> QED BY <3>1, <3>3, <3>4
  <2>10. AckInv'
    BY <1>2, <1>5, <2>1, <2>9 DEF AckInv
  <2>11. DrawInv'
    <3> SUFFICES ASSUME fbterm # "gone" PROVE DrawInv'
      BY <1>2 DEF DrawInv
    <3>1. HowMany(toFbterm', {"Unset"}) = 0
      BY <2>7, <2>9, NoneAsked DEF IInv, Asking
    <3>2. ASSUME drawn' PROVE area
      <4>1. drawn' = IF Runs(waiting)
                     THEN (drawn \/ waiting \in server.announces) /\ waiting \notin {"Deactive", "HideUI"}
                     ELSE drawn
        BY <2>6 DEF Finish, Ends
      <4>2. waiting = "Deactive" => ~drawn
        BY DEF IInv, DrawInv
      <4>3. waiting # "Deactive"
        BY <3>2, <4>1, <4>2
      <4> QED BY <2>2, <4>3 DEF IInv, DrawInv
    <3> QED BY <1>1, <1>2, <1>5, <2>1, <2>9, <3>1, <3>2 DEF DrawInv
  <2> QED BY <1>7, <2>8, <2>10, <2>11 DEF IInv
<1> QED BY <1>8, <1>9

\* The end of the file ends it as well.
LEMMA WaitEndOfFileStep ==
    ASSUME IInv, WaitEndOfFile
    PROVE  IInv'
<1>1. /\ waiting # "none" /\ fbterm = "gone" /\ toServer = <<>>
      /\ imfd' = FALSE /\ waiting' = "none"
      /\ Ends(waiting)
      /\ UNCHANGED <<terminal, toServer, toFbterm, phase, batch, pending>>
  BY DEF WaitEndOfFile
<1>2. Kinds' = Kinds /\ UNCHANGED <<server, fbterm, area, sent>>
  BY <1>1, SameKinds
<1>3. /\ toFbterm' \in Seq(FromServer)
      /\ phase' = phase
      /\ im_active' \in BOOLEAN /\ focus' \in BOOLEAN /\ drawn' \in BOOLEAN
  BY <1>1 DEF Ends, IInv, TypeInv
<1>4. TypeInv'
  <2>1. /\ batch' \in Seq(Kept(Kinds')) /\ pending' \in Seq(Kept(Kinds'))
        /\ toServer' \in Seq(Arriving(Kinds'))
    BY <1>1, <1>2 DEF IInv, TypeInv
  <2>2. phase' \in {"check", "pending", "reading", "read", "exit", "hung"}
    BY <1>3 DEF IInv, TypeInv
  <2> QED BY <1>1, <1>2, <1>3, <2>1, <2>2 DEF IInv, TypeInv
<1>5. AckWins' = 0
  BY <1>1, CountEmpty DEF AckWins
<1>6. AckInv' /\ DrawInv'
  BY <1>1, <1>2, <1>5 DEF AckInv, DrawInv
<1>7. SilentInv'
  BY <1>1, <1>2 DEF IInv, SilentInv, Silent
<1> QED BY <1>4, <1>6, <1>7 DEF IInv

-----------------------------------------------------------------------------
(***************************************************************************)
(* The loop: steps that call nothing back and write nothing.               *)
(***************************************************************************)

LEMMA QuietStep ==
    ASSUME IInv, UNCHANGED <<terminal, toFbterm, waiting, ui>>,
           batch' \in Seq(Kept(Kinds)), pending' \in Seq(Kept(Kinds)),
           toServer' \in Seq(Arriving(Kinds)), AckWins' = AckWins,
           imfd' = imfd \/ (imfd' = FALSE /\ fbterm = "gone"),
           phase' \in {"check", "pending", "reading", "read", "exit", "hung"},
           waiting # "none" => phase' \in {"pending", "read", "exit"},
           server.announces = {} => Silent'
    PROVE  IInv'
<1>1. Kinds' = Kinds /\ UNCHANGED <<server, fbterm, area, sent>>
  BY SameKinds
<1>2. /\ batch' \in Seq(Kept(Kinds')) /\ pending' \in Seq(Kept(Kinds'))
      /\ toServer' \in Seq(Arriving(Kinds'))
  BY <1>1
<1>3. UNCHANGED <<im_active, focus, drawn>> /\ imfd' \in BOOLEAN
  BY DEF ui, IInv, TypeInv
<1>4. TypeInv'
  BY <1>1, <1>2, <1>3 DEF IInv, TypeInv
<1>5. Asks' = Asks
  BY DEF Asks
<1>6. AckInv'
  BY <1>1, <1>5 DEF IInv, AckInv
<1>7. DrawInv'
  BY <1>1, <1>3 DEF IInv, DrawInv
<1>8. SilentInv'
  BY <1>1 DEF SilentInv
<1> QED BY <1>4, <1>6, <1>7, <1>8 DEF IInv

\* A batch of one more message than process_messages has still to process.
LEMMA DroppedSilent ==
    ASSUME IInv, server.announces = {}, NEW type \in {"Disconnect", "AckPing"}, Takes(type),
           UNCHANGED <<terminal, toServer, toFbterm, phase, pending, waiting, ui>>
    PROVE  Silent'
<1>1. Silent
  BY DEF IInv, SilentInv
<1>2. Kinds' = Kinds /\ On' = On /\ UNCHANGED <<server, fbterm, area, sent>>
  BY SameKinds
<1>3. /\ phase \in {"pending", "read"} /\ type \in Kinds
      /\ batch' \in Seq(Arriving(Kinds))
      /\ HowMany(batch, {Msg("HideUI")}) = HowMany(batch', {Msg("HideUI")}) + 0
      /\ \A a, b : Switched(batch, a, b) =>
           \E c \in BOOLEAN : Turns(Msg(type), a, c) /\ Switched(batch', c, b)
  BY <1>1, TakenIs DEF IInv, Silent
<1>4. HowMany(batch', {Msg("HideUI")}) \in Nat
  BY <1>3, PlacesFinite
<1>5. Acknowledged'
  BY <1>1, <1>2, <1>3, <1>4 DEF Silent, Acknowledged
<1>6. ASSUME fbterm # "gone" PROVE Told'
  <2>1. PICK mid \in BOOLEAN : Switched(batch, im_active, mid) /\ Switched(toServer, mid, On)
    BY <1>1, <1>6 DEF Silent, Told
  <2>2. PICK c \in BOOLEAN : Turns(Msg(type), im_active, c) /\ Switched(batch', c, mid)
    BY <1>3, <2>1
  <2>3. im_active \in BOOLEAN /\ (im_active <=> c)
    BY <2>2, MsgIs DEF Turns, IInv, TypeInv
  <2>4. im_active = c
    BY <2>3
  <2>5. UNCHANGED <<im_active, focus>>
    BY DEF ui
  <2>6. Switched(batch', im_active', mid) /\ Switched(toServer', mid, On')
    BY <1>2, <2>1, <2>2, <2>4, <2>5
  <2> QED BY <1>1, <1>6, <2>5, <2>6 DEF Silent, Told
<1>7. phase' \notin {"check", "reading"} /\ pending' = <<>> /\ waiting' = "none"
  BY <1>1, <1>3 DEF Silent
<1> QED BY <1>2, <1>3, <1>5, <1>6, <1>7 DEF Silent

LEMMA DisconnectStep ==
    ASSUME IInv, Disconnect
    PROVE  IInv'
<1>1. /\ Takes("Disconnect") /\ imfd' = FALSE
      /\ UNCHANGED <<terminal, toServer, toFbterm, phase, pending, waiting, ui>>
  BY DEF Disconnect
<1>2. /\ waiting = "none" /\ phase \in {"pending", "read"} /\ batch' \in Seq(Kept(Kinds))
  BY <1>1, TakenIs DEF IInv
<1>3. fbterm = "gone"
  <2>1. batch \in Seq(Kept(Kinds)) /\ batch # <<>> /\ Head(batch).type = "Disconnect"
    BY <1>1 DEF IInv, TypeInv, Takes
  <2>2. Head(batch) \in Kept(Kinds)
    BY <2>1, HeadTailProperties
  <2>3. "Disconnect" \in Kinds
    BY <2>1, <2>2, MsgIs DEF Kept
  <2> QED BY <2>3 DEF Kinds
<1>4. pending \in Seq(Kept(Kinds)) /\ toServer \in Seq(Arriving(Kinds)) /\ AckWins' = AckWins
  BY <1>1 DEF IInv, TypeInv, AckWins
<1>5. server.announces = {} => Silent'
  BY <1>1, DroppedSilent
<1> QED BY <1>1, <1>2, <1>3, <1>4, <1>5, QuietStep

LEMMA IgnoreStep ==
    ASSUME IInv, Ignore
    PROVE  IInv'
<1>1. /\ Takes("AckPing")
      /\ UNCHANGED <<terminal, toServer, toFbterm, phase, pending, waiting, imfd, ui>>
  BY DEF Ignore
<1>2. /\ waiting = "none" /\ phase \in {"pending", "read"} /\ batch' \in Seq(Kept(Kinds))
  BY <1>1, TakenIs DEF IInv
<1>3. pending \in Seq(Kept(Kinds)) /\ toServer \in Seq(Arriving(Kinds)) /\ AckWins' = AckWins
  BY <1>1 DEF IInv, TypeInv, AckWins
<1>4. server.announces = {} => Silent'
  BY <1>1, DroppedSilent
<1> QED BY <1>1, <1>2, <1>3, <1>4, QuietStep

\* Whatever the bytes wait_message leaves are taken for, they are no AckWin.
LEMMA GarbageStep ==
    ASSUME IInv, ProcessGarbage
    PROVE  IInv'
<1> DEFINE of == Head(batch).of
           rest == Tail(batch)
           filled == IF Head(rest).type = "SendKey" THEN <<>> ELSE <<Garbage("none")>>
<1>1. /\ waiting = "none" /\ phase \in {"pending", "read"}
      /\ batch # <<>> /\ Head(batch).type = "Garbage"
      /\ UNCHANGED <<terminal, toServer, toFbterm, pending, waiting, imfd, ui>>
  BY DEF ProcessGarbage, Processing
<1>2. \/ of # "none" /\ batch' = <<>> /\ phase' = phase
      \/ of # "none" /\ rest # <<>> /\ batch' = <<Msg(of)>> \o filled \o Tail(rest) /\ phase' = phase
      \/ (\E n \in 0..Len(rest) : batch' = SubSeq(rest, n + 1, Len(rest))) /\ phase' = phase
      \/ phase' = "hung" /\ batch' = batch
  BY DEF ProcessGarbage
<1>3. batch \in Seq(Kept(Kinds))
  BY DEF IInv, TypeInv
<1>4. Head(batch) \in Kept(Kinds) /\ rest \in Seq(Kept(Kinds))
  BY <1>1, <1>3, HeadTailProperties
<1>5. of \in (Kinds \ {"AckWin"}) \union {"none"}
  <2>1. ASSUME NEW t \in Kinds, Head(batch) = Msg(t) PROVE FALSE
    <3>1. t = "Garbage"
      BY <1>1, <2>1, MsgIs
    <3> QED BY <3>1 DEF Kinds, FromFbterm
  <2>2. PICK t \in (Kinds \ {"AckWin"}) \union {"none"} : Head(batch) = Garbage(t)
    BY <1>4, <2>1 DEF Kept
  <2> QED BY <2>2 DEF Garbage
<1>6. batch' \in Seq(Kept(Kinds))
  <2> HIDE DEF rest
  <2>1. CASE batch' = <<>>
    BY <2>1, EmptySeq
  <2>2. CASE of # "none" /\ rest # <<>> /\ batch' = <<Msg(of)>> \o filled \o Tail(rest)
    <3>1. Msg(of) \in Kept(Kinds)
      BY <1>5, <2>2 DEF Kept
    <3>2. Garbage("none") \in Kept(Kinds)
      BY DEF Kept
    <3>3. filled \in {<<>>, <<Garbage("none")>>}
      OBVIOUS
    <3> HIDE DEF filled, of
    <3>4. <<>> \in Seq(Kept(Kinds))
      BY EmptySeq
    <3>5. <<Garbage("none")>> \in Seq(Kept(Kinds)) /\ <<Msg(of)>> \in Seq(Kept(Kinds))
      BY <3>1, <3>2
    <3>6. filled \in Seq(Kept(Kinds))
      BY <3>3, <3>4, <3>5
    <3>7. Tail(rest) \in Seq(Kept(Kinds))
      BY <1>4, <2>2, HeadTailProperties
    <3>8. <<Msg(of)>> \o filled \in Seq(Kept(Kinds))
      BY <3>5, <3>6, ConcatProperties
    <3> QED BY <2>2, <3>7, <3>8, ConcatProperties
  <2>3. CASE \E n \in 0..Len(rest) : batch' = SubSeq(rest, n + 1, Len(rest))
    <3>1. Len(rest) \in Nat /\ \A j \in 1..Len(rest) : rest[j] \in Kept(Kinds)
      BY <1>4, LenProperties, ElementOfSeq
    <3>2. \A n \in 0..Len(rest) : SubSeq(rest, n + 1, Len(rest)) \in Seq(Kept(Kinds))
      BY <3>1, SubSeqProperties
    <3> QED BY <2>3, <3>2
  <2>4. CASE batch' = batch
    BY <1>3, <2>4
  <2> QED BY <1>2, <2>1, <2>2, <2>3, <2>4
<1>7. pending \in Seq(Kept(Kinds)) /\ toServer \in Seq(Arriving(Kinds)) /\ AckWins' = AckWins
  BY <1>1 DEF IInv, TypeInv, AckWins
<1>8. server.announces # {}
  <2> SUFFICES ASSUME server.announces = {} PROVE FALSE
    OBVIOUS
  <2>1. batch \in Seq(Arriving(Kinds))
    BY DEF IInv, SilentInv, Silent
  <2>2. Head(batch) \in Arriving(Kinds)
    BY <1>1, <2>1, HeadTailProperties
  <2>3. PICK t \in Kinds : Head(batch) = Msg(t)
    BY <2>2 DEF Arriving
  <2>4. t = "Garbage"
    BY <1>1, <2>3, MsgIs
  <2> QED BY <2>4 DEF Kinds, FromFbterm
<1>9. phase' \in {"pending", "read", "hung"}
  BY <1>1, <1>2
<1> QED BY <1>1, <1>6, <1>7, <1>8, <1>9, QuietStep

\* What is pending, which wait_message kept, is processed before the next read.
LEMMA TakePendingStep ==
    ASSUME IInv, TakePending
    PROVE  IInv'
<1>1. /\ phase = "check"
      /\ phase' = CASE ~imfd -> "exit" [] pending # <<>> -> "pending" [] OTHER -> "reading"
      /\ batch' = IF imfd THEN pending ELSE batch
      /\ pending' = IF imfd THEN <<>> ELSE pending
      /\ UNCHANGED <<terminal, toServer, toFbterm, waiting, imfd, ui>>
  BY DEF TakePending
<1>2. /\ batch \in Seq(Kept(Kinds)) /\ pending \in Seq(Kept(Kinds))
      /\ toServer \in Seq(Arriving(Kinds)) /\ <<>> \in Seq(Kept(Kinds))
  BY EmptySeq DEF IInv, TypeInv
<1>3. batch' \in Seq(Kept(Kinds)) /\ pending' \in Seq(Kept(Kinds)) /\ toServer' \in Seq(Arriving(Kinds))
  BY <1>1, <1>2
<1>4. phase' \in {"exit", "pending", "reading"} /\ AckWins' = AckWins
  BY <1>1 DEF AckWins
<1>5. waiting = "none"
  BY <1>1 DEF IInv, AckInv
<1>6. ASSUME server.announces = {} PROVE Silent'
  <2>1. Silent
    BY <1>6 DEF IInv, SilentInv
  <2>2. batch = <<>> /\ pending = <<>>
    BY <1>1, <2>1 DEF Silent
  <2>3. batch' = batch /\ pending' = pending
    BY <1>1, <2>2
  <2>4. Kinds' = Kinds /\ On' = On /\ UNCHANGED <<server, fbterm, area, sent>>
    BY <1>1, SameKinds
  <2>5. Acknowledged' /\ (fbterm # "gone" => Told')
    BY <1>1, <2>1, <2>3, <2>4 DEF Silent, Acknowledged, Told, ui
  <2> QED BY <1>1, <2>1, <2>2, <2>3, <2>4, <2>5 DEF Silent
<1> QED BY <1>1, <1>3, <1>4, <1>5, <1>6, QuietStep

\* Nobody waits while check_im_message reads, so what it reads holds no AckWin.
LEMMA CheckReadsStep ==
    ASSUME IInv, CheckReads
    PROVE  IInv'
<1>1. /\ phase = "reading" /\ batch' = toServer /\ toServer' = <<>> /\ phase' = "read"
      /\ UNCHANGED <<terminal, toFbterm, pending, waiting, imfd, ui>>
  BY DEF CheckReads
<1>2. waiting = "none" /\ AckWins = 0
  BY <1>1 DEF IInv, AckInv
<1>3. toServer \in Seq(Arriving(Kinds)) /\ pending \in Seq(Kept(Kinds))
  BY DEF IInv, TypeInv
<1>4. batch' \in Seq(Kept(Kinds))
  BY <1>1, <1>2, <1>3, ReadIsKept DEF AckWins
<1>5. toServer' \in Seq(Arriving(Kinds))
  BY <1>1, EmptySeq
<1>6. AckWins' = AckWins
  BY <1>1, <1>2, CountEmpty DEF AckWins
<1>7. ASSUME server.announces = {} PROVE Silent'
  <2>1. Silent
    BY <1>7 DEF IInv, SilentInv
  <2>2. batch = <<>> /\ pending = <<>>
    BY <1>1, <2>1 DEF Silent
  <2>3. Kinds' = Kinds /\ On' = On /\ UNCHANGED <<server, fbterm, area, sent>>
    BY <1>1, SameKinds
  <2>4. Acknowledged'
    <3>1. HowMany(batch, {Msg("HideUI")}) = 0 /\ HowMany(toServer', {Msg("HideUI")}) = 0
      BY <1>1, <2>2, CountEmpty
    <3>2. /\ HowMany(batch', {Msg("HideUI")}) = HowMany(toServer, {Msg("HideUI")})
          /\ HowMany(toFbterm', {"AckHideUI"}) = HowMany(toFbterm, {"AckHideUI"})
      BY <1>1
    <3>3. HowMany(toServer, {Msg("HideUI")}) \in Nat /\ HowMany(toFbterm, {"AckHideUI"}) \in Nat
      BY Counts DEF IInv
    <3> QED BY <2>1, <2>3, <3>1, <3>2, <3>3 DEF Silent, Acknowledged
  <2>5. ASSUME fbterm # "gone" PROVE Told'
    <3>1. (focus <=> im_active) /\ im_active \in BOOLEAN
      BY <2>1, <2>5 DEF Silent, Told, IInv, TypeInv
    <3>2. PICK mid \in BOOLEAN : Switched(batch, im_active, mid) /\ Switched(toServer, mid, On)
      BY <2>1, <2>5 DEF Silent, Told
    <3>3. im_active <=> mid
      BY <2>2, <3>2, SwitchedEmpty
    <3>4. mid = im_active
      BY <3>1, <3>3
    <3>5. UNCHANGED <<im_active, focus>> /\ On \in BOOLEAN
      BY <1>1 DEF ui, On
    <3>6. Switched(batch', im_active', On) /\ Switched(toServer', On, On')
      BY <1>1, <2>3, <3>2, <3>4, <3>5, SwitchedEmpty
    <3> QED BY <3>1, <3>5, <3>6 DEF Told
  <2> QED BY <1>1, <1>3, <2>1, <2>3, <2>4, <2>5 DEF Silent
<1> QED BY <1>1, <1>2, <1>3, <1>4, <1>5, <1>6, <1>7, QuietStep

LEMMA CheckEndOfFileStep ==
    ASSUME IInv, CheckEndOfFile
    PROVE  IInv'
<1>1. /\ phase = "reading" /\ imfd' = FALSE /\ phase' = "exit"
      /\ ~imfd \/ fbterm = "gone"
      /\ UNCHANGED <<terminal, toServer, toFbterm, batch, pending, waiting, ui>>
  BY DEF CheckEndOfFile
<1>2. fbterm = "gone" /\ waiting = "none"
  BY <1>1 DEF IInv, DrawInv, AckInv
<1>3. /\ batch \in Seq(Kept(Kinds)) /\ pending \in Seq(Kept(Kinds))
      /\ toServer \in Seq(Arriving(Kinds)) /\ AckWins' = AckWins
  BY <1>1 DEF IInv, TypeInv, AckWins
<1>4. ASSUME server.announces = {} PROVE Silent'
  <2>1. Silent
    BY <1>4 DEF IInv, SilentInv
  <2>2. Kinds' = Kinds /\ UNCHANGED <<server, fbterm, area, sent>>
    BY <1>1, SameKinds
  <2>3. Acknowledged'
    BY <1>1, <2>1, <2>2 DEF Silent, Acknowledged
  <2> QED BY <1>1, <1>2, <2>1, <2>2, <2>3 DEF Silent
<1> QED BY <1>1, <1>2, <1>3, <1>4, QuietStep

\* The batch is done: what it told has become im_active.
LEMMA BatchDoneStep ==
    ASSUME IInv, BatchDone
    PROVE  IInv'
<1>1. /\ waiting = "none" /\ batch = <<>> /\ phase' \in {"reading", "check"}
      /\ UNCHANGED <<terminal, toServer, toFbterm, batch, pending, waiting, imfd, ui>>
  BY DEF BatchDone, Processing
<1>2. /\ batch \in Seq(Kept(Kinds)) /\ pending \in Seq(Kept(Kinds))
      /\ toServer \in Seq(Arriving(Kinds)) /\ AckWins' = AckWins
  BY <1>1 DEF IInv, TypeInv, AckWins
<1>3. ASSUME server.announces = {} PROVE Silent'
  <2>1. Silent
    BY <1>3 DEF IInv, SilentInv
  <2>2. Kinds' = Kinds /\ On' = On /\ UNCHANGED <<server, fbterm, area, sent>>
    BY <1>1, SameKinds
  <2>3. Acknowledged' /\ (fbterm # "gone" => Told')
    BY <1>1, <2>1, <2>2 DEF Silent, Acknowledged, Told, ui
  <2> QED BY <1>1, <2>1, <2>2, <2>3 DEF Silent
<1> QED BY <1>1, <1>2, <1>3, QuietStep

-----------------------------------------------------------------------------
(***************************************************************************)
(* The theorems.                                                           *)
(***************************************************************************)

LEMMA StutterStep ==
    ASSUME IInv, UNCHANGED vars
    PROVE  IInv'
<1>1. UNCHANGED <<terminal, toServer, toFbterm, library, ui>>
  BY DEF vars
<1>2. Kinds' = Kinds /\ On' = On /\ UNCHANGED <<server, fbterm, area, sent>>
  BY <1>1, SameKinds
<1>3. /\ UNCHANGED <<toServer, toFbterm, phase, batch, pending, waiting, imfd>>
      /\ UNCHANGED <<im_active, focus, drawn>>
  BY <1>1 DEF library, ui
<1>4. AckWins' = AckWins /\ Asks' = Asks
  BY <1>3 DEF AckWins, Asks
<1>5. TypeInv' /\ AckInv' /\ DrawInv'
  BY <1>2, <1>3, <1>4 DEF IInv, TypeInv, AckInv, DrawInv
<1>6. SilentInv'
  BY <1>2, <1>3 DEF IInv, SilentInv, Silent, Acknowledged, Told
<1> QED BY <1>5, <1>6 DEF IInv

LEMMA NextIInv == IInv /\ [Next]_vars => IInv'
<1> SUFFICES ASSUME IInv, [Next]_vars PROVE IInv'
  OBVIOUS
<1>1. CASE FbtermNext
  BY <1>1, FbtermStep
<1>2. CASE FbtermReceives
  BY <1>2, ReceivesStep
<1>3. CASE \E type \in Callbacks : Process(type)
  <2>1. PICK type \in Callbacks : Process(type)
    BY <1>3
  <2>2. Takes(type) /\ UNCHANGED <<terminal, toServer, pending, imfd>>
    BY <2>1 DEF Process
  <2>3. CASE Announce(type)
    BY <2>2, <2>3, AnnounceStep
  <2>4. CASE /\ ~(type \in server.announces /\ imfd /\ (im_active \/ type = "Active"))
             /\ Finish(type, <<>>)
             /\ UNCHANGED waiting
    BY <2>2, <2>4, CallbackStep
  <2> QED BY <2>1, <2>3, <2>4 DEF Process
<1>4. CASE Disconnect \/ Ignore \/ ProcessGarbage
  BY <1>4, DisconnectStep, IgnoreStep, GarbageStep
<1>5. CASE WaitReads \/ WaitEndOfFile
  BY <1>5, WaitReadsStep, WaitEndOfFileStep
<1>6. CASE TakePending \/ CheckReads \/ CheckEndOfFile \/ BatchDone
  BY <1>6, TakePendingStep, CheckReadsStep, CheckEndOfFileStep, BatchDoneStep
<1>7. CASE UNCHANGED vars
  BY <1>7, StutterStep
<1> QED BY <1>1, <1>2, <1>3, <1>4, <1>5, <1>6, <1>7 DEF Next, ServerNext

LEMMA SpecIInv == Spec => []IInv
BY InitIInv, NextIInv, PTL DEF Spec

\* The messages of the invariant are messages, and no AckWin is kept.
LEMMA KeptIsMessage ==
    /\ Arriving(Kinds) \subseteq Messages
    /\ Kept(Kinds) \subseteq Messages \ {Msg("AckWin")}
<1>1. Kinds \subseteq FromFbterm
  BY DEF Kinds
<1>2. Arriving(Kinds) \subseteq Messages
  BY <1>1 DEF Arriving, Messages
<1>3. Kept(Kinds) \subseteq Messages
  BY <1>1 DEF Kept, Messages
<1>4. Msg("AckWin") \notin Kept(Kinds)
  BY MsgIs DEF Kept
<1> QED BY <1>2, <1>3, <1>4

\* Each AckWin is taken by the callback that waits for it, none stays behind in
\* pending_msg_buf or reaches process_message, and the variables keep their types.
THEOREM TypeCorrect == Spec => []TypeOK
<1>1. IInv => TypeOK
  <2> SUFFICES ASSUME IInv PROVE TypeOK
    OBVIOUS
  <2>1. TypeInv
    BY DEF IInv
  <2>2. /\ toServer \in Seq(Messages)
        /\ batch \in Seq(Messages \ {Msg("AckWin")}) /\ pending \in Seq(Messages \ {Msg("AckWin")})
    BY <2>1, KeptIsMessage, SeqMonotonic DEF TypeInv
  <2> QED BY <2>1, <2>2 DEF TypeInv, TypeOK
<1> QED BY <1>1, SpecIInv, PTL

\* Whenever fbterm_ucimf waits for messages with none on the way, im_active and
\* the focus of libucimf are what FbTerm has switched.
THEOREM SwitchAgrees == Spec => []StateAgrees
<1>1. IInv => StateAgrees
  <2> SUFFICES ASSUME IInv, server.announces = {}, phase = "reading", toServer = <<>>, fbterm # "gone"
               PROVE  im_active = (fbterm \in {"on", "hiding", "away"}) /\ focus = im_active
    BY DEF StateAgrees
  <2>1. Silent /\ im_active \in BOOLEAN /\ focus \in BOOLEAN
    BY DEF IInv, SilentInv, TypeInv
  <2>2. batch = <<>> /\ (focus <=> im_active)
    BY <2>1 DEF Silent, Told
  <2>3. PICK mid \in BOOLEAN : Switched(batch, im_active, mid) /\ Switched(toServer, mid, On)
    BY <2>1 DEF Silent, Told
  <2>4. (im_active <=> mid) /\ (mid <=> On)
    BY <2>2, <2>3, SwitchedEmpty
  <2> QED BY <2>1, <2>2, <2>4 DEF On
<1> QED BY <1>1, SpecIInv, PTL

\* A HideUI is acknowledged once: FbTerm, waiting, is owed exactly one answer,
\* and none otherwise.
THEOREM HideAcknowledgedOnce == Spec => []OneAckPerHide
<1>1. IInv => OneAckPerHide
  <2> SUFFICES ASSUME IInv, server.announces = {}
               PROVE  HowMany(toServer \o batch \o pending, {Msg("HideUI")}) + HowMany(toFbterm, {"AckHideUI"})
                        = IF fbterm = "hiding" THEN 1 ELSE 0
    BY DEF OneAckPerHide
  <2>1. pending = <<>> /\ batch \in Seq(Arriving(Kinds)) /\ toServer \in Seq(Arriving(Kinds)) /\ Acknowledged
    BY DEF IInv, SilentInv, Silent, TypeInv
  <2>2. /\ toServer \o batch \in Seq(Arriving(Kinds))
        /\ HowMany(toServer \o batch, {Msg("HideUI")})
             = HowMany(toServer, {Msg("HideUI")}) + HowMany(batch, {Msg("HideUI")})
    BY <2>1, ConcatProperties, CountConcat
  <2>3. toServer \o batch \o pending = toServer \o batch
    BY <2>1, <2>2, ConcatEmptySeq
  <2> QED BY <2>1, <2>2, <2>3 DEF Acknowledged
<1> QED BY <1>1, SpecIInv, PTL

\* A server's window is drawn only where FbTerm has been told to spare its area.
THEOREM DrawnInArea == Spec => []DrawnWhereAnnounced
<1>1. IInv => DrawnWhereAnnounced
  BY DEF IInv, DrawInv, DrawnWhereAnnounced
<1> QED BY <1>1, SpecIInv, PTL
=============================================================================
