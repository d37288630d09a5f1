------------------------ MODULE LockRequestListProofs ------------------------
(***************************************************************************)
(* What the operations on a list of lock requests do to its members.       *)
(***************************************************************************)
EXTENDS LockRequestList, TLAPS

\* The members of a list of lockers are lockers.
LEMMA ListMembers == ASSUME NEW S, NEW s \in Seq(S) PROVE Members(s) \subseteq S
BY DEF Members

\* Nothing is on an empty list.
LEMMA EmptyList == Members(<<>>) = {} /\ Distinct(<<>>)
BY DEF Members, Distinct

\* LockRequestList::remove takes one request off a list and leaves the others.
LEMMA RemoveList ==
    ASSUME NEW S, NEW s \in Seq(S), NEW i \in DOMAIN s, Distinct(s)
    PROVE  /\ remove(s, i) \in Seq(S)
           /\ Distinct(remove(s, i))
           /\ Members(remove(s, i)) = Members(s) \ {s[i]}
<1> DEFINE t == remove(s, i)
<1>1. /\ t \in Seq(S)
      /\ Len(t) = Len(s) - 1
      /\ \A j \in 1..Len(t) : t[j] = IF j < i THEN s[j] ELSE s[j + 1]
  <2> DEFINE n == Len(s) - 1
  <2>1. n \in Nat /\ Len(s) = n + 1 /\ i \in 1..(n + 1)
    OBVIOUS
  <2>2. t = [j \in 1..n |-> IF j < i THEN s[j] ELSE s[j + 1]]
    BY DEF remove
  <2> HIDE DEF n, t
  <2>3. \A j \in 1..n : s[j] \in S /\ s[j + 1] \in S
    BY <2>1
  <2>4. t \in Seq(S) /\ Len(t) = n
    BY <2>1, <2>2, <2>3
  <2>5. \A j \in 1..n : t[j] = IF j < i THEN s[j] ELSE s[j + 1]
    BY <2>2
  <2>6. n = Len(s) - 1
    BY DEF n
  <2> QED BY <2>4, <2>5, <2>6
<1> HIDE DEF t
<1>2. Distinct(t)
  <2> SUFFICES ASSUME NEW a \in 1..Len(t), NEW b \in 1..Len(t), t[a] = t[b]
               PROVE  a = b
    BY <1>1 DEF Distinct
  <2> DEFINE at(j) == IF j < i THEN j ELSE j + 1
  <2>1. at(a) \in DOMAIN s /\ at(b) \in DOMAIN s /\ s[at(a)] = s[at(b)]
    BY <1>1
  <2>2. at(a) = at(b)
    BY <2>1 DEF Distinct
  <2> QED BY <2>2, <1>1
<1>3. ASSUME NEW x \in Members(t) PROVE x \in Members(s) /\ x # s[i]
  <2>1. PICK k \in 1..Len(t) : t[k] = x
    BY <1>1, <1>3 DEF Members
  <2>2. CASE k < i
    <3>1. k \in 1..Len(s) /\ s[k] = x
      BY <2>1, <2>2, <1>1
    <3> QED BY <3>1, <2>2 DEF Distinct, Members
  <2>3. CASE ~ (k < i)
    <3>1. k + 1 \in 1..Len(s) /\ s[k + 1] = x /\ k + 1 # i
      BY <2>1, <2>3, <1>1
    <3> QED BY <3>1 DEF Distinct, Members
  <2> QED BY <2>2, <2>3
<1>4. ASSUME NEW x \in Members(s), x # s[i] PROVE x \in Members(t)
  <2>1. PICK k \in 1..Len(s) : s[k] = x
    BY <1>4 DEF Members
  <2>2. CASE k < i
    BY <2>1, <2>2, <1>1 DEF Members
  <2>3. CASE k > i
    <3>1. k - 1 \in 1..Len(t) /\ t[k - 1] = x
      BY <2>1, <2>3, <1>1
    <3> QED BY <3>1, <1>1 DEF Members
  <2> QED BY <2>1, <2>2, <2>3, <1>4
<1> QED BY <1>1, <1>2, <1>3, <1>4 DEF t

\* LockRequestList::push_back.
LEMMA PushBackList ==
    ASSUME NEW S, NEW s \in Seq(S), NEW x \in S
    PROVE  /\ push_back(s, x) \in Seq(S)
           /\ Members(push_back(s, x)) = Members(s) \cup {x}
           /\ Distinct(s) /\ x \notin Members(s) => Distinct(push_back(s, x))
<1> DEFINE t == push_back(s, x)
<1>1. /\ t \in Seq(S) /\ Len(t) = Len(s) + 1
      /\ \A j \in 1..Len(s) : t[j] = s[j]
      /\ t[Len(s) + 1] = x
  BY DEF push_back
<1> HIDE DEF t
<1>2. Members(t) = Members(s) \cup {x}
  <2>1. ASSUME NEW y \in Members(t) PROVE y \in Members(s) \cup {x}
    BY <1>1, <2>1 DEF Members
  <2>2. ASSUME NEW y \in Members(s) PROVE y \in Members(t)
    BY <1>1, <2>2 DEF Members
  <2>3. x \in Members(t)
    BY <1>1 DEF Members
  <2> QED BY <2>1, <2>2, <2>3
<1>3. Distinct(s) /\ x \notin Members(s) => Distinct(t)
  BY <1>1 DEF Distinct, Members
<1> QED BY <1>1, <1>2, <1>3 DEF t

\* Moving the requests of one list to the end of another.
LEMMA ConcatList ==
    ASSUME NEW S, NEW s \in Seq(S), NEW u \in Seq(S)
    PROVE  /\ s \o u \in Seq(S)
           /\ Members(s \o u) = Members(s) \cup Members(u)
           /\ (Distinct(s) /\ Distinct(u) /\ Members(s) \cap Members(u) = {})
                => Distinct(s \o u)
<1> DEFINE t == s \o u
<1>1. /\ t \in Seq(S) /\ Len(t) = Len(s) + Len(u)
      /\ \A j \in 1..(Len(s) + Len(u)) :
            t[j] = IF j <= Len(s) THEN s[j] ELSE u[j - Len(s)]
  OBVIOUS
<1> HIDE DEF t
<1>2. Members(t) = Members(s) \cup Members(u)
  <2>1. ASSUME NEW y \in Members(t) PROVE y \in Members(s) \cup Members(u)
    BY <1>1, <2>1 DEF Members
  <2>2. ASSUME NEW y \in Members(s) PROVE y \in Members(t)
    <3>1. PICK k \in 1..Len(s) : s[k] = y
      BY <2>2 DEF Members
    <3>2. k \in 1..Len(t) /\ t[k] = y
      BY <3>1, <1>1
    <3> QED BY <3>2, <1>1 DEF Members
  <2>3. ASSUME NEW y \in Members(u) PROVE y \in Members(t)
    <3>1. PICK k \in 1..Len(u) : u[k] = y
      BY <2>3 DEF Members
    <3> DEFINE n == Len(s)
    <3>2. n \in Nat /\ Len(u) \in Nat
      OBVIOUS
    <3> HIDE DEF n
    <3>3. n + k \in 1..Len(t) /\ n + k > n /\ (n + k) - n = k
      BY <3>1, <3>2, <1>1 DEF n
    <3>4. t[n + k] = y
      BY <3>1, <3>2, <3>3, <1>1 DEF n
    <3> QED BY <3>3, <3>4, <1>1 DEF Members
  <2> QED BY <2>1, <2>2, <2>3
<1>3. ASSUME Distinct(s), Distinct(u), Members(s) \cap Members(u) = {}
      PROVE  Distinct(t)
  <2> SUFFICES ASSUME NEW i \in 1..Len(t), NEW j \in 1..Len(t), t[i] = t[j]
               PROVE  i = j
    BY DEF Distinct
  <2>1. CASE i <= Len(s) /\ j <= Len(s)
    BY <2>1, <1>1, <1>3 DEF Distinct
  <2>2. CASE i > Len(s) /\ j > Len(s)
    <3>1. u[i - Len(s)] = u[j - Len(s)]
      BY <2>2, <1>1
    <3> QED BY <2>2, <3>1, <1>1, <1>3 DEF Distinct
  <2>3. CASE i <= Len(s) /\ j > Len(s)
    <3>1. s[i] \in Members(s)
      BY <2>3, <1>1 DEF Members
    <3>2. j - Len(s) \in 1..Len(u) /\ t[j] = u[j - Len(s)]
      BY <2>3, <1>1
    <3>3. u[j - Len(s)] \in Members(u)
      BY <3>2 DEF Members
    <3> QED BY <3>1, <3>2, <3>3, <2>3, <1>1, <1>3
  <2>4. CASE i > Len(s) /\ j <= Len(s)
    <3>1. s[j] \in Members(s)
      BY <2>4, <1>1 DEF Members
    <3>2. i - Len(s) \in 1..Len(u) /\ t[i] = u[i - Len(s)]
      BY <2>4, <1>1
    <3>3. u[i - Len(s)] \in Members(u)
      BY <3>2 DEF Members
    <3> QED BY <3>1, <3>2, <3>3, <2>4, <1>1, <1>3, Zenon
  <2> QED BY <2>1, <2>2, <2>3, <2>4, <1>1
<1> QED BY <1>1, <1>2, <1>3 DEF t

\* LockRequestList::push_front.
LEMMA PushFrontList ==
    ASSUME NEW S, NEW s \in Seq(S), NEW x \in S
    PROVE  /\ push_front(s, x) \in Seq(S)
           /\ Members(push_front(s, x)) = Members(s) \cup {x}
           /\ Distinct(s) /\ x \notin Members(s) => Distinct(push_front(s, x))
<1> DEFINE u == <<x>>
<1>1. u \in Seq(S) /\ Members(u) = {x} /\ Distinct(u)
  BY DEF Members, Distinct
<1> HIDE DEF u
<1>2. /\ u \o s \in Seq(S)
      /\ Members(u \o s) = Members(u) \cup Members(s)
      /\ (Distinct(u) /\ Distinct(s) /\ Members(u) \cap Members(s) = {})
           => Distinct(u \o s)
  BY <1>1, ConcatList
<1> QED BY <1>1, <1>2 DEF push_front, u

=============================================================================
