-------------------------- MODULE DaemonProcessProofs --------------------------
(***************************************************************************)
(* From the API server to the handlers: what waits in the two queues of    *)
(* the informer fits, one item after the other, to what its reader has.    *)
(* First what appending and taking does to the neighbours in a queue, then *)
(* the types, then one lemma per conjunct of the inductive invariant.      *)
(***************************************************************************)
EXTENDS DaemonProcess, FiniteSetTheorems, SequenceTheorems, TLAPS

(***************************************************************************)
(* Queues whose items belong to configurations.                            *)
(***************************************************************************)
\* Items that are appended, each of another configuration: what follows or precedes
\* whom among the old ones stays, and a new one follows the last old one of its own.
LEMMA Appended ==
  ASSUME NEW S, NEW q \in Seq(S), NEW s \in Seq(S),
         \A k, m \in 1 .. Len(s) : s[k].conf = s[m].conf => k = m
  PROVE  LET r == q \o s IN
         /\ r \in Seq(S) /\ Len(r) = Len(q) + Len(s)
         /\ \A i \in 1 .. Len(q) :
              /\ r[i] = q[i]
              /\ IsFirst(r, i) => IsFirst(q, i)
              /\ IsLast(r, i) => /\ IsLast(q, i)
                                 /\ \A k \in 1 .. Len(s) : s[k].conf # q[i].conf
              /\ \A j \in 1 .. Len(r) : Follows(r, j, i) => j \in 1 .. Len(q) /\ Follows(q, j, i)
         /\ \A k \in 1 .. Len(s) :
              /\ r[Len(q) + k] = s[k]
              /\ IsFirst(r, Len(q) + k) => \A i \in 1 .. Len(q) : q[i].conf # s[k].conf
              /\ \A i \in 1 .. Len(r) : Follows(r, i, Len(q) + k) =>
                   i \in 1 .. Len(q) /\ q[i].conf = s[k].conf /\ IsLast(q, i)
<1> DEFINE r == q \o s
<1>1. Len(q) \in Nat /\ Len(s) \in Nat BY LenProperties
<1>2. /\ r \in Seq(S) /\ Len(r) = Len(q) + Len(s)
      /\ \A i \in 1 .. Len(q) + Len(s) : r[i] = IF i <= Len(q) THEN q[i] ELSE s[i - Len(q)]
  BY ConcatProperties
<1>3. \A i \in 1 .. Len(q) : r[i] = q[i] BY <1>1, <1>2
<1>4. \A k \in 1 .. Len(s) : r[Len(q) + k] = s[k] /\ Len(q) + k \in 1 .. Len(r)
  BY <1>1, <1>2
<1> HIDE DEF r
<1>5. ASSUME NEW i \in 1 .. Len(q)
      PROVE  /\ IsFirst(r, i) => IsFirst(q, i)
             /\ IsLast(r, i) => IsLast(q, i) /\ \A k \in 1 .. Len(s) : s[k].conf # q[i].conf
             /\ \A j \in 1 .. Len(r) : Follows(r, j, i) => j \in 1 .. Len(q) /\ Follows(q, j, i)
  <2>1. IsFirst(r, i) => IsFirst(q, i) BY <1>1, <1>3 DEF IsFirst
  <2>2. IsLast(r, i) => IsLast(q, i) BY <1>1, <1>2, <1>3 DEF IsLast
  <2>3. ASSUME IsLast(r, i), NEW k \in 1 .. Len(s) PROVE s[k].conf # q[i].conf
    <3>1. Len(q) + k \in i + 1 .. Len(r) BY <1>1, <1>2
    <3> QED BY <1>3, <1>4, <2>3, <3>1 DEF IsLast
  <2>4. ASSUME NEW j \in 1 .. Len(r), Follows(r, j, i)
        PROVE  j \in 1 .. Len(q) /\ Follows(q, j, i)
    <3>1. j \in Int /\ 1 <= j /\ j < i /\ i <= Len(q) BY <1>1, <1>2, <2>4 DEF Follows
    <3>2. j \in 1 .. Len(q) BY <1>1, <3>1
    <3>3. ASSUME NEW k \in j + 1 .. i - 1 PROVE q[k].conf # q[i].conf
      <4>1. k \in 1 .. Len(q) BY <1>1, <3>1
      <4> QED BY <1>3, <2>4, <4>1 DEF Follows
    <3>4. q[j].conf = q[i].conf BY <1>3, <2>4, <3>2 DEF Follows
    <3> QED BY <3>1, <3>2, <3>3, <3>4 DEF Follows
  <2> QED BY <2>1, <2>2, <2>3, <2>4
<1>6. ASSUME NEW k \in 1 .. Len(s)
      PROVE  /\ IsFirst(r, Len(q) + k) => \A i \in 1 .. Len(q) : q[i].conf # s[k].conf
             /\ \A i \in 1 .. Len(r) : Follows(r, i, Len(q) + k) =>
                  i \in 1 .. Len(q) /\ q[i].conf = s[k].conf /\ IsLast(q, i)
  <2>1. ASSUME IsFirst(r, Len(q) + k), NEW i \in 1 .. Len(q) PROVE q[i].conf # s[k].conf
    <3>1. i \in 1 .. (Len(q) + k) - 1 BY <1>1
    <3> QED BY <1>3, <1>4, <2>1, <3>1 DEF IsFirst
  <2>2. ASSUME NEW i \in 1 .. Len(r), Follows(r, i, Len(q) + k)
        PROVE  i \in 1 .. Len(q) /\ q[i].conf = s[k].conf /\ IsLast(q, i)
    <3>1. i < Len(q) + k /\ r[i].conf = s[k].conf
      BY <1>4, <2>2 DEF Follows
    <3>2. i \in 1 .. Len(q)
      <4> SUFFICES ASSUME i \notin 1 .. Len(q) PROVE FALSE
        OBVIOUS
      <4>1. i - Len(q) \in 1 .. Len(s) /\ r[i] = s[i - Len(q)] BY <1>1, <1>2
      <4>2. i - Len(q) = k BY <3>1, <4>1
      <4> QED BY <1>1, <3>1, <4>2
    <3>3. IsLast(q, i)
      <4> SUFFICES ASSUME NEW m \in i + 1 .. Len(q) PROVE q[m].conf # q[i].conf
        BY DEF IsLast
      <4>1. m \in i + 1 .. Len(q) + k - 1 /\ m \in 1 .. Len(q) BY <1>1, <3>2
      <4>2. r[m].conf # r[Len(q) + k].conf BY <2>2, <4>1 DEF Follows
      <4> QED BY <1>3, <1>4, <3>1, <3>2, <4>1, <4>2
    <3> QED BY <1>3, <3>1, <3>2, <3>3
  <2> QED BY <2>1, <2>2
<1> QED BY <1>2, <1>3, <1>4, <1>5, <1>6 DEF r

\* The same of one item.
LEMMA AppendedOne ==
  ASSUME NEW S, NEW q \in Seq(S), NEW e \in S
  PROVE  LET r == Append(q, e)
             m == Len(q) + 1
         IN
         /\ \A i \in 1 .. Len(q) :
              /\ IsFirst(r, i) => IsFirst(q, i)
              /\ IsLast(r, i) => IsLast(q, i) /\ e.conf # q[i].conf
              /\ \A j \in 1 .. Len(r) : Follows(r, j, i) => j \in 1 .. Len(q) /\ Follows(q, j, i)
         /\ IsFirst(r, m) => \A i \in 1 .. Len(q) : q[i].conf # e.conf
         /\ \A i \in 1 .. Len(r) : Follows(r, i, m) =>
              i \in 1 .. Len(q) /\ q[i].conf = e.conf /\ IsLast(q, i)
<1> DEFINE s == <<e>>
           r == q \o s
<1>0. r = Append(q, e) OBVIOUS
<1>1. s \in Seq(S) /\ Len(s) = 1 /\ s[1] = e OBVIOUS
<1> HIDE DEF s
<1>2. \A k, m \in 1 .. Len(s) : s[k].conf = s[m].conf => k = m BY <1>1
<1>3. 1 \in 1 .. Len(s) BY <1>1
<1>4. /\ \A i \in 1 .. Len(q) :
           /\ r[i] = q[i]
           /\ IsFirst(r, i) => IsFirst(q, i)
           /\ IsLast(r, i) => /\ IsLast(q, i)
                              /\ \A k \in 1 .. Len(s) : s[k].conf # q[i].conf
           /\ \A j \in 1 .. Len(r) : Follows(r, j, i) => j \in 1 .. Len(q) /\ Follows(q, j, i)
      /\ \A k \in 1 .. Len(s) :
           /\ r[Len(q) + k] = s[k]
           /\ IsFirst(r, Len(q) + k) => \A i \in 1 .. Len(q) : q[i].conf # s[k].conf
           /\ \A i \in 1 .. Len(r) : Follows(r, i, Len(q) + k) =>
                i \in 1 .. Len(q) /\ q[i].conf = s[k].conf /\ IsLast(q, i)
  BY <1>1, <1>2, Appended, Zenon
<1> HIDE DEF r
<1> QED BY <1>0, <1>1, <1>3, <1>4

\* The first item is taken: whoever becomes the first of its configuration followed it,
\* or was the first before.
LEMMA Taken ==
  ASSUME NEW S, NEW q \in Seq(S), q # <<>>
  PROVE  LET t == Tail(q) IN
         /\ t \in Seq(S) /\ Len(t) = Len(q) - 1 /\ Head(q) = q[1] /\ 1 \in 1 .. Len(q)
         /\ \A i \in 1 .. Len(t) :
              /\ i + 1 \in 1 .. Len(q) /\ t[i] = q[i + 1]
              /\ IsFirst(t, i) => IF q[1].conf = t[i].conf THEN Follows(q, 1, i + 1)
                                                           ELSE IsFirst(q, i + 1)
              /\ IsLast(t, i) => IsLast(q, i + 1)
              /\ \A j \in 1 .. Len(t) : Follows(t, j, i) => Follows(q, j + 1, i + 1)
         /\ (\A i \in 1 .. Len(t) : t[i].conf # q[1].conf) => IsLast(q, 1)
         /\ IsFirst(q, 1)
         /\ \A i \in 1 .. Len(q) : q[i].conf # q[1].conf => i - 1 \in 1 .. Len(t)
<1> DEFINE t == Tail(q)
<1>1. Len(q) \in Nat \ {0} BY LenProperties, EmptySeq
<1>2. /\ t \in Seq(S) /\ Len(t) = Len(q) - 1 /\ Head(q) = q[1]
      /\ \A i \in 1 .. Len(t) : t[i] = q[i + 1]
  BY HeadTailProperties
<1> HIDE DEF t
<1>3. ASSUME NEW i \in 1 .. Len(t)
      PROVE  /\ i + 1 \in 1 .. Len(q)
             /\ IsFirst(t, i) => IF q[1].conf = t[i].conf THEN Follows(q, 1, i + 1)
                                                          ELSE IsFirst(q, i + 1)
             /\ IsLast(t, i) => IsLast(q, i + 1)
             /\ \A j \in 1 .. Len(t) : Follows(t, j, i) => Follows(q, j + 1, i + 1)
  <2>1. i + 1 \in 1 .. Len(q) BY <1>1, <1>2
  <2>2. ASSUME NEW k \in 2 .. Len(q) PROVE k - 1 \in 1 .. Len(t) /\ q[k] = t[k - 1]
    BY <1>1, <1>2
  <2>3. ASSUME IsFirst(t, i), q[1].conf = t[i].conf PROVE Follows(q, 1, i + 1)
    <3>1. ASSUME NEW k \in 2 .. i PROVE q[k].conf # q[i + 1].conf
      <4>1. k - 1 \in 1 .. i - 1 /\ k \in 2 .. Len(q) BY <1>1, <1>2
      <4> QED BY <1>2, <2>2, <2>3, <4>1 DEF IsFirst
    <3> QED BY <1>1, <1>2, <2>1, <2>3, <3>1 DEF Follows
  <2>4. ASSUME IsFirst(t, i), q[1].conf # t[i].conf PROVE IsFirst(q, i + 1)
    <3> SUFFICES ASSUME NEW k \in 1 .. i PROVE q[k].conf # q[i + 1].conf
      BY <1>1 DEF IsFirst
    <3>1. CASE k = 1 BY <1>2, <2>4, <3>1
    <3>2. CASE k # 1
      <4>1. k - 1 \in 1 .. i - 1 /\ k \in 2 .. Len(q) BY <1>1, <1>2, <3>2
      <4> QED BY <1>2, <2>2, <2>4, <4>1 DEF IsFirst
    <3> QED BY <3>1, <3>2
  <2>5. ASSUME IsLast(t, i) PROVE IsLast(q, i + 1)
    <3> SUFFICES ASSUME NEW k \in i + 2 .. Len(q) PROVE q[k].conf # q[i + 1].conf
      BY <1>1 DEF IsLast
    <3>1. k - 1 \in i + 1 .. Len(t) /\ k \in 2 .. Len(q) BY <1>1, <1>2
    <3> QED BY <1>2, <2>2, <2>5, <3>1 DEF IsLast
  <2>6. ASSUME NEW j \in 1 .. Len(t), Follows(t, j, i) PROVE Follows(q, j + 1, i + 1)
    <3>1. j + 1 < i + 1 /\ q[j + 1].conf = q[i + 1].conf BY <1>1, <1>2, <2>6 DEF Follows
    <3>2. ASSUME NEW k \in j + 2 .. i PROVE q[k].conf # q[i + 1].conf
      <4>1. k - 1 \in j + 1 .. i - 1 /\ k \in 2 .. Len(q) BY <1>1, <1>2
      <4> QED BY <1>2, <2>2, <2>6, <4>1 DEF Follows
    <3> QED BY <1>1, <3>1, <3>2 DEF Follows
  <2> QED BY <2>1, <2>3, <2>4, <2>5, <2>6
<1>4. ASSUME \A i \in 1 .. Len(t) : t[i].conf # q[1].conf PROVE IsLast(q, 1)
  <2> SUFFICES ASSUME NEW k \in 2 .. Len(q) PROVE q[k].conf # q[1].conf
    BY DEF IsLast
  <2>1. k - 1 \in 1 .. Len(t) /\ k = (k - 1) + 1 BY <1>1, <1>2
  <2>2. t[k - 1] = q[k] BY <1>2, <2>1
  <2> QED BY <1>4, <2>1, <2>2
<1>5. IsFirst(q, 1) BY DEF IsFirst
<1>6. \A i \in 1 .. Len(q) : q[i].conf # q[1].conf => i - 1 \in 1 .. Len(t)
  BY <1>1, <1>2
<1> QED BY <1>1, <1>2, <1>3, <1>4, <1>5, <1>6 DEF t

(***************************************************************************)
(* The deltas of a list.                                                   *)
(***************************************************************************)
\* SetToSeqs names every element of a finite set once.
LEMMA NamedOnce ==
  ASSUME NEW S, IsFiniteSet(S), NEW s \in SetToSeqs(S)
  PROVE  /\ s \in Seq(S)
         /\ \A i, j \in 1 .. Len(s) : s[i] = s[j] => i = j
         /\ \A e \in S : \E i \in 1 .. Len(s) : s[i] = e
<1> DEFINE n == Cardinality(S)
<1>1. n \in Nat BY FS_CardinalityType
<1>2. s \in [1 .. n -> S] /\ \A i, j \in 1 .. n : i # j => s[i] # s[j]
  BY DEF SetToSeqs
<1>3. s \in Seq(S) /\ Len(s) = n BY <1>1, <1>2
<1>4. s \in Injection(1 .. n, S) BY <1>2 DEF Injection, IsInjective
<1>5. Cardinality(1 .. n) = n BY <1>1, FS_Interval
<1>6. s \in Surjection(1 .. n, S) BY <1>4, <1>5, FS_Injection
<1>7. \A e \in S : \E i \in 1 .. n : s[i] = e BY <1>6 DEF Surjection
<1> QED BY <1>2, <1>3, <1>7

\* A list tells each configuration that is there, as it is, and of the others only those
\* in the store with no deletion waiting: each once, and in the types of deltas.
LEMMA ListedDeltas ==
  ASSUME TypeOK,
         NEW there \in SetToSeqs(There), NEW gone \in SetToSeqs(GoneFromList)
  PROVE  LET s == Listed(there, gone) IN
         /\ s \in Seq(Deltas)
         /\ \A k \in 1 .. Len(s) :
              \/ s[k].conf \in There /\ s[k] = Put(s[k].conf, api[s[k].conf])
              \/ s[k].conf \in GoneFromList /\ s[k] = Tombstone(s[k].conf, store[s[k].conf])
         /\ \A k, m \in 1 .. Len(s) : s[k].conf = s[m].conf => k = m
         /\ \A c \in There : \E k \in 1 .. Len(s) : s[k] = Put(c, api[c])
<1> DEFINE n == Len(there)
           puts == [i \in 1 .. n |-> Put(there[i], api[there[i]])]
           tombs == [i \in 1 .. Len(gone) |-> Tombstone(gone[i], store[gone[i]])]
           s == Listed(there, gone)
<1>1. IsFiniteSet(There) /\ IsFiniteSet(GoneFromList)
  BY InformerAssumption, FS_Subset DEF There, GoneFromList
<1>2. /\ there \in Seq(There) /\ gone \in Seq(GoneFromList)
      /\ \A i, j \in 1 .. n : there[i] = there[j] => i = j
      /\ \A i, j \in 1 .. Len(gone) : gone[i] = gone[j] => i = j
      /\ \A c \in There : \E i \in 1 .. n : there[i] = c
  BY <1>1, NamedOnce
<1>3. n \in Nat /\ Len(gone) \in Nat BY <1>2, LenProperties
<1>4. ASSUME NEW i \in 1 .. n
      PROVE  there[i] \in There /\ puts[i] = Put(there[i], api[there[i]]) /\ puts[i] \in Deltas
  <2>1. there[i] \in There BY <1>2, ElementOfSeq
  <2>2. api[there[i]] \in Contents /\ there[i] \in Confs
    BY <2>1 DEF There, TypeOK, Configurations
  <2> QED BY <2>1, <2>2 DEF Put, Deltas
<1>5. ASSUME NEW i \in 1 .. Len(gone)
      PROVE  /\ gone[i] \in GoneFromList
             /\ tombs[i] = Tombstone(gone[i], store[gone[i]]) /\ tombs[i] \in Deltas
  <2>1. gone[i] \in GoneFromList BY <1>2, ElementOfSeq
  <2>2. store[gone[i]] \in Contents /\ gone[i] \in Confs
    BY <2>1 DEF GoneFromList, TypeOK, Configurations
  <2> QED BY <2>1, <2>2 DEF Tombstone, Deltas
<1>6. puts \in Seq(Deltas) /\ Len(puts) = n BY <1>3, <1>4
<1>7. tombs \in Seq(Deltas) /\ Len(tombs) = Len(gone) BY <1>3, <1>5
<1>8. s = puts \o tombs BY DEF Listed
<1> HIDE DEF n, puts, tombs, s
<1>9. /\ s \in Seq(Deltas) /\ Len(s) = n + Len(gone)
      /\ \A k \in 1 .. n + Len(gone) : s[k] = IF k <= n THEN puts[k] ELSE tombs[k - n]
  <2> DEFINE r == puts \o tombs
  <2>1. /\ r \in Seq(Deltas) /\ Len(r) = Len(puts) + Len(tombs)
        /\ \A k \in 1 .. Len(puts) + Len(tombs) :
             r[k] = IF k <= Len(puts) THEN puts[k] ELSE tombs[k - Len(puts)]
    BY <1>6, <1>7, ConcatProperties
  <2> HIDE DEF r
  <2>2. s = r BY <1>8 DEF r
  <2> QED BY <1>6, <1>7, <2>1, <2>2
<1>10. ASSUME NEW k \in 1 .. Len(s), k <= n
       PROVE  k \in 1 .. n /\ s[k] = Put(there[k], api[there[k]]) /\ s[k].conf = there[k]
                /\ there[k] \in There
  <2>1. k \in 1 .. n /\ s[k] = puts[k] BY <1>3, <1>9, <1>10
  <2> QED BY <1>4, <2>1 DEF Put
<1>11. ASSUME NEW k \in 1 .. Len(s), ~(k <= n)
       PROVE  /\ k - n \in 1 .. Len(gone) /\ s[k] = Tombstone(gone[k - n], store[gone[k - n]])
              /\ s[k].conf = gone[k - n] /\ gone[k - n] \in GoneFromList
  <2>1. k - n \in 1 .. Len(gone) /\ s[k] = tombs[k - n] BY <1>3, <1>9, <1>11
  <2> QED BY <1>5, <2>1 DEF Tombstone
<1>12. \A k \in 1 .. Len(s) :
         \/ s[k].conf \in There /\ s[k] = Put(s[k].conf, api[s[k].conf])
         \/ s[k].conf \in GoneFromList /\ s[k] = Tombstone(s[k].conf, store[s[k].conf])
  BY <1>10, <1>11
<1>13. There \cap GoneFromList = {} BY DEF There, GoneFromList
<1>14. ASSUME NEW k \in 1 .. Len(s), NEW m \in 1 .. Len(s), s[k].conf = s[m].conf PROVE k = m
  <2>1. CASE k <= n /\ m <= n
    <3>1. there[k] = there[m] /\ k \in 1 .. n /\ m \in 1 .. n BY <1>10, <1>14, <2>1
    <3> QED BY <1>2, <3>1 DEF n
  <2>2. CASE ~(k <= n) /\ ~(m <= n)
    <3>1. gone[k - n] = gone[m - n] /\ k - n \in 1 .. Len(gone) /\ m - n \in 1 .. Len(gone)
      BY <1>11, <1>14, <2>2
    <3>2. k - n = m - n BY <1>2, <3>1
    <3> QED BY <1>3, <1>9, <3>2
  <2>3. CASE (k <= n) # (m <= n) BY <1>10, <1>11, <1>13, <1>14, <2>3
  <2> QED BY <2>1, <2>2, <2>3
<1>15. ASSUME NEW c \in There PROVE \E k \in 1 .. Len(s) : s[k] = Put(c, api[c])
  <2>1. PICK i \in 1 .. n : there[i] = c BY <1>2 DEF n
  <2>2. i \in 1 .. Len(s) /\ i <= n BY <1>3, <1>9
  <2> QED BY <1>10, <2>1, <2>2
<1> QED BY <1>9, <1>12, <1>14, <1>15 DEF s

(***************************************************************************)
(* Types.                                                                  *)
(***************************************************************************)
\* An event of the watch is one delta, with a content that is or was at the API server.
LEMMA EventTyped ==
  ASSUME TypeOK, NEW c \in Confs, NEW content \in Contents \cup {None}, api[c] # content
  PROVE  /\ Event(c, content) \in Seq(Deltas) /\ Len(Event(c, content)) = 1
         /\ Event(c, content)[1].conf = c
         /\ content # None => Event(c, content)[1] = Put(c, content)
         /\ content = None => Event(c, content)[1] = Gone(c, api[c])
<1>1. api[c] \in Contents \cup {None} BY DEF TypeOK, Configurations
<1>2. CASE content = None
  <2>1. Gone(c, api[c]) \in Deltas /\ Gone(c, api[c]).conf = c BY <1>1, <1>2 DEF Gone, Deltas
  <2>2. Event(c, content) = <<Gone(c, api[c])>> BY <1>2 DEF Event
  <2> QED BY <1>2, <2>1, <2>2
<1>3. CASE content # None
  <2>1. Put(c, content) \in Deltas /\ Put(c, content).conf = c BY <1>3 DEF Put, Deltas
  <2>2. Event(c, content) = <<Put(c, content)>> BY <1>3 DEF Event
  <2> QED BY <1>3, <2>1, <2>2
<1> QED BY <1>2, <1>3

\* What a popped delta tells the handlers.
LEMMA NotifiedTyped ==
  ASSUME TypeOK, fifo # <<>>
  PROVE  /\ Head(fifo) \in Deltas /\ Notified(Head(fifo)) \in Notifications
         /\ Notified(Head(fifo)).conf = Head(fifo).conf
<1>1. Head(fifo) \in Deltas BY HeadTailProperties DEF TypeOK
<1>2. store[Head(fifo).conf] \in Contents \cup {None}
  BY <1>1 DEF Deltas, TypeOK, Configurations
<1> QED BY <1>1, <1>2 DEF Notified, Deltas, Notifications

\* An informer with nothing in memory is typed.
LEMMA NothingTyped ==
  /\ Nothing \in Configurations /\ 0 \in 0 .. MaxSignals
  /\ <<>> \in Seq(Deltas) /\ <<>> \in Seq(Notifications) /\ 0 \in 0 .. Len(<<>>)
BY ProcessAssumption, EmptySeq DEF Nothing, Configurations

\* The initial states are typed.
LEMMA InitTyped == Init => TypeOK
BY NothingTyped DEF Init, InformerOff, TypeOK, Configurations, Up

\* The end of the process is typed: nothing of it is left.
LEMMA ExitsTyped ==
  ASSUME TypeOK, Exits
  PROVE  TypeOK'
<1>1. Nothing' = Nothing BY DEF Nothing
<1> QED
  BY <1>1, NothingTyped
     DEF Exits, InformerReset, InformerOff, TypeOK, Configurations, Up

\* The steps of the informer are typed.
LEMMA InformerTyped ==
  ASSUME TypeOK, Informer
  PROVE  TypeOK'
<1>0. UNCHANGED <<main, signals, catcher, loops, manager, daemonSet>> /\ Up
  BY DEF Informer, process
<1>1. CASE Disconnect
  BY <1>0, <1>1 DEF Disconnect, TypeOK, Up
<1>2. CASE List
  <2>1. PICK there \in SetToSeqs(There), gone \in SetToSeqs(GoneFromList) :
           /\ fifo' = fifo \o Listed(there, gone)
           /\ initial' = IF populated THEN initial ELSE Len(Listed(there, gone))
    BY <1>2 DEF List
  <2> DEFINE s == Listed(there, gone)
  <2>2. s \in Seq(Deltas) BY ListedDeltas
  <2> HIDE DEF s
  <2>3. fifo' \in Seq(Deltas) /\ Len(fifo') = Len(fifo) + Len(s)
    BY <2>1, <2>2, ConcatProperties DEF TypeOK, s
  <2>4. Len(fifo) \in Nat /\ Len(s) \in Nat BY <2>2, LenProperties DEF TypeOK
  <2>5. initial' \in 0 .. Len(fifo') BY <2>1, <2>3, <2>4 DEF TypeOK, s
  <2> QED BY <1>0, <1>2, <2>3, <2>5 DEF List, TypeOK, Up
<1>3. CASE Pop
  <2>1. Head(fifo) \in Deltas /\ Notified(Head(fifo)) \in Notifications
    BY <1>3, NotifiedTyped DEF Pop
  <2>2. listener' \in Seq(Notifications) BY <1>3, <2>1 DEF Pop, TypeOK
  <2>3. store' \in Configurations
    BY <1>3, <2>1 DEF Pop, TypeOK, Configurations, Deltas, Notifications
  <2>4. fifo' \in Seq(Deltas) /\ Len(fifo') = Len(fifo) - 1 /\ Len(fifo) \in Nat \ {0}
    BY <1>3, HeadTailProperties, EmptySeq DEF Pop, TypeOK
  <2>5. initial' \in 0 .. Len(fifo') BY <1>3, <2>4 DEF Pop, TypeOK
  <2> QED BY <1>0, <1>3, <2>2, <2>3, <2>4, <2>5 DEF Pop, TypeOK, Up
<1>4. CASE Handle
  <2>1. Head(listener) \in Notifications /\ listener' \in Seq(Notifications)
    BY <1>4, HeadTailProperties DEF Handle, TypeOK
  <2>2. view' \in Configurations
    BY <1>4, <2>1 DEF Handle, TypeOK, Configurations, Notifications
  <2> QED BY <1>0, <1>4, <2>1, <2>2 DEF Handle, TypeOK, Up
<1> QED BY <1>1, <1>2, <1>3, <1>4 DEF Informer

\* Every step is typed.
LEMMA StepTyped ==
  ASSUME TypeOK, [Next]_vars
  PROVE  TypeOK'
<1>1. CASE SetupManager \/ CreateDaemonSet \/ ManagerDies \/ StartDaemon
  BY <1>1 DEF SetupManager, CreateDaemonSet, ManagerDies, StartDaemon, informer, process,
              TypeOK, Up, InformerOff
<1>2. CASE Exits BY <1>2, ExitsTyped
<1>3. CASE NewServer
  BY <1>2, <1>3 DEF NewServer, Run, TypeOK, Up, InformerOff
<1>4. CASE Signal \/ Catch \/ Stop
  BY <1>4, ProcessAssumption DEF Signal, Catch, Stop, informer, TypeOK, Up, InformerOff
<1>5. ASSUME NEW l \in Loops, OnBridgeConfigSynced(l) \/ tryRun(l) \/ Ran(l)
      PROVE  TypeOK'
  BY <1>5 DEF OnBridgeConfigSynced, tryRun, Ran, informer, TypeOK, Up
<1>6. CASE Informer BY <1>6, InformerTyped
<1>7. CASE Users
  <2>1. PICK c \in Confs, content \in Contents \cup {None} : Change(c, content)
    BY <1>7 DEF Users
  <2>2. api' \in Configurations BY <2>1 DEF Change, TypeOK, Configurations
  <2>3. fifo' \in Seq(Deltas) /\ Len(fifo') \in Nat /\ Len(fifo) \in Nat /\ Len(fifo') >= Len(fifo)
    <3>1. CASE conn = "watch"
      <4> DEFINE s == Event(c, content)
      <4>1. s \in Seq(Deltas) /\ Len(s) = 1 BY <2>1, EventTyped DEF Change
      <4>2. fifo' = fifo \o s BY <2>1, <3>1 DEF Change
      <4> HIDE DEF s
      <4> QED BY <4>1, <4>2, ConcatProperties, LenProperties DEF TypeOK
    <3>2. CASE conn # "watch" BY <2>1, <3>2 DEF Change, TypeOK
    <3> QED BY <3>1, <3>2
  <2>4. conn # "watch" => UNCHANGED fifo BY <2>1 DEF Change
  <2> QED BY <1>7, <2>1, <2>2, <2>3, <2>4 DEF Users, Change, process, TypeOK, Up, InformerOff
<1>8. CASE UNCHANGED vars
  BY <1>8 DEF vars, informer, process, TypeOK, Up, InformerOff
<1> QED
  BY <1>1, <1>2, <1>3, <1>4, <1>5, <1>6, <1>7, <1>8 DEF Next, Kill, LoopStops

\* Every variable of the process, of the informer in it and of the manager is typed, and
\* a process that is not up has nothing in memory.
THEOREM TypeCorrect == Spec => []TypeOK
BY InitTyped, StepTyped, PTL DEF Spec

(***************************************************************************)
(* The inductive invariant.                                                *)
(***************************************************************************)
\* What the store has of the configuration once delta d is in it.
Becomes(d) == IF d.kind = "put" THEN d.content ELSE None

\* What Fits says of notifications, of deltas: a deletion is of what is known then.
DeltaFits(d, known) ==
  d.kind # "put" => known # None /\ (d.kind = "tombstone" \/ d.content = known)

\* The deltas that wait, one after the other, all fit what the store will have then.
DeltasFit ==
  \A j \in 1 .. Len(fifo) :
    /\ IsFirst(fifo, j) => DeltaFits(fifo[j], store[fifo[j].conf])
    /\ \A i \in 1 .. Len(fifo) : Follows(fifo, i, j) => DeltaFits(fifo[j], Becomes(fifo[i]))

ConfInv == DeltasFit /\ StoreFollows /\ HandlersFollow /\ NotificationsFit

\* A queue without items: nothing to show.
LEMMA NothingWaits ==
  ASSUME fifo' = <<>>, listener' = <<>>, view' = store', conn' # "watch"
  PROVE  ConfInv'
<1>1. 1 .. Len(<<>>) = {} BY EmptySeq
<1> QED
  BY <1>1 DEF ConfInv, DeltasFit, StoreFollows, HandlersFollow, NotificationsFit

\* Steps that do not touch the queues, and those that end or begin a watch without
\* telling anything, keep the invariant.
LEMMA QuietConf ==
  ASSUME ConfInv, UNCHANGED <<api, fifo, store, listener, view>>,
         conn' = "watch" => conn = "watch"
  PROVE  ConfInv'
<1>1. DeltasFit' BY DEF ConfInv, DeltasFit, IsFirst, Follows, DeltaFits, Becomes
<1>2. StoreFollows' BY DEF ConfInv, StoreFollows, IsLast, Put
<1>3. HandlersFollow' BY DEF ConfInv, HandlersFollow, IsLast
<1>4. NotificationsFit' BY DEF ConfInv, NotificationsFit, IsFirst, Follows, Fits
<1> QED BY <1>1, <1>2, <1>3, <1>4 DEF ConfInv

\* Deltas that arrive fit if they fit the last that waits, or else the store.
LEMMA ArrivalsFit ==
  ASSUME TypeOK, DeltasFit, NEW s \in Seq(Deltas), fifo' = fifo \o s, store' = store,
         \A k, m \in 1 .. Len(s) : s[k].conf = s[m].conf => k = m,
         \A k \in 1 .. Len(s) :
           /\ (\A i \in 1 .. Len(fifo) : fifo[i].conf # s[k].conf)
                => DeltaFits(s[k], store[s[k].conf])
           /\ \A i \in 1 .. Len(fifo) :
                fifo[i].conf = s[k].conf /\ IsLast(fifo, i) => DeltaFits(s[k], Becomes(fifo[i]))
  PROVE  DeltasFit'
<1> SUFFICES ASSUME NEW j \in 1 .. Len(fifo')
             PROVE  /\ IsFirst(fifo', j) => DeltaFits(fifo'[j], store[fifo'[j].conf])
                    /\ \A i \in 1 .. Len(fifo') :
                         Follows(fifo', i, j) => DeltaFits(fifo'[j], Becomes(fifo'[i]))
  BY DEF DeltasFit, IsFirst, Follows, DeltaFits, Becomes
<1>1. fifo \in Seq(Deltas) BY DEF TypeOK
<1>2. Len(fifo) \in Nat /\ Len(s) \in Nat BY <1>1, LenProperties
<1>3. Len(fifo') = Len(fifo) + Len(s) BY <1>1, Appended
<1>4. CASE j \in 1 .. Len(fifo)
  <2>1. fifo'[j] = fifo[j] BY <1>1, <1>4, Appended
  <2>2. IsFirst(fifo', j) => IsFirst(fifo, j) BY <1>1, <1>4, Appended
  <2>3. ASSUME NEW i \in 1 .. Len(fifo'), Follows(fifo', i, j)
        PROVE  i \in 1 .. Len(fifo) /\ Follows(fifo, i, j) /\ fifo'[i] = fifo[i]
    <3>1. i \in 1 .. Len(fifo) /\ Follows(fifo, i, j) BY <1>1, <1>4, <2>3, Appended
    <3> QED BY <1>1, <3>1, Appended
  <2> QED BY <1>4, <2>1, <2>2, <2>3 DEF DeltasFit
<1>5. CASE j \notin 1 .. Len(fifo)
  <2> DEFINE k == j - Len(fifo)
  <2>1. k \in 1 .. Len(s) /\ j = Len(fifo) + k BY <1>2, <1>3, <1>5
  <2> HIDE DEF k
  <2>2. fifo'[j] = s[k] BY <1>1, <2>1, Appended
  <2>3. IsFirst(fifo', j) => \A i \in 1 .. Len(fifo) : fifo[i].conf # s[k].conf
    BY <1>1, <2>1, Appended
  <2>4. ASSUME NEW i \in 1 .. Len(fifo'), Follows(fifo', i, j)
        PROVE  i \in 1 .. Len(fifo) /\ fifo[i].conf = s[k].conf /\ IsLast(fifo, i)
                 /\ fifo'[i] = fifo[i]
    <3>1. i \in 1 .. Len(fifo) /\ fifo[i].conf = s[k].conf /\ IsLast(fifo, i)
      BY <1>1, <2>1, <2>4, Appended
    <3> QED BY <1>1, <3>1, Appended
  <2> QED BY <2>1, <2>2, <2>3, <2>4
<1> QED BY <1>4, <1>5

\* The watch tells the store what is there if each configuration that is there arrives as
\* it is, or was told before and stays.
LEMMA ArrivalsFollow ==
  ASSUME TypeOK, StoreFollows, NEW s \in Seq(Deltas), fifo' = fifo \o s, store' = store,
         \A k, m \in 1 .. Len(s) : s[k].conf = s[m].conf => k = m,
         \A c \in Confs : api'[c] # None =>
           \/ \E k \in 1 .. Len(s) : s[k].conf = c /\ s[k] = Put(c, api'[c])
           \/ /\ \A k \in 1 .. Len(s) : s[k].conf # c
              /\ conn = "watch" /\ api'[c] = api[c]
  PROVE  StoreFollows'
<1> SUFFICES ASSUME NEW c \in Confs, api'[c] # None
             PROVE  IF \E i \in 1 .. Len(fifo') : fifo'[i].conf = c
                    THEN \A i \in 1 .. Len(fifo') :
                           fifo'[i].conf = c /\ IsLast(fifo', i) => fifo'[i] = Put(c, api'[c])
                    ELSE store[c] = api'[c]
  BY DEF StoreFollows, IsLast, Put
<1>1. fifo \in Seq(Deltas) BY DEF TypeOK
<1>2. Len(fifo) \in Nat /\ Len(s) \in Nat BY <1>1, LenProperties
<1>3. Len(fifo') = Len(fifo) + Len(s) BY <1>1, Appended
<1>4. \A i \in 1 .. Len(fifo) : fifo'[i] = fifo[i] /\ i \in 1 .. Len(fifo')
  <2>1. \A i \in 1 .. Len(fifo) : fifo'[i] = fifo[i] BY <1>1, Appended
  <2> QED BY <1>2, <1>3, <2>1
<1>5. \A k \in 1 .. Len(s) : fifo'[Len(fifo) + k] = s[k] /\ Len(fifo) + k \in 1 .. Len(fifo')
  <2>1. \A k \in 1 .. Len(s) : fifo'[Len(fifo) + k] = s[k] BY <1>1, Appended
  <2> QED BY <1>2, <1>3, <2>1
<1>6. ASSUME NEW i \in 1 .. Len(fifo'), i \notin 1 .. Len(fifo)
      PROVE  i - Len(fifo) \in 1 .. Len(s) /\ i = Len(fifo) + (i - Len(fifo))
  BY <1>2, <1>3, <1>6
<1>7. ASSUME NEW i \in 1 .. Len(fifo), IsLast(fifo', i)
      PROVE  IsLast(fifo, i) /\ \A k \in 1 .. Len(s) : s[k].conf # fifo[i].conf
  BY <1>1, <1>7, Appended
<1>8. CASE \E k \in 1 .. Len(s) : s[k].conf = c /\ s[k] = Put(c, api'[c])
  <2>1. PICK k \in 1 .. Len(s) : s[k].conf = c /\ s[k] = Put(c, api'[c]) BY <1>8
  <2>2. ASSUME NEW i \in 1 .. Len(fifo'), fifo'[i].conf = c, IsLast(fifo', i)
        PROVE  fifo'[i] = Put(c, api'[c])
    <3>1. CASE i \in 1 .. Len(fifo) BY <1>4, <1>7, <2>1, <2>2, <3>1
    <3>2. CASE i \notin 1 .. Len(fifo)
      <4>1. PICK m \in 1 .. Len(s) : i = Len(fifo) + m BY <1>6, <3>2
      <4>2. m = k BY <1>5, <2>1, <2>2, <4>1
      <4> QED BY <1>5, <2>1, <4>1, <4>2
    <3> QED BY <3>1, <3>2
  <2> QED BY <1>5, <2>1, <2>2
<1>9. CASE /\ \A k \in 1 .. Len(s) : s[k].conf # c
           /\ conn = "watch" /\ api'[c] = api[c]
  <2>1. ASSUME NEW i \in 1 .. Len(fifo'), fifo'[i].conf = c
        PROVE  i \in 1 .. Len(fifo) /\ fifo[i].conf = c
    <3>1. CASE i \in 1 .. Len(fifo) BY <1>4, <2>1, <3>1
    <3>2. CASE i \notin 1 .. Len(fifo) BY <1>5, <1>6, <1>9, <2>1, <3>2
    <3> QED BY <3>1, <3>2
  <2>2. IF \E i \in 1 .. Len(fifo) : fifo[i].conf = c
        THEN \A i \in 1 .. Len(fifo) :
               fifo[i].conf = c /\ IsLast(fifo, i) => fifo[i] = Put(c, api[c])
        ELSE store[c] = api[c]
    BY <1>9 DEF StoreFollows
  <2> QED BY <1>4, <1>7, <1>9, <2>1, <2>2
<1> QED BY <1>8, <1>9

\* Handlers and store stay as they are while deltas arrive.
LEMMA ArrivalsQuiet ==
  ASSUME HandlersFollow, NotificationsFit, UNCHANGED <<store, listener, view>>
  PROVE  HandlersFollow' /\ NotificationsFit'
<1>1. ASSUME NEW c \in Confs
      PROVE  IF \E i \in 1 .. Len(listener') : listener'[i].conf = c
             THEN \A i \in 1 .. Len(listener') :
                    listener'[i].conf = c /\ IsLast(listener', i)
                      => listener'[i].new = store'[c]
             ELSE view'[c] = store'[c]
  <2>1. listener' = listener /\ store' = store /\ view' = view OBVIOUS
  <2>2. IF \E i \in 1 .. Len(listener) : listener[i].conf = c
        THEN \A i \in 1 .. Len(listener) :
               listener[i].conf = c /\ IsLast(listener, i) => listener[i].new = store[c]
        ELSE view[c] = store[c]
    BY DEF HandlersFollow
  <2> QED BY ONLY <2>1, <2>2
<1>2. HandlersFollow' BY ONLY <1>1 DEF HandlersFollow
<1>3. NotificationsFit' BY DEF NotificationsFit, IsFirst, Follows, Fits
<1> QED BY <1>2, <1>3

\* A change at the API server: while a watch is open, what waits last for the
\* configuration, or the store, has the content that the event deletes.
LEMMA ChangeConf ==
  ASSUME TypeOK, ConfInv, NEW c \in Confs, NEW content \in Contents \cup {None},
         Change(c, content)
  PROVE  ConfInv'
<1>1. HandlersFollow' /\ NotificationsFit' BY ArrivalsQuiet DEF ConfInv, Change
<1>2. CASE conn # "watch"
  <2>1. conn' # "watch" /\ UNCHANGED <<fifo, store>> BY <1>2 DEF Change
  <2>2. DeltasFit' BY <2>1 DEF ConfInv, DeltasFit, IsFirst, Follows, DeltaFits, Becomes
  <2>3. StoreFollows' BY <2>1 DEF StoreFollows
  <2> QED BY <1>1, <2>2, <2>3 DEF ConfInv
<1>3. CASE conn = "watch"
  <2> DEFINE s == Event(c, content)
  <2>1. /\ s \in Seq(Deltas) /\ Len(s) = 1 /\ s[1].conf = c
        /\ content # None => s[1] = Put(c, content)
        /\ content = None => s[1] = Gone(c, api[c])
    BY EventTyped DEF Change
  <2>2. fifo' = fifo \o s /\ store' = store BY <1>3 DEF Change
  <2>3. api \in Configurations /\ api' = [api EXCEPT ![c] = content]
    BY DEF TypeOK, Change
  <2>4. content = None => api[c] # None BY DEF Change
  <2> HIDE DEF s
  <2>5. \A k, m \in 1 .. Len(s) : s[k].conf = s[m].conf => k = m BY <2>1
  <2>6. ASSUME NEW k \in 1 .. Len(s)
        PROVE  /\ (\A i \in 1 .. Len(fifo) : fifo[i].conf # s[k].conf)
                    => DeltaFits(s[k], store[s[k].conf])
               /\ \A i \in 1 .. Len(fifo) :
                    fifo[i].conf = s[k].conf /\ IsLast(fifo, i)
                      => DeltaFits(s[k], Becomes(fifo[i]))
    <3>1. k = 1 BY <2>1
    <3>2. CASE content # None BY <2>1, <3>1, <3>2 DEF DeltaFits, Put
    <3>3. CASE content = None
      <4>1. IF \E i \in 1 .. Len(fifo) : fifo[i].conf = c
            THEN \A i \in 1 .. Len(fifo) :
                   fifo[i].conf = c /\ IsLast(fifo, i) => fifo[i] = Put(c, api[c])
            ELSE store[c] = api[c]
        BY <1>3, <2>4, <3>3 DEF ConfInv, StoreFollows
      <4> QED BY <2>1, <2>4, <3>1, <3>3, <4>1 DEF DeltaFits, Becomes, Put, Gone
    <3> QED BY <3>2, <3>3
  <2>7. DeltasFit' BY <2>1, <2>2, <2>5, <2>6, ArrivalsFit DEF ConfInv
  <2>8. ASSUME NEW b \in Confs, api'[b] # None
        PROVE  \/ \E k \in 1 .. Len(s) : s[k].conf = b /\ s[k] = Put(b, api'[b])
               \/ /\ \A k \in 1 .. Len(s) : s[k].conf # b
                  /\ conn = "watch" /\ api'[b] = api[b]
    BY <1>3, <2>1, <2>3, <2>8 DEF Configurations
  <2>9. StoreFollows' BY <2>1, <2>2, <2>5, <2>8, ArrivalsFollow DEF ConfInv
  <2> QED BY <1>1, <2>7, <2>9 DEF ConfInv
<1> QED BY <1>2, <1>3

\* A list: what is there arrives, and a tombstone is of what is in the store, with no
\* deletion waiting.
LEMMA ListConf ==
  ASSUME TypeOK, ConfInv, List
  PROVE  ConfInv'
<1>1. PICK there \in SetToSeqs(There), gone \in SetToSeqs(GoneFromList) :
         fifo' = fifo \o Listed(there, gone)
  BY DEF List
<1> DEFINE s == Listed(there, gone)
<1>2. /\ s \in Seq(Deltas)
      /\ \A k \in 1 .. Len(s) :
           \/ s[k].conf \in There /\ s[k] = Put(s[k].conf, api[s[k].conf])
           \/ s[k].conf \in GoneFromList /\ s[k] = Tombstone(s[k].conf, store[s[k].conf])
      /\ \A k, m \in 1 .. Len(s) : s[k].conf = s[m].conf => k = m
      /\ \A c \in There : \E k \in 1 .. Len(s) : s[k] = Put(c, api[c])
  BY ListedDeltas
<1>3. fifo' = fifo \o s /\ UNCHANGED <<api, store, listener, view>> BY <1>1 DEF List
<1> HIDE DEF s
<1>4. ASSUME NEW k \in 1 .. Len(s)
      PROVE  /\ (\A i \in 1 .. Len(fifo) : fifo[i].conf # s[k].conf)
                  => DeltaFits(s[k], store[s[k].conf])
             /\ \A i \in 1 .. Len(fifo) :
                  fifo[i].conf = s[k].conf /\ IsLast(fifo, i)
                    => DeltaFits(s[k], Becomes(fifo[i]))
  <2>1. CASE s[k].kind = "put" BY <2>1 DEF DeltaFits
  <2>2. CASE s[k].kind # "put"
    <3>0. \A c, e : Put(c, e).kind = "put" /\ Tombstone(c, e).kind = "tombstone"
      BY DEF Put, Tombstone
    <3>1. s[k].conf \in GoneFromList /\ s[k].kind = "tombstone"
      <4>1. s[k] # Put(s[k].conf, api[s[k].conf]) BY <2>2, <3>0
      <4>2. s[k].conf \in GoneFromList /\ s[k] = Tombstone(s[k].conf, store[s[k].conf])
        BY <1>2, <4>1
      <4> QED BY <3>0, <4>2
    <3>2. store[s[k].conf] # None /\ ~Deletes(s[k].conf) BY <3>1 DEF GoneFromList
    <3>3. ASSUME NEW i \in 1 .. Len(fifo), fifo[i].conf = s[k].conf, IsLast(fifo, i)
          PROVE  Becomes(fifo[i]) # None
      <4>1. fifo[i].kind = "put" BY <3>2, <3>3 DEF Deletes
      <4>2. fifo[i] \in Deltas BY ElementOfSeq DEF TypeOK
      <4>3. fifo[i].content \in Contents BY <4>2 DEF Deltas
      <4> QED BY <4>1, <4>3, InformerAssumption DEF Becomes
    <3> QED BY <3>1, <3>2, <3>3 DEF DeltaFits
  <2> QED BY <2>1, <2>2
<1>5. DeltasFit' BY <1>2, <1>3, <1>4, ArrivalsFit DEF ConfInv
<1>6. ASSUME NEW b \in Confs, api'[b] # None
      PROVE  \E k \in 1 .. Len(s) : s[k].conf = b /\ s[k] = Put(b, api'[b])
  <2>1. b \in There /\ api' = api BY <1>3, <1>6 DEF There
  <2>2. PICK k \in 1 .. Len(s) : s[k] = Put(b, api[b]) BY <1>2, <2>1
  <2> QED BY <2>1, <2>2 DEF Put
<1>7. StoreFollows' BY <1>2, <1>3, <1>6, ArrivalsFollow DEF ConfInv
<1> QED BY <1>3, <1>5, <1>7, ArrivalsQuiet DEF ConfInv

\* A delta moves into the store and becomes a notification, which fits as the delta did:
\* what waits last for the handlers is what the store had.
LEMMA PopConf ==
  ASSUME TypeOK, ConfInv, Pop
  PROVE  ConfInv'
<1> DEFINE d == Head(fifo)
           n == Notified(d)
           t == Tail(fifo)
<1>1. /\ fifo # <<>> /\ fifo' = t /\ UNCHANGED <<api, conn, view>>
      /\ store' = [store EXCEPT ![d.conf] = n.new] /\ listener' = Append(listener, n)
  BY DEF Pop
<1>2. d \in Deltas /\ n \in Notifications /\ n.conf = d.conf
  BY <1>1, NotifiedTyped
<1>3. fifo \in Seq(Deltas) /\ listener \in Seq(Notifications) /\ store \in Configurations
  BY DEF TypeOK
<1>4. d = fifo[1] /\ 1 \in 1 .. Len(fifo) /\ IsFirst(fifo, 1) BY <1>1, <1>3, Taken
<1>5. n.new = Becomes(d) BY DEF Notified, Becomes
<1>6. DeltaFits(d, store[d.conf]) BY <1>4 DEF ConfInv, DeltasFit
<1>7. Fits(n, store[d.conf])
  <2>1. CASE d.kind = "put"
    <3>1. n.new # None BY <1>2, <2>1, InformerAssumption DEF Notified, Deltas
    <3> QED BY <2>1, <3>1 DEF Fits, Notified
  <2>2. CASE d.kind # "put" BY <1>6, <2>2 DEF Fits, Notified, DeltaFits
  <2> QED BY <2>1, <2>2
<1>8. d.conf \in Confs /\ store'[d.conf] = n.new
        /\ \A c \in Confs \ {d.conf} : store'[c] = store[c]
  BY <1>1, <1>2, <1>3 DEF Deltas, Configurations
<1> HIDE DEF d, n, t
<1>9. DeltasFit'
  <2> SUFFICES ASSUME NEW j \in 1 .. Len(fifo')
               PROVE  /\ IsFirst(fifo', j) => DeltaFits(fifo'[j], store'[fifo'[j].conf])
                      /\ \A i \in 1 .. Len(fifo') :
                           Follows(fifo', i, j) => DeltaFits(fifo'[j], Becomes(fifo'[i]))
    BY DEF DeltasFit, IsFirst, Follows, DeltaFits, Becomes
  <2>1. /\ j + 1 \in 1 .. Len(fifo) /\ t[j] = fifo[j + 1]
        /\ IsFirst(t, j) => IF fifo[1].conf = t[j].conf THEN Follows(fifo, 1, j + 1)
                                                        ELSE IsFirst(fifo, j + 1)
        /\ \A i \in 1 .. Len(t) : Follows(t, i, j) => Follows(fifo, i + 1, j + 1)
    BY <1>1, <1>3, Taken DEF t
  <2>2. \A i \in 1 .. Len(t) : i + 1 \in 1 .. Len(fifo) /\ t[i] = fifo[i + 1]
    BY <1>1, <1>3, Taken DEF t
  <2>3. t[j].conf \in Confs
    <3>1. t[j] \in Deltas BY <1>3, <2>1, ElementOfSeq
    <3> QED BY <3>1 DEF Deltas
  <2>4. ASSUME IsFirst(t, j) PROVE DeltaFits(t[j], store'[t[j].conf])
    <3>1. CASE d.conf = t[j].conf
      <4>1. Follows(fifo, 1, j + 1) BY <1>4, <2>1, <2>4, <3>1
      <4> QED BY <1>4, <1>5, <1>8, <2>1, <3>1, <4>1 DEF ConfInv, DeltasFit
    <3>2. CASE d.conf # t[j].conf
      <4>1. IsFirst(fifo, j + 1) BY <1>4, <2>1, <2>4, <3>2
      <4> QED BY <1>8, <2>1, <2>3, <3>2, <4>1 DEF ConfInv, DeltasFit
    <3> QED BY <3>1, <3>2
  <2>5. ASSUME NEW i \in 1 .. Len(t), Follows(t, i, j) PROVE DeltaFits(t[j], Becomes(t[i]))
    BY <2>1, <2>2, <2>5 DEF ConfInv, DeltasFit
  <2> QED BY <1>1, <2>4, <2>5
<1>10. StoreFollows'
  <2> SUFFICES ASSUME conn = "watch", NEW c \in Confs, api[c] # None
               PROVE  IF \E i \in 1 .. Len(fifo') : fifo'[i].conf = c
                      THEN \A i \in 1 .. Len(fifo') :
                             fifo'[i].conf = c /\ IsLast(fifo', i) => fifo'[i] = Put(c, api[c])
                      ELSE store'[c] = api[c]
    BY <1>1 DEF StoreFollows, IsLast, Put
  <2>1. \A i \in 1 .. Len(t) : /\ i + 1 \in 1 .. Len(fifo) /\ t[i] = fifo[i + 1]
                               /\ IsLast(t, i) => IsLast(fifo, i + 1)
    BY <1>1, <1>3, Taken DEF t
  <2>2. IF \E i \in 1 .. Len(fifo) : fifo[i].conf = c
        THEN \A i \in 1 .. Len(fifo) :
               fifo[i].conf = c /\ IsLast(fifo, i) => fifo[i] = Put(c, api[c])
        ELSE store[c] = api[c]
    BY DEF ConfInv, StoreFollows
  <2>3. CASE \E i \in 1 .. Len(t) : t[i].conf = c BY <1>1, <2>1, <2>2, <2>3
  <2>4. CASE ~\E i \in 1 .. Len(t) : t[i].conf = c
    <3>1. CASE d.conf = c
      <4>1. IsLast(fifo, 1) BY <1>1, <1>3, <1>4, <2>4, <3>1, Taken DEF t
      <4>2. d = Put(c, api[c]) BY <1>4, <2>2, <3>1, <4>1
      <4> QED BY <1>1, <1>5, <1>8, <2>4, <3>1, <4>2 DEF Becomes, Put
    <3>2. CASE d.conf # c
      <4>1. ASSUME NEW i \in 1 .. Len(fifo) PROVE fifo[i].conf # c
        <5>1. CASE i = 1 BY <1>4, <3>2, <5>1
        <5>2. CASE i # 1
          <6>1. i - 1 \in 1 .. Len(t) /\ i = (i - 1) + 1
            BY <1>1, <1>3, <5>2, Taken, LenProperties DEF t
          <6> QED BY <2>1, <2>4, <6>1
        <5> QED BY <5>1, <5>2
      <4> QED BY <1>1, <1>8, <2>2, <2>4, <3>2, <4>1
    <3> QED BY <3>1, <3>2
  <2> QED BY <2>3, <2>4
<1>11. Len(listener) \in Nat /\ Len(listener') = Len(listener) + 1
         /\ listener'[Len(listener) + 1] = n
         /\ \A i \in 1 .. Len(listener) : listener'[i] = listener[i]
  BY <1>1, <1>3, LenProperties
<1>12. \A i \in 1 .. Len(listener) :
         IsLast(listener', i) => IsLast(listener, i) /\ n.conf # listener[i].conf
  BY <1>1, <1>2, <1>3, AppendedOne
<1>13. HandlersFollow'
  <2> SUFFICES ASSUME NEW c \in Confs
               PROVE  IF \E i \in 1 .. Len(listener') : listener'[i].conf = c
                      THEN \A i \in 1 .. Len(listener') :
                             listener'[i].conf = c /\ IsLast(listener', i)
                               => listener'[i].new = store'[c]
                      ELSE view[c] = store'[c]
    BY <1>1 DEF HandlersFollow, IsLast
  <2>1. IF \E i \in 1 .. Len(listener) : listener[i].conf = c
        THEN \A i \in 1 .. Len(listener) :
               listener[i].conf = c /\ IsLast(listener, i) => listener[i].new = store[c]
        ELSE view[c] = store[c]
    BY DEF ConfInv, HandlersFollow
  <2>2. \A i \in 1 .. Len(listener') : i \in 1 .. Len(listener) \/ i = Len(listener) + 1
    BY <1>11
  <2>3. CASE c = d.conf
    <3>1. Len(listener) + 1 \in 1 .. Len(listener') BY <1>11
    <3> QED BY <1>2, <1>8, <1>11, <1>12, <2>2, <2>3, <3>1
  <2>4. CASE c # d.conf
    <3>1. \A i \in 1 .. Len(listener) : i \in 1 .. Len(listener') BY <1>11
    <3>2. store'[c] = store[c] BY <1>8, <2>4
    <3> QED BY <1>2, <1>11, <1>12, <2>1, <2>2, <2>4, <3>1, <3>2
  <2> QED BY <2>3, <2>4
<1>14. NotificationsFit'
  <2> SUFFICES ASSUME NEW j \in 1 .. Len(listener')
               PROVE  /\ IsFirst(listener', j) => Fits(listener'[j], view[listener'[j].conf])
                      /\ \A i \in 1 .. Len(listener') :
                           Follows(listener', i, j) => Fits(listener'[j], listener'[i].new)
    BY <1>1 DEF NotificationsFit, IsFirst, Follows, Fits
  <2>1. CASE j \in 1 .. Len(listener)
    <3>1. /\ IsFirst(listener', j) => IsFirst(listener, j)
          /\ \A i \in 1 .. Len(listener') :
               Follows(listener', i, j) => i \in 1 .. Len(listener) /\ Follows(listener, i, j)
      BY <1>1, <1>2, <1>3, <2>1, AppendedOne
    <3> QED BY <1>11, <2>1, <3>1 DEF ConfInv, NotificationsFit
  <2>2. CASE j \notin 1 .. Len(listener)
    <3>1. j = Len(listener) + 1 BY <1>11, <2>2
    <3>2. /\ IsFirst(listener', j) => \A i \in 1 .. Len(listener) : listener[i].conf # n.conf
          /\ \A i \in 1 .. Len(listener') : Follows(listener', i, j) =>
               i \in 1 .. Len(listener) /\ listener[i].conf = n.conf /\ IsLast(listener, i)
      BY <1>1, <1>2, <1>3, <3>1, AppendedOne
    <3>3. listener'[j] = n BY <1>11, <3>1
    <3>4. IF \E i \in 1 .. Len(listener) : listener[i].conf = d.conf
          THEN \A i \in 1 .. Len(listener) :
                 listener[i].conf = d.conf /\ IsLast(listener, i)
                   => listener[i].new = store[d.conf]
          ELSE view[d.conf] = store[d.conf]
      BY <1>8 DEF ConfInv, HandlersFollow
    <3>5. IsFirst(listener', j) => Fits(n, view[n.conf]) BY <1>2, <1>7, <3>2, <3>4
    <3>6. ASSUME NEW i \in 1 .. Len(listener'), Follows(listener', i, j)
          PROVE  Fits(n, listener'[i].new)
      BY <1>2, <1>7, <1>11, <3>2, <3>4, <3>6
    <3> QED BY <3>3, <3>5, <3>6
  <2> QED BY <2>1, <2>2
<1> QED BY <1>9, <1>10, <1>13, <1>14 DEF ConfInv

\* A notification is handled.
LEMMA HandleConf ==
  ASSUME TypeOK, ConfInv, Handle
  PROVE  ConfInv'
<1> DEFINE n == Head(listener)
           t == Tail(listener)
<1>1. /\ listener # <<>> /\ listener' = t /\ UNCHANGED <<api, conn, fifo, store>>
      /\ view' = [view EXCEPT ![n.conf] = n.new]
  BY DEF Handle
<1>2. listener \in Seq(Notifications) /\ view \in Configurations BY DEF TypeOK
<1>3. n = listener[1] /\ 1 \in 1 .. Len(listener) BY <1>1, <1>2, Taken
<1>4. n \in Notifications BY <1>1, <1>2, HeadTailProperties
<1>5. n.conf \in Confs /\ view'[n.conf] = n.new /\ \A c \in Confs \ {n.conf} : view'[c] = view[c]
  BY <1>1, <1>2, <1>4 DEF Notifications, Configurations
<1> HIDE DEF n, t
<1>6. DeltasFit' BY <1>1 DEF ConfInv, DeltasFit, IsFirst, Follows, DeltaFits, Becomes
<1>7. StoreFollows' BY <1>1 DEF ConfInv, StoreFollows, IsLast, Put
<1>8. \A i \in 1 .. Len(t) : /\ i + 1 \in 1 .. Len(listener) /\ t[i] = listener[i + 1]
                             /\ IsLast(t, i) => IsLast(listener, i + 1)
  BY <1>1, <1>2, Taken DEF t
<1>9. HandlersFollow'
  <2> SUFFICES ASSUME NEW c \in Confs
               PROVE  IF \E i \in 1 .. Len(listener') : listener'[i].conf = c
                      THEN \A i \in 1 .. Len(listener') :
                             listener'[i].conf = c /\ IsLast(listener', i)
                               => listener'[i].new = store[c]
                      ELSE view'[c] = store[c]
    BY <1>1 DEF HandlersFollow, IsLast
  <2>1. IF \E i \in 1 .. Len(listener) : listener[i].conf = c
        THEN \A i \in 1 .. Len(listener) :
               listener[i].conf = c /\ IsLast(listener, i) => listener[i].new = store[c]
        ELSE view[c] = store[c]
    BY DEF ConfInv, HandlersFollow
  <2>2. CASE \E i \in 1 .. Len(t) : t[i].conf = c BY <1>1, <1>8, <2>1, <2>2
  <2>3. CASE ~\E i \in 1 .. Len(t) : t[i].conf = c
    <3>1. CASE n.conf = c
      <4>1. IsLast(listener, 1) BY <1>1, <1>2, <1>3, <2>3, <3>1, Taken DEF t
      <4> QED BY <1>1, <1>3, <1>5, <2>1, <2>3, <3>1, <4>1
    <3>2. CASE n.conf # c
      <4>1. ASSUME NEW i \in 1 .. Len(listener) PROVE listener[i].conf # c
        <5>1. CASE i = 1 BY <1>3, <3>2, <5>1
        <5>2. CASE i # 1
          <6>1. i - 1 \in 1 .. Len(t) /\ i = (i - 1) + 1
            BY <1>1, <1>2, <5>2, Taken, LenProperties DEF t
          <6> QED BY <1>8, <2>3, <6>1
        <5> QED BY <5>1, <5>2
      <4> QED BY <1>1, <1>5, <2>1, <2>3, <3>2, <4>1
    <3> QED BY <3>1, <3>2
  <2> QED BY <2>2, <2>3
<1>10. NotificationsFit'
  <2> SUFFICES ASSUME NEW j \in 1 .. Len(listener')
               PROVE  /\ IsFirst(listener', j) => Fits(listener'[j], view'[listener'[j].conf])
                      /\ \A i \in 1 .. Len(listener') :
                           Follows(listener', i, j) => Fits(listener'[j], listener'[i].new)
    BY DEF NotificationsFit, IsFirst, Follows, Fits
  <2>1. /\ j + 1 \in 1 .. Len(listener) /\ t[j] = listener[j + 1]
        /\ IsFirst(t, j) => IF listener[1].conf = t[j].conf THEN Follows(listener, 1, j + 1)
                                                            ELSE IsFirst(listener, j + 1)
        /\ \A i \in 1 .. Len(t) : Follows(t, i, j) => Follows(listener, i + 1, j + 1)
    BY <1>1, <1>2, Taken DEF t
  <2>2. t[j].conf \in Confs
    <3>1. t[j] \in Notifications BY <1>2, <2>1, ElementOfSeq
    <3> QED BY <3>1 DEF Notifications
  <2>3. ASSUME IsFirst(t, j) PROVE Fits(t[j], view'[t[j].conf])
    <3>1. CASE n.conf = t[j].conf
      <4>1. Follows(listener, 1, j + 1) BY <1>3, <2>1, <2>3, <3>1
      <4> QED BY <1>3, <1>5, <2>1, <3>1, <4>1 DEF ConfInv, NotificationsFit
    <3>2. CASE n.conf # t[j].conf
      <4>1. IsFirst(listener, j + 1) BY <1>3, <2>1, <2>3, <3>2
      <4> QED BY <1>5, <2>1, <2>2, <3>2, <4>1 DEF ConfInv, NotificationsFit
    <3> QED BY <3>1, <3>2
  <2>4. ASSUME NEW i \in 1 .. Len(t), Follows(t, i, j) PROVE Fits(t[j], t[i].new)
    BY <1>8, <2>1, <2>4 DEF ConfInv, NotificationsFit
  <2> QED BY <1>1, <2>3, <2>4
<1> QED BY <1>6, <1>7, <1>9, <1>10 DEF ConfInv

\* Every step keeps the invariant.
LEMMA StepConf ==
  ASSUME TypeOK, ConfInv, [Next]_vars
  PROVE  ConfInv'
<1>1. CASE Exits
  BY <1>1, NothingWaits DEF Exits, InformerReset
<1>2. CASE SetupManager \/ CreateDaemonSet \/ ManagerDies \/ StartDaemon \/ Signal \/ Catch
             \/ Stop
  <2>1. UNCHANGED <<api, informer>>
    BY <1>2 DEF SetupManager, CreateDaemonSet, ManagerDies, StartDaemon, Signal, Catch, Stop
  <2> QED BY <2>1, QuietConf DEF informer
<1>3. CASE NewServer
  BY <1>1, <1>3, QuietConf DEF NewServer, Run
<1>4. ASSUME NEW l \in Loops, OnBridgeConfigSynced(l) \/ tryRun(l) \/ Ran(l)
      PROVE  ConfInv'
  <2>1. UNCHANGED <<api, informer>> BY <1>4 DEF OnBridgeConfigSynced, tryRun, Ran
  <2> QED BY <2>1, QuietConf DEF informer
<1>5. CASE Informer
  <2>1. CASE Disconnect BY <2>1, QuietConf DEF Disconnect
  <2> QED BY <1>5, <2>1, ListConf, PopConf, HandleConf DEF Informer
<1>6. CASE Users BY <1>6, ChangeConf DEF Users
<1>7. CASE UNCHANGED vars BY <1>7, QuietConf DEF vars, informer
<1> QED BY <1>1, <1>2, <1>3, <1>4, <1>5, <1>6, <1>7 DEF Next, Kill, LoopStops

\* The whole invariant holds of the informer.
THEOREM ConfInvariant == Spec => []ConfInv
<1>1. Init => ConfInv
  <2>1. 1 .. Len(<<>>) = {} BY EmptySeq
  <2> QED
    BY <2>1 DEF Init, InformerOff, ConfInv, DeltasFit, StoreFollows, HandlersFollow,
                NotificationsFit
<1> QED BY TypeCorrect, <1>1, StepConf, PTL DEF Spec

\* Whatever watches break and however the queue, the store and the handlers fall behind
\* each other, every notification fits what its handler was told before: the old
\* configuration that OnBridgeConfigUpdate and OnBridgeConfigDelete trust is the one they
\* know (server.go:478-560).
THEOREM NotificationsAlwaysFit == Spec => []NotificationsFit
BY ConfInvariant, PTL DEF ConfInv

\* With a watch open, what is there is in the store or on its way.
THEOREM StoreAlwaysFollows == Spec => []StoreFollows
BY ConfInvariant, PTL DEF ConfInv

\* The handlers, once they are done with what waits, know what the lister returns.
THEOREM HandlersAlwaysFollow == Spec => []HandlersFollow
BY ConfInvariant, PTL DEF ConfInv

=============================================================================
