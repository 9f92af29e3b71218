------------------------- MODULE ConversationProofs -------------------------
(***************************************************************************)
(* TypeOK, ClientIsToldTheAnswer, UpstreamIsShownTheConversation,          *)
(* ResultsFollowTheirCalls and OnlyFaultsFailARequest for any pool of      *)
(* adapters and any number of turns.                                       *)
(*                                                                         *)
(* All that the conversion code does to a conversation is, with FM(F, s),  *)
(* to put F[x] in the place of every x of a sequence: F takes a block to   *)
(* its text, to itself if it is a call, or to what it says.  Such a map of *)
(* s \o t is that of s, then that of t (FMConcat), so that what is told of *)
(* an answer, or shown of a message, is found out piece by piece.          *)
(*                                                                         *)
(* A prompt Repeats what was said if every kind of upstream is shown the   *)
(* one as it would be shown the other.  Every message the client adds      *)
(* repeats one saying (QuestionRepeats, AnswerRepeats, ResultsRepeat), and *)
(* what is joined of such repeats what is joined (RepeatsJoin), however    *)
(* the conversation went before.                                           *)
(*                                                                         *)
(* Calls and results are followed through the ties of the messages: who    *)
(* calls what, and who answers what.  An answer's calls differ, and the    *)
(* client's next messages answer each once or, where the upstream cannot   *)
(* be shown it, not at all (Meets): so a turn leaves the messages in order *)
(* if they were (TurnInOrder).                                             *)
(***************************************************************************)
EXTENDS Conversation, FiniteSetTheorems, SequenceTheorems, WellFoundedInduction, TLAPS

\* A set of numbers has a least element.
LEMMA Least ==
    ASSUME NEW T \in SUBSET Nat, T # {}
    PROVE  \E n \in T : \A m \in T : n <= m
<1>1. PICK n \in T : \A m \in T : <<m, n>> \notin OpToRel(<, Nat)
  BY NatLessThanWellFounded, WFMin
<1>2. \A m \in T : ~(m < n)
  BY <1>1 DEF OpToRel
<1>3. QED
  BY <1>2

\* Induction on sequences, for the set G of those of which something is so.
LEMMA SequencesByAppend ==
    ASSUME NEW A, NEW G \in SUBSET Seq(A), <<>> \in G,
           \A u \in G, x \in A : Append(u, x) \in G
    PROVE  G = Seq(A)
<1> DEFINE T == {k \in Nat : \E v \in Seq(A) \ G : Len(v) = k}
<1>1. SUFFICES ASSUME NEW w \in Seq(A) \ G PROVE FALSE
  OBVIOUS
<1>2. Len(w) \in T
  OBVIOUS
<1>3. PICK k \in T : \A i \in T : k <= i
  <2>1. T \in SUBSET Nat
    OBVIOUS
  <2> HIDE DEF T
  <2>2. QED
    BY <1>2, <2>1, Least
<1>4. PICK v \in Seq(A) \ G : Len(v) = k
  BY <1>3
<1>5. v # <<>>
  BY <1>4
<1>6. PICK u \in Seq(A), x \in A : v = Append(u, x)
  BY <1>4, <1>5, SequenceEmptyOrAppend
<1>7. Len(u) \in Nat /\ ~(k <= Len(u))
  <2>1. Len(v) = Len(u) + 1 /\ Len(u) \in Nat
    BY <1>6, AppendProperties, LenProperties
  <2>2. QED
    BY <1>4, <2>1
<1>8. u \in G
  BY <1>3, <1>7
<1>9. QED
  BY <1>4, <1>6, <1>8

\* f is what FlattenSeq computes of the first n sequences of s.
Joins(f, s, n) == f = [i \in 1 .. n |-> IF i = 1 THEN s[i] ELSE f[i-1] \o s[i]]

LEMMA JoinsExists ==
    ASSUME NEW s, NEW n \in Nat \ {0}
    PROVE  \E f : Joins(f, s, n)
<1> DEFINE T == {k \in Nat \ {0} : ~ \E f : Joins(f, s, k)}
<1>1. SUFFICES ASSUME T # {} PROVE FALSE
  OBVIOUS
<1>2. PICK k \in T : \A m \in T : k <= m
  <2> HIDE DEF T
  <2>1. T \in SUBSET Nat
    BY DEF T
  <2>2. QED
    BY <1>1, <2>1, Least
<1>3. k # 1
  <2> DEFINE f == [i \in 1 .. 1 |-> s[i]]
  <2>1. f = [i \in 1 .. 1 |-> IF i = 1 THEN s[i] ELSE f[i-1] \o s[i]]
    OBVIOUS
  <2>2. Joins(f, s, 1)
    BY <2>1 DEF Joins
  <2>3. QED
    BY <2>2
<1>4. k - 1 \in Nat \ {0} /\ k - 1 \notin T
  BY <1>2, <1>3
<1>5. PICK g : Joins(g, s, k - 1)
  BY <1>4
<1> DEFINE f == [i \in 1 .. k |-> IF i = k THEN g[k-1] \o s[k] ELSE g[i]]
<1>6. \A i \in 1 .. k : f[i] = IF i = 1 THEN s[i] ELSE f[i-1] \o s[i]
  <2>1. \A i \in 1 .. k - 1 : g[i] = IF i = 1 THEN s[i] ELSE g[i-1] \o s[i]
    BY <1>5 DEF Joins
  <2>2. QED
    BY <2>1, <1>4
<1>7. Joins(f, s, k)
  BY <1>6 DEF Joins
<1>8. QED
  BY <1>7

\* What FlattenSeq is.
LEMMA FlattenDef ==
    ASSUME NEW s, Len(s) \in Nat \ {0}
    PROVE  \E f : Joins(f, s, Len(s)) /\ FlattenSeq(s) = f[Len(s)]
<1>1. \E f : Joins(f, s, Len(s))
  BY JoinsExists
<1> DEFINE J == CHOOSE f : f = [i \in 1 .. Len(s) |-> IF i = 1 THEN s[i] ELSE f[i-1] \o s[i]]
<1>2. FlattenSeq(s) = J[Len(s)]
  BY DEF FlattenSeq
<1>3. Joins(J, s, Len(s))
  BY <1>1 DEF Joins
<1> HIDE DEF J
<1>4. QED
  BY <1>2, <1>3

LEMMA FlattenEmpty == FlattenSeq(<<>>) = <<>>
BY DEF FlattenSeq

\* The joins of s and of s with one more sequence agree on the first ones.
LEMMA JoinsUnique ==
    ASSUME NEW s, NEW t, Len(s) \in Nat, Len(t) \in Nat, Len(s) <= Len(t),
           \A i \in 1 .. Len(s) : s[i] = t[i],
           NEW f, Joins(f, s, Len(s)), NEW g, Joins(g, t, Len(t))
    PROVE  \A i \in 1 .. Len(s) : f[i] = g[i]
<1> DEFINE T == {k \in 1 .. Len(s) : f[k] # g[k]}
<1>1. SUFFICES ASSUME T # {} PROVE FALSE
  OBVIOUS
<1>2. PICK k \in T : \A i \in T : k <= i
  <2> HIDE DEF T
  <2>1. T \in SUBSET Nat
    BY DEF T
  <2>2. QED
    BY <1>1, <2>1, Least
<1> k \in 1 .. Len(s) /\ k \in 1 .. Len(t)
  BY <1>2
<1>3. f[k] = IF k = 1 THEN s[k] ELSE f[k-1] \o s[k]
  BY DEF Joins
<1>4. g[k] = IF k = 1 THEN t[k] ELSE g[k-1] \o t[k]
  BY DEF Joins
<1>5. k # 1
  BY <1>2, <1>3, <1>4
<1>6. k - 1 \in 1 .. Len(s) /\ k - 1 \notin T
  BY <1>2, <1>5
<1>7. f[k-1] = g[k-1]
  BY <1>6
<1>8. QED
  BY <1>3, <1>4, <1>5, <1>7

LEMMA FlattenAppend ==
    ASSUME NEW S, NEW s \in Seq(Seq(S)), NEW x \in Seq(S)
    PROVE  FlattenSeq(Append(s, x)) = FlattenSeq(s) \o x
<1> DEFINE t == Append(s, x)
<1>1. t \in Seq(Seq(S)) /\ Len(t) = Len(s) + 1 /\ t[Len(t)] = x
      /\ \A i \in 1 .. Len(s) : t[i] = s[i]
  OBVIOUS
<1> HIDE DEF t
<1>2. PICK g : Joins(g, t, Len(t)) /\ FlattenSeq(t) = g[Len(t)]
  BY <1>1, FlattenDef
<1>3. CASE s = <<>>
  <2>1. g[1] = x
    BY <1>1, <1>2, <1>3 DEF Joins
  <2>2. QED
    BY <1>1, <1>2, <1>3, <2>1, FlattenEmpty DEF t
<1>4. CASE s # <<>>
  <2>1. PICK f : Joins(f, s, Len(s)) /\ FlattenSeq(s) = f[Len(s)]
    BY <1>4, FlattenDef
  <2>2. f[Len(s)] = g[Len(s)]
    <3>1. \A i \in 1 .. Len(s) : f[i] = g[i]
      <4>1. Len(s) \in Nat /\ Len(t) \in Nat /\ Len(s) <= Len(t)
        BY <1>1
      <4>2. \A i \in 1 .. Len(s) : s[i] = t[i]
        BY <1>1
      <4>3. QED
        BY <1>2, <2>1, <4>1, <4>2, JoinsUnique, SMTT(30)
    <3>2. QED
      BY <3>1, <1>4
  <2>3. g[Len(t)] = g[Len(t) - 1] \o t[Len(t)]
    <3>1. Len(t) \in 1 .. Len(t) /\ Len(t) # 1
      BY <1>1, <1>4
    <3>2. QED
      BY <1>2, <3>1 DEF Joins
  <2>4. QED
    BY <1>1, <1>2, <2>1, <2>2, <2>3 DEF t
<1>5. QED
  BY <1>3, <1>4

LEMMA FlattenType ==
    ASSUME NEW S, NEW s \in Seq(Seq(S))
    PROVE  FlattenSeq(s) \in Seq(S)
<1> DEFINE G == {u \in Seq(Seq(S)) : FlattenSeq(u) \in Seq(S)}
<1>1. <<>> \in G
  <2>1. <<>> \in Seq(Seq(S)) /\ <<>> \in Seq(S)
    BY EmptySeq
  <2>2. QED
    BY <2>1, FlattenEmpty
<1>2. ASSUME NEW u \in G, NEW x \in Seq(S) PROVE Append(u, x) \in G
  <2>1. u \in Seq(Seq(S)) /\ FlattenSeq(u) \in Seq(S)
    OBVIOUS
  <2>2. FlattenSeq(Append(u, x)) = FlattenSeq(u) \o x
    BY <2>1, FlattenAppend
  <2>3. FlattenSeq(u) \o x \in Seq(S) /\ Append(u, x) \in Seq(Seq(S))
    BY <2>1
  <2>4. QED
    BY <2>2, <2>3
<1>3. G \in SUBSET Seq(Seq(S))
  OBVIOUS
<1> HIDE DEF G
<1>4. G = Seq(Seq(S))
  BY <1>1, <1>2, <1>3, SequencesByAppend
<1>5. QED
  BY <1>4 DEF G

\* The sequences F makes of the elements of s, joined.
FM(F, s) == FlattenSeq([i \in DOMAIN s |-> F[s[i]]])

\* What F may be.
Makers(A, S) == [A -> Seq(S)]

LEMMA MakersType ==
    ASSUME NEW A, NEW S, NEW F \in Makers(A, S)
    PROVE  DOMAIN F = A /\ \A x \in A : F[x] \in Seq(S)
BY DEF Makers

LEMMA FMIsSeq ==
    ASSUME NEW A, NEW S, NEW F \in Makers(A, S), NEW s \in Seq(A)
    PROVE  /\ [i \in DOMAIN s |-> F[s[i]]] \in Seq(Seq(S))
           /\ FM(F, s) \in Seq(S)
<1>1. DOMAIN s = 1 .. Len(s) /\ Len(s) \in Nat
  BY LenProperties
<1>2. \A i \in 1 .. Len(s) : F[s[i]] \in Seq(S)
  BY ElementOfSeq, MakersType
<1>3. [i \in DOMAIN s |-> F[s[i]]] \in [1 .. Len(s) -> Seq(S)]
  BY <1>1, <1>2
<1>4. [i \in DOMAIN s |-> F[s[i]]] \in Seq(Seq(S))
  BY <1>1, <1>3, SeqDef
<1>5. QED
  BY <1>4, FlattenType DEF FM

LEMMA FMEmpty == ASSUME NEW F PROVE FM(F, <<>>) = <<>>
<1>1. [i \in DOMAIN <<>> |-> F[<<>>[i]]] = <<>>
  OBVIOUS
<1>2. QED
  BY <1>1, FlattenEmpty DEF FM

LEMMA FMAppend ==
    ASSUME NEW A, NEW S, NEW F \in Makers(A, S), NEW s \in Seq(A), NEW x \in A
    PROVE  FM(F, Append(s, x)) = FM(F, s) \o F[x]
<1> DEFINE t == Append(s, x)
           p == [i \in DOMAIN s |-> F[s[i]]]
           q == [i \in DOMAIN t |-> F[t[i]]]
<1>1. t \in Seq(A) /\ Len(t) = Len(s) + 1 /\ t[Len(s) + 1] = x
      /\ \A i \in 1 .. Len(s) : t[i] = s[i]
  BY AppendProperties
<1>2. DOMAIN s = 1 .. Len(s) /\ Len(s) \in Nat
  BY LenProperties
<1> HIDE DEF t
<1>3. DOMAIN t = 1 .. Len(s) + 1
  BY <1>1, LenProperties
<1>4. p \in Seq(Seq(S)) /\ q \in Seq(Seq(S)) /\ F[x] \in Seq(S)
  <2>0. \A w \in Seq(A) : [i \in DOMAIN w |-> F[w[i]]] \in Seq(Seq(S))
    BY FMIsSeq
  <2>1. p \in Seq(Seq(S))
    BY <2>0
  <2>2. q \in Seq(Seq(S))
    BY <1>1, <2>0
  <2>3. F[x] \in Seq(S)
    BY MakersType
  <2>4. QED
    BY <2>1, <2>2, <2>3
<1>5. Len(p) = Len(s) /\ Len(q) = Len(s) + 1
  <2>1. DOMAIN p = 1 .. Len(p) /\ DOMAIN q = 1 .. Len(q) /\ Len(p) \in Nat /\ Len(q) \in Nat
    BY <1>4, LenProperties
  <2>2. QED
    BY <1>2, <1>3, <2>1
<1>6. \A i \in 1 .. Len(s) : q[i] = p[i]
  BY <1>1, <1>2, <1>3
<1>7. q[Len(s) + 1] = F[x]
  BY <1>1, <1>2, <1>3
<1> HIDE DEF p, q
<1>8. q = Append(p, F[x])
  <2>1. Append(p, F[x]) \in Seq(Seq(S)) /\ Len(Append(p, F[x])) = Len(s) + 1
        /\ Append(p, F[x])[Len(s) + 1] = F[x]
        /\ \A i \in 1 .. Len(s) : Append(p, F[x])[i] = p[i]
    BY <1>4, <1>5, AppendProperties
  <2>2. \A i \in 1 .. Len(q) : q[i] = Append(p, F[x])[i]
    BY <1>2, <1>5, <1>6, <1>7, <2>1
  <2>3. QED
    BY <1>4, <1>5, <2>1, <2>2, SeqEqual
<1>9. QED
  BY <1>4, <1>8, FlattenAppend DEF FM, p, q, t

LEMMA FMOne ==
    ASSUME NEW A, NEW S, NEW F \in Makers(A, S), NEW x \in A
    PROVE  FM(F, <<x>>) = F[x]
<1>1. <<>> \in Seq(A) /\ <<x>> = Append(<<>>, x)
  BY EmptySeq
<1>2. F[x] \in Seq(S)
  BY MakersType
<1>3. <<>> \o F[x] = F[x]
  BY <1>2, ConcatEmptySeq
<1>4. FM(F, Append(<<>>, x)) = FM(F, <<>>) \o F[x]
  BY <1>1, FMAppend
<1>5. FM(F, <<>>) = <<>>
  BY FMEmpty
<1>6. QED
  BY <1>1, <1>3, <1>4, <1>5

LEMMA FMConcat ==
    ASSUME NEW A, NEW S, NEW F \in Makers(A, S), NEW s \in Seq(A), NEW t \in Seq(A)
    PROVE  FM(F, s \o t) = FM(F, s) \o FM(F, t)
<1> DEFINE G == {u \in Seq(A) : FM(F, s \o u) = FM(F, s) \o FM(F, u)}
<1>1. FM(F, s) \in Seq(S)
  BY FMIsSeq
<1>2. <<>> \in G
  <2>1. s \o <<>> = s /\ FM(F, s) \o <<>> = FM(F, s) /\ <<>> \in Seq(A)
    BY <1>1, ConcatEmptySeq, EmptySeq
  <2>2. QED
    BY <2>1, FMEmpty
<1>3. ASSUME NEW u \in G, NEW x \in A PROVE Append(u, x) \in G
  <2>1. s \o Append(u, x) = Append(s \o u, x) /\ s \o u \in Seq(A) /\ Append(u, x) \in Seq(A)
    OBVIOUS
  <2>2. FM(F, Append(u, x)) = FM(F, u) \o F[x] /\ FM(F, Append(s \o u, x)) = FM(F, s \o u) \o F[x]
    BY <2>1, FMAppend
  <2>3. FM(F, u) \in Seq(S) /\ F[x] \in Seq(S)
    BY FMIsSeq, MakersType
  <2>4. (FM(F, s) \o FM(F, u)) \o F[x] = FM(F, s) \o (FM(F, u) \o F[x])
    <3>1. \A a, b, c \in Seq(S) : (a \o b) \o c = a \o (b \o c)
      BY ConcatAssociative, SMTT(60)
    <3>2. QED
      BY <1>1, <2>3, <3>1
  <2>5. QED
    BY <2>1, <2>2, <2>4
<1>4. G \in SUBSET Seq(A)
  OBVIOUS
<1> HIDE DEF G
<1>5. G = Seq(A)
  BY <1>2, <1>3, <1>4, SequencesByAppend
<1>6. QED
  BY <1>5 DEF G

LEMMA FMSplits ==
    ASSUME NEW A, NEW S, NEW F \in Makers(A, S)
    PROVE  \A s, t \in Seq(A) : FM(F, s \o t) = FM(F, s) \o FM(F, t)
BY FMConcat

\* What F makes of s, and G of that, in one pass.
LEMMA FMThen ==
    ASSUME NEW A, NEW B, NEW S, NEW F \in Makers(A, B), NEW H \in Makers(B, S), NEW s \in Seq(A)
    PROVE  FM(H, FM(F, s)) = FM([x \in A |-> FM(H, F[x])], s)
<1> DEFINE K == [x \in A |-> FM(H, F[x])]
           G == {u \in Seq(A) : FM(H, FM(F, u)) = FM(K, u)}
<1>0. \A p, q \in Seq(B) : FM(H, p \o q) = FM(H, p) \o FM(H, q)
  BY FMSplits
<1>1. K \in Makers(A, S)
  <2>1. \A x \in A : FM(H, F[x]) \in Seq(S)
    BY MakersType, FMIsSeq
  <2>2. QED
    BY <2>1 DEF Makers
<1>2. \A x \in A : K[x] = FM(H, F[x])
  OBVIOUS
<1> HIDE DEF K
<1>3. <<>> \in G
  BY FMEmpty, EmptySeq
<1>4. ASSUME NEW u \in G, NEW x \in A PROVE Append(u, x) \in G
  <2>1. FM(F, Append(u, x)) = FM(F, u) \o F[x] /\ FM(K, Append(u, x)) = FM(K, u) \o K[x]
    BY <1>1, FMAppend
  <2>2. FM(F, u) \in Seq(B) /\ F[x] \in Seq(B)
    BY FMIsSeq, MakersType
  <2>3. FM(H, FM(F, u) \o F[x]) = FM(H, FM(F, u)) \o FM(H, F[x])
    BY <1>0, <2>2
  <2>4. Append(u, x) \in Seq(A)
    OBVIOUS
  <2>5. QED
    BY <1>2, <2>1, <2>3, <2>4
<1>5. G \in SUBSET Seq(A)
  OBVIOUS
<1> HIDE DEF G
<1>6. G = Seq(A)
  BY <1>3, <1>4, <1>5, SequencesByAppend
<1>7. QED
  BY <1>6 DEF G, K

\* One element made of each.
LEMMA FMSingles ==
    ASSUME NEW A, NEW S, NEW F \in Makers(A, S)
    PROVE  \A s \in Seq(A), t \in Seq(S) :
               Len(t) = Len(s) /\ (\A i \in 1 .. Len(s) : F[s[i]] = <<t[i]>>) => FM(F, s) = t
<1> DEFINE Alike(u) == \A v \in Seq(S) :
                          (Len(v) = Len(u) /\ \A i \in 1 .. Len(u) : F[u[i]] = <<v[i]>>)
                              => FM(F, u) = v
           G == {u \in Seq(A) : Alike(u)}
<1>1. <<>> \in G
  <2>1. \A v \in Seq(S) : Len(v) = 0 => v = <<>>
    BY EmptySeq
  <2>2. <<>> \in Seq(A) /\ Len(<<>>) = 0 /\ FM(F, <<>>) = <<>>
    BY EmptySeq, FMEmpty
  <2>3. QED
    BY <2>1, <2>2
<1>2. ASSUME NEW u \in G, NEW x \in A PROVE Append(u, x) \in G
  <2> DEFINE w == Append(u, x)
  <2>1. u \in Seq(A) /\ Alike(u)
    OBVIOUS
  <2>2. w \in Seq(A) /\ Len(w) = Len(u) + 1 /\ w[Len(u) + 1] = x
        /\ Len(u) \in Nat /\ \A i \in 1 .. Len(u) : w[i] = u[i]
    BY <2>1, AppendProperties, LenProperties
  <2>3. FM(F, w) = FM(F, u) \o F[x]
    BY <2>1, FMAppend
  <2> HIDE DEF w
  <2>4. ASSUME NEW v \in Seq(S), Len(v) = Len(w), \A i \in 1 .. Len(w) : F[w[i]] = <<v[i]>>
        PROVE  FM(F, w) = v
    <3>1. v # <<>>
      BY <2>2, <2>4
    <3>2. PICK p \in Seq(S), y \in S : v = Append(p, y)
      BY <3>1, SequenceEmptyOrAppend
    <3>3. Len(v) = Len(p) + 1 /\ v[Len(p) + 1] = y /\ Len(p) \in Nat
          /\ \A i \in 1 .. Len(p) : v[i] = p[i]
      BY <3>2, AppendProperties, LenProperties
    <3>4. Len(p) = Len(u)
      BY <2>2, <2>4, <3>3
    <3>5. \A i \in 1 .. Len(u) : F[u[i]] = <<p[i]>>
      BY <2>2, <2>4, <3>3, <3>4
    <3> HIDE DEF G
    <3>6. FM(F, u) = p
      BY <2>1, <3>4, <3>5
    <3>7. F[x] = <<y>>
      BY <2>2, <2>4, <3>3, <3>4
    <3>8. p \o <<y>> = Append(p, y)
      BY AppendIsConcat
    <3>9. QED
      BY <2>3, <3>2, <3>6, <3>7, <3>8
  <2>5. QED
    BY <2>2, <2>4 DEF w
<1>3. G \in SUBSET Seq(A)
  OBVIOUS
<1> HIDE DEF G, Alike
<1>4. G = Seq(A)
  BY <1>1, <1>2, <1>3, SequencesByAppend
<1>5. \A s \in Seq(A) : Alike(s)
  BY <1>4 DEF G
<1>6. QED
  BY <1>5 DEF Alike

\* Nothing made of any.
LEMMA FMNothing ==
    ASSUME NEW A, NEW S, NEW F \in Makers(A, S)
    PROVE  \A s \in Seq(A) : (\A i \in 1 .. Len(s) : F[s[i]] = <<>>) => FM(F, s) = <<>>
<1> DEFINE Dumb(u) == (\A i \in 1 .. Len(u) : F[u[i]] = <<>>) => FM(F, u) = <<>>
           G == {u \in Seq(A) : Dumb(u)}
<1>1. <<>> \in G
  BY EmptySeq, FMEmpty
<1>2. ASSUME NEW u \in G, NEW x \in A PROVE Append(u, x) \in G
  <2> DEFINE w == Append(u, x)
  <2>1. u \in Seq(A) /\ Dumb(u)
    OBVIOUS
  <2>2. w \in Seq(A) /\ Len(w) = Len(u) + 1 /\ w[Len(u) + 1] = x
        /\ Len(u) \in Nat /\ \A i \in 1 .. Len(u) : w[i] = u[i]
    BY <2>1, AppendProperties, LenProperties
  <2>3. FM(F, w) = FM(F, u) \o F[x]
    BY <2>1, FMAppend
  <2> HIDE DEF w, G
  <2>4. ASSUME \A i \in 1 .. Len(w) : F[w[i]] = <<>>
        PROVE  FM(F, w) = <<>>
    <3>1. \A i \in 1 .. Len(u) : F[u[i]] = <<>>
      BY <2>2, <2>4
    <3>2. F[x] = <<>>
      BY <2>2, <2>4
    <3>3. FM(F, u) = <<>>
      BY <2>1, <3>1
    <3>4. QED
      BY <2>3, <3>2, <3>3
  <2>5. QED
    BY <2>2, <2>4 DEF w, G
<1>3. G \in SUBSET Seq(A)
  OBVIOUS
<1> HIDE DEF G, Dumb
<1>4. G = Seq(A)
  BY <1>1, <1>2, <1>3, SequencesByAppend
<1>5. \A s \in Seq(A) : Dumb(s)
  BY <1>4 DEF G
<1>6. QED
  BY <1>5 DEF Dumb
-----------------------------------------------------------------------------
(* Blocks and messages, and what they say.                                 *)

Fragments == {<<>>} \union ({"system", "ask", "answer"} \X Nat)
                 \union ({"call", "result"} \X Nat \X Nat)
Ids == {<<>>} \union ({"ollama"} \X Nat) \union ({"id"} \X Nat \X Nat)
TextBlock == [type : {"text"}, text : Seq(Fragments)]
Uses == [type : {"tool_use"}, id : Ids, args : Fragments]
Results == [type : {"tool_result"}, id : Ids, content : Seq(Fragments)]
Blocks == TextBlock \union Uses \union Results

TextF == [b \in Blocks |-> IF b.type = "text" THEN b.text ELSE <<>>]
UseF == [b \in Blocks |-> IF b.type = "tool_use" THEN <<b>> ELSE <<>>]
ResultF == [b \in Blocks |-> IF b.type = "tool_result" THEN <<b>> ELSE <<>>]
SaysF == [b \in Blocks |-> BlockSays(b)]
\* What a block says to ollama, and what is left of it for an agent.
OllamaF == [b \in Blocks |-> CASE b.type = "text" -> b.text
                               [] b.type = "tool_result" -> b.content
                               [] OTHER -> <<>>]
Args(calls) == [i \in DOMAIN calls |-> calls[i].args]

LEMMA BlockMakers ==
    /\ TextF \in Makers(Blocks, Fragments) /\ SaysF \in Makers(Blocks, Fragments)
    /\ UseF \in Makers(Blocks, Uses) /\ ResultF \in Makers(Blocks, Results)
    /\ OllamaF \in Makers(Blocks, Fragments)
<1>1. \A b \in TextBlock : b.type = "text" /\ b.text \in Seq(Fragments)
  BY DEF TextBlock
<1>2. \A b \in Uses : b.type = "tool_use" /\ <<b>> \in Seq(Uses) /\ <<b.args>> \in Seq(Fragments)
  BY DEF Uses
<1>3. \A b \in Results : b.type = "tool_result" /\ <<b>> \in Seq(Results)
                         /\ b.content \in Seq(Fragments)
  BY DEF Results
<1>4. <<>> \in Seq(Fragments) /\ <<>> \in Seq(Uses) /\ <<>> \in Seq(Results)
  BY EmptySeq
<1>5. TextF \in Makers(Blocks, Fragments)
  BY <1>1, <1>2, <1>3, <1>4 DEF TextF, Makers, Blocks
<1>6. UseF \in Makers(Blocks, Uses)
  BY <1>1, <1>2, <1>3, <1>4 DEF UseF, Makers, Blocks
<1>7. ResultF \in Makers(Blocks, Results)
  BY <1>1, <1>2, <1>3, <1>4 DEF ResultF, Makers, Blocks
<1>8. SaysF \in Makers(Blocks, Fragments)
  <2>1. \A b \in Blocks : BlockSays(b) \in Seq(Fragments)
    BY <1>1, <1>2, <1>3 DEF BlockSays, Blocks
  <2>2. QED
    BY <2>1 DEF SaysF, Makers
<1>9. OllamaF \in Makers(Blocks, Fragments)
  BY <1>1, <1>2, <1>3, <1>4 DEF OllamaF, Makers, Blocks
<1>10. QED
  BY <1>5, <1>6, <1>7, <1>8, <1>9

LEMMA BlockSplits ==
    \A s, t \in Seq(Blocks) :
        /\ FM(TextF, s \o t) = FM(TextF, s) \o FM(TextF, t)
        /\ FM(SaysF, s \o t) = FM(SaysF, s) \o FM(SaysF, t)
        /\ FM(UseF, s \o t) = FM(UseF, s) \o FM(UseF, t)
        /\ FM(ResultF, s \o t) = FM(ResultF, s) \o FM(ResultF, t)
        /\ FM(OllamaF, s \o t) = FM(OllamaF, s) \o FM(OllamaF, t)
<1>1. \A s, t \in Seq(Blocks) : FM(TextF, s \o t) = FM(TextF, s) \o FM(TextF, t)
  BY BlockMakers, FMSplits, SMTT(30)
<1>2. \A s, t \in Seq(Blocks) : FM(SaysF, s \o t) = FM(SaysF, s) \o FM(SaysF, t)
  BY BlockMakers, FMSplits, SMTT(30)
<1>3. \A s, t \in Seq(Blocks) : FM(UseF, s \o t) = FM(UseF, s) \o FM(UseF, t)
  BY BlockMakers, FMSplits, SMTT(30)
<1>4. \A s, t \in Seq(Blocks) : FM(ResultF, s \o t) = FM(ResultF, s) \o FM(ResultF, t)
  BY BlockMakers, FMSplits, SMTT(30)
<1>5. \A s, t \in Seq(Blocks) : FM(OllamaF, s \o t) = FM(OllamaF, s) \o FM(OllamaF, t)
  BY BlockMakers, FMSplits, SMTT(30)
<1>6. QED
  BY <1>1, <1>2, <1>3, <1>4, <1>5

\* The operators on blocks, as what is made of each block.
LEMMA BlocksByOne ==
    ASSUME NEW s \in Seq(Blocks)
    PROVE  /\ Texts(s) = FM(TextF, s)
           /\ Of(s, "tool_use") = FM(UseF, s)
           /\ Of(s, "tool_result") = FM(ResultF, s)
           /\ FlattenSeq(Map(BlockSays, s)) = FM(SaysF, s)
<1>1. \A i \in DOMAIN s : s[i] \in Blocks
  BY LenProperties, ElementOfSeq
<1>2. [i \in DOMAIN s |-> IF s[i].type = "text" THEN s[i].text ELSE <<>>]
      = [i \in DOMAIN s |-> TextF[s[i]]]
  BY <1>1 DEF TextF
<1>3. [i \in DOMAIN s |-> IF s[i].type = "tool_use" THEN <<s[i]>> ELSE <<>>]
      = [i \in DOMAIN s |-> UseF[s[i]]]
  BY <1>1 DEF UseF
<1>4. [i \in DOMAIN s |-> IF s[i].type = "tool_result" THEN <<s[i]>> ELSE <<>>]
      = [i \in DOMAIN s |-> ResultF[s[i]]]
  BY <1>1 DEF ResultF
<1>5. Map(BlockSays, s) = [i \in DOMAIN s |-> SaysF[s[i]]]
  BY <1>1 DEF SaysF, Map
<1>6. Texts(s) = FM(TextF, s)
  BY <1>2 DEF Texts, FM
<1>7. Of(s, "tool_use") = FM(UseF, s)
  BY <1>3 DEF Of, Only, FM
<1>8. Of(s, "tool_result") = FM(ResultF, s)
  BY <1>4 DEF Of, Only, FM
<1>9. FlattenSeq(Map(BlockSays, s)) = FM(SaysF, s)
  BY <1>5 DEF FM
<1>10. QED
  BY <1>6, <1>7, <1>8, <1>9

\* An answer's blocks: its text, if there is any, and its calls.
LEMMA AnswerBlocks ==
    ASSUME NEW t \in Seq(Fragments), NEW calls \in Seq(Uses)
    PROVE  LET s == TextBlocks(t) \o calls
           IN  /\ s \in Seq(Blocks)
               /\ FM(TextF, s) = t /\ FM(UseF, s) = calls /\ FM(ResultF, s) = <<>>
               /\ FM(SaysF, s) = t \o Args(calls)
               /\ FM(OllamaF, s) = t
               /\ Args(calls) \in Seq(Fragments)
<1> DEFINE s == TextBlocks(t) \o calls
<1>1. TextBlocks(t) \in Seq(Blocks)
  <2>1. Text(t) \in Blocks
    BY DEF Text, Blocks, TextBlock
  <2>2. <<>> \in Seq(Blocks) /\ <<Text(t)>> \in Seq(Blocks)
    BY <2>1, EmptySeq
  <2>3. QED
    BY <2>2 DEF TextBlocks
<1>2. calls \in Seq(Blocks)
  BY SeqMonotonic DEF Blocks
<1>3. DOMAIN calls = 1 .. Len(calls) /\ Len(calls) \in Nat
      /\ \A i \in 1 .. Len(calls) : calls[i] \in Uses
  BY LenProperties, ElementOfSeq
<1>4. Args(calls) \in Seq(Fragments) /\ Len(Args(calls)) = Len(calls)
      /\ \A i \in 1 .. Len(calls) : Args(calls)[i] = calls[i].args
  <2>1. \A i \in 1 .. Len(calls) : calls[i].args \in Fragments
    BY <1>3 DEF Uses
  <2>2. Args(calls) \in [1 .. Len(calls) -> Fragments]
    BY <1>3, <2>1 DEF Args
  <2>3. Args(calls) \in Seq(Fragments)
    BY <1>3, <2>2, SeqDef
  <2>4. DOMAIN Args(calls) = 1 .. Len(calls)
    BY <2>2
  <2>5. Len(Args(calls)) = Len(calls)
    BY <1>3, <2>3, <2>4, LenProperties
  <2>6. QED
    BY <1>3, <2>3, <2>5 DEF Args
<1>5. \A i \in 1 .. Len(calls) :
          /\ TextF[calls[i]] = <<>> /\ ResultF[calls[i]] = <<>> /\ OllamaF[calls[i]] = <<>>
          /\ UseF[calls[i]] = <<calls[i]>> /\ SaysF[calls[i]] = <<Args(calls)[i]>>
  <2>1. \A b \in Uses : b \in Blocks /\ b.type = "tool_use"
    BY DEF Uses, Blocks
  <2>2. \A b \in Uses : BlockSays(b) = <<b.args>>
    BY <2>1 DEF BlockSays
  <2>3. QED
    BY <1>3, <1>4, <2>1, <2>2 DEF TextF, ResultF, OllamaF, UseF, SaysF
<1>6. FM(TextF, calls) = <<>> /\ FM(ResultF, calls) = <<>> /\ FM(OllamaF, calls) = <<>>
  BY <1>2, <1>5, BlockMakers, FMNothing
<1>7. FM(UseF, calls) = calls
  BY <1>2, <1>5, BlockMakers, FMSingles
<1>8. FM(SaysF, calls) = Args(calls)
  <2> DEFINE p == Args(calls)
  <2>1. p \in Seq(Fragments) /\ Len(p) = Len(calls)
        /\ \A i \in 1 .. Len(calls) : SaysF[calls[i]] = <<p[i]>>
    BY <1>4, <1>5
  <2> HIDE DEF p
  <2>2. FM(SaysF, calls) = p
    BY <1>2, <2>1, BlockMakers, FMSingles
  <2>3. QED
    BY <2>2 DEF p
<1>9. /\ FM(TextF, TextBlocks(t)) = t /\ FM(SaysF, TextBlocks(t)) = t
      /\ FM(OllamaF, TextBlocks(t)) = t
      /\ FM(UseF, TextBlocks(t)) = <<>> /\ FM(ResultF, TextBlocks(t)) = <<>>
  <2>1. CASE t = <<>>
    BY <2>1, FMEmpty DEF TextBlocks
  <2>2. CASE t # <<>>
    <3>1. TextBlocks(t) = <<Text(t)>>
      BY <2>2 DEF TextBlocks
    <3>2. Text(t) \in Blocks /\ Text(t).type = "text" /\ Text(t).text = t
      BY DEF Text, Blocks, TextBlock
    <3>3. /\ TextF[Text(t)] = t /\ SaysF[Text(t)] = t /\ OllamaF[Text(t)] = t
          /\ UseF[Text(t)] = <<>> /\ ResultF[Text(t)] = <<>>
      BY <3>2 DEF TextF, SaysF, OllamaF, UseF, ResultF, BlockSays
    <3>4. QED
      BY <3>1, <3>2, <3>3, BlockMakers, FMOne
  <2>3. QED
    BY <2>1, <2>2
<1>10. \A S : \A u \in Seq(S) : u \o <<>> = u /\ <<>> \o u = u
  BY ConcatEmptySeq
<1>11. s \in Seq(Blocks)
  BY <1>1, <1>2
<1>12. FM(TextF, s) = t /\ FM(OllamaF, s) = t /\ FM(SaysF, s) = t \o Args(calls)
  <2>1. FM(TextF, s) = FM(TextF, TextBlocks(t)) \o FM(TextF, calls)
    BY <1>1, <1>2, BlockSplits
  <2>2. FM(OllamaF, s) = FM(OllamaF, TextBlocks(t)) \o FM(OllamaF, calls)
    BY <1>1, <1>2, BlockSplits
  <2>3. FM(SaysF, s) = FM(SaysF, TextBlocks(t)) \o FM(SaysF, calls)
    BY <1>1, <1>2, BlockSplits
  <2>4. QED
    BY <1>6, <1>8, <1>9, <1>10, <2>1, <2>2, <2>3
<1>13. FM(UseF, s) = calls /\ FM(ResultF, s) = <<>>
  <2>1. FM(UseF, s) = FM(UseF, TextBlocks(t)) \o FM(UseF, calls)
    BY <1>1, <1>2, BlockSplits
  <2>2. FM(ResultF, s) = FM(ResultF, TextBlocks(t)) \o FM(ResultF, calls)
    BY <1>1, <1>2, BlockSplits
  <2>3. <<>> \in Seq(Results)
    BY EmptySeq
  <2>4. QED
    BY <1>6, <1>7, <1>9, <1>10, <2>1, <2>2, <2>3
<1>14. QED
  BY <1>4, <1>11, <1>12, <1>13
-----------------------------------------------------------------------------
(* An answer, through its adapter and the client's format.                 *)

Kept(u, a) ==
    IF u \notin KeepCalls THEN <<>>
    ELSE IF u = "ollama" THEN [i \in DOMAIN a.calls |-> ToolUse(<<"ollama", i>>, a.calls[i].args)]
    ELSE a.calls
Stops == {"max_tokens", "tool_use", "end_turn"}
AnswerRecord == [by : Adapters, text : Seq(Fragments), calls : Seq(Uses),
                 why : {"done", "cut", "calls"}]

\* The upstreams by name.
LEMMA AdapterNames ==
    ASSUME NEW u \in Adapters
    PROVE  u \in {"openai_api", "azure_openai", "copilot_oauth", "chatgpt_web",
                  "anthropic_api", "bedrock", "vertex_ai", "claude_oauth", "claude_web",
                  "cli_acp", "cli_headless", "ollama"}
BY ConversationAssumption DEF ConversationAssumption, OAIShaped, AnthropicShaped, Agents

\* An answer as an adapter hands it on.
LEMMA ChatResponse ==
    ASSUME NEW u \in Adapters, NEW req, NEW a \in AnswerRecord
    PROVE  LET resp == Chat(u, req, a).response
           IN  /\ resp.content = TextBlocks(a.text) \o Kept(u, a)
               /\ resp.stop \in Stops
               /\ resp.stop = "max_tokens" <=>
                      a.why = "cut" /\ u \notin {"azure_openai", "cli_headless"}
<1>1. a.why \in {"done", "cut", "calls"}
  BY DEF AnswerRecord
<1> DEFINE Reason(stop) == stop \in Stops /\ (stop = "max_tokens" <=> a.why = "cut")
<1>2. Reason(AnthropicWord[a.why])
  BY <1>1 DEF AnthropicWord, Stops
<1>3. Reason(stopFromOAIFinish(OAIWord[a.why]))
  BY <1>1 DEF stopFromOAIFinish, OAIWord, Stops
<1>4. Reason(ollamaStopReason(OAIWord[a.why]))
  BY <1>1 DEF ollamaStopReason, OAIWord, Stops
<1> DEFINE Cut == IF a.why = "cut" THEN "max_tokens" ELSE "end_turn"
           resp == Chat(u, req, a).response
<1>5. Reason(Cut)
  BY <1>1 DEF Stops
<1>6. CASE u = "openai_api"
  <2>1. resp = parseOAIResponse(a)
    BY <1>6 DEF Chat, OpenAIChat
  <2> HIDE DEF resp
  <2>2. resp.stop = stopFromOAIFinish(OAIWord[a.why]) /\ resp.content = TextBlocks(a.text) \o a.calls
    BY <2>1 DEF parseOAIResponse, Response
  <2>3. QED
    BY <1>3, <1>6, <2>2 DEF Kept, KeepCalls, resp
<1>7. CASE u = "anthropic_api"
  <2>1. resp = parseAnthropicResponse(a)
    BY <1>7 DEF Chat, AnthropicChat
  <2> HIDE DEF resp
  <2>2. resp.stop = AnthropicWord[a.why] /\ resp.content = TextBlocks(a.text) \o a.calls
    BY <2>1 DEF parseAnthropicResponse, Response
  <2>3. QED
    BY <1>2, <1>7, <2>2 DEF Kept, KeepCalls, resp
<1>8. CASE u = "ollama"
  <2>1. resp = parseOllamaResponse(a)
    BY <1>8 DEF Chat, OllamaChat
  <2> HIDE DEF resp
  <2>2. resp.stop = ollamaStopReason(OAIWord[a.why]) /\ resp.content = TextBlocks(a.text) \o Kept(u, a)
    BY <1>8, <2>1 DEF parseOllamaResponse, ollamaContent, Kept, KeepCalls
  <2>3. QED
    BY <1>4, <1>8, <2>2 DEF resp
<1>9. CASE u = "azure_openai"
  <2>1. resp = parseOpenAIShape(a)
    BY <1>9 DEF Chat, AzureChat
  <2> HIDE DEF resp
  <2>2. resp.stop = "end_turn" /\ resp.content = TextBlocks(a.text) \o <<>>
    BY <2>1 DEF parseOpenAIShape, Response
  <2>3. QED
    BY <1>9, <2>2 DEF Kept, KeepCalls, Stops, resp
<1>10. CASE u = "bedrock"
  <2>1. resp = parseAnthropicLike(a, "bedrock")
    BY <1>10 DEF Chat, BedrockChat
  <2> HIDE DEF resp
  <2>2. resp.stop = AnthropicWord[a.why] /\ resp.content = TextBlocks(a.text) \o a.calls
    BY <2>1 DEF parseAnthropicLike, Response
  <2>3. QED
    BY <1>2, <1>10, <2>2 DEF Kept, KeepCalls, resp
<1>11. CASE u = "vertex_ai"
  <2>1. resp = parseAnthropicLike(a, "vertex_ai")
    BY <1>11 DEF Chat, VertexChat
  <2> HIDE DEF resp
  <2>2. resp.stop = AnthropicWord[a.why] /\ resp.content = TextBlocks(a.text) \o a.calls
    BY <2>1 DEF parseAnthropicLike, Response
  <2>3. QED
    BY <1>2, <1>11, <2>2 DEF Kept, KeepCalls, resp
<1>12. CASE u = "claude_oauth"
  <2>1. resp = oauthAnthropicResponse(a)
    BY <1>12 DEF Chat, OAuthChat
  <2> HIDE DEF resp
  <2>2. resp.stop = AnthropicWord[a.why] /\ resp.content = TextBlocks(a.text) \o a.calls
    BY <2>1 DEF oauthAnthropicResponse, Response
  <2>3. QED
    BY <1>2, <1>12, <2>2 DEF Kept, KeepCalls, resp
<1>13. CASE u = "copilot_oauth"
  <2>1. resp = oauthOpenAIResponse(a)
    BY <1>13 DEF Chat, OAuthChat
  <2> HIDE DEF resp
  <2>2. resp.stop = Cut /\ resp.content = TextBlocks(a.text) \o <<>>
    BY <2>1 DEF oauthOpenAIResponse, Response
  <2>3. QED
    BY <1>5, <1>13, <2>2 DEF Kept, KeepCalls, resp
<1>14. CASE u = "claude_web"
  <2>1. resp = webAnthropic(a)
    BY <1>14 DEF Chat, WebChat
  <2> HIDE DEF resp
  <2>2. resp.stop = AnthropicWord[a.why] /\ resp.content = TextBlocks(a.text) \o <<>>
    BY <2>1 DEF webAnthropic, Response
  <2>3. QED
    BY <1>2, <1>14, <2>2 DEF Kept, KeepCalls, resp
<1>15. CASE u = "chatgpt_web"
  <2>1. resp = webOpenAI(a)
    BY <1>15 DEF Chat, WebChat
  <2> HIDE DEF resp
  <2>2. resp.stop = Cut /\ resp.content = TextBlocks(a.text) \o <<>>
    BY <2>1 DEF webOpenAI, Response
  <2>3. QED
    BY <1>5, <1>15, <2>2 DEF Kept, KeepCalls, resp
<1>16. CASE u = "cli_acp"
  <2>1. resp = responseFromText(a.text, AnthropicWord[a.why])
    BY <1>16 DEF Chat, AcpChat
  <2> HIDE DEF resp
  <2>2. resp.stop = AnthropicWord[a.why] /\ resp.content = TextBlocks(a.text) \o <<>>
    BY <2>1 DEF responseFromText, Response
  <2>3. QED
    BY <1>2, <1>16, <2>2 DEF Kept, KeepCalls, resp
<1>17. CASE u = "cli_headless"
  <2>1. resp = responseFromText(a.text, "end_turn")
    BY <1>17 DEF Chat, chatHeadless
  <2> HIDE DEF resp
  <2>2. resp.stop = "end_turn" /\ resp.content = TextBlocks(a.text) \o <<>>
    BY <2>1 DEF responseFromText, Response
  <2>3. QED
    BY <1>17, <2>2 DEF Kept, KeepCalls, Stops, resp
<1>18. QED
  BY <1>6, <1>7, <1>8, <1>9, <1>10, <1>11, <1>12, <1>13, <1>14, <1>15, <1>16, <1>17, AdapterNames

LEMMA KeptType ==
    ASSUME NEW u \in Adapters, NEW a \in AnswerRecord
    PROVE  /\ Kept(u, a) \in Seq(Uses)
           /\ Args(Kept(u, a)) = IF u \in KeepCalls THEN Args(a.calls) ELSE <<>>
<1>1. DOMAIN a.calls = 1 .. Len(a.calls) /\ Len(a.calls) \in Nat
      /\ \A i \in 1 .. Len(a.calls) : a.calls[i] \in Uses
  BY LenProperties, ElementOfSeq DEF AnswerRecord
<1>2. CASE u \notin KeepCalls
  BY <1>2, EmptySeq DEF Kept, Args
<1>3. CASE u \in KeepCalls /\ u # "ollama"
  BY <1>3 DEF Kept, AnswerRecord
<1>4. CASE u = "ollama"
  <2> DEFINE k == [i \in DOMAIN a.calls |-> ToolUse(<<"ollama", i>>, a.calls[i].args)]
  <2>1. Kept(u, a) = k /\ u \in KeepCalls
    BY <1>4 DEF Kept, KeepCalls
  <2>2. \A i \in 1 .. Len(a.calls) : <<"ollama", i>> \in Ids /\ a.calls[i].args \in Fragments
    BY <1>1 DEF Ids, Uses
  <2>3. \A i \in 1 .. Len(a.calls) : k[i] \in Uses
    BY <1>1, <2>2 DEF ToolUse, Uses
  <2>4. k \in Seq(Uses)
    <3>1. k \in [1 .. Len(a.calls) -> Uses]
      BY <1>1, <2>3
    <3> HIDE DEF k
    <3>2. QED
      BY <1>1, <3>1, SeqDef
  <2>5. Args(k) = Args(a.calls)
    BY <1>1 DEF Args, ToolUse
  <2>6. QED
    BY <2>1, <2>4, <2>5
<1>5. QED
  BY <1>2, <1>3, <1>4

Deltas(s) == [i \in DOMAIN s |-> [type |-> "content_block_delta", delta |-> s[i]]]
Partials(s) == [i \in DOMAIN s |-> Partial(s[i])]
UsageEvent == [type |-> "usage"]
StopEvent(stop) == [type |-> "stop", stop |-> stop]
Events == [type : {"content_block_delta"}, delta : Blocks] \union {UsageEvent}
              \union [type : {"stop"}, stop : Stops]
EndChunk(stop) == [content |-> <<>>, finish |-> oaiFinishReason(stop)]
EndChunks == {EndChunk(stop) : stop \in Stops}
ContentF == [e \in Events |-> IF e.type = "content_block_delta" THEN <<Partial(e.delta)>> ELSE <<>>]
EndF == [e \in Events |-> IF e.type = "stop" THEN <<EndChunk(e.stop)>> ELSE <<>>]

LEMMA PartialType ==
    ASSUME NEW b \in Blocks
    PROVE  /\ Partial(b) \in Blocks
           /\ b \in Uses => Partial(b) \in Uses /\ Partial(b) = [b EXCEPT !.args = NoArgs]
           /\ b \notin Uses => Partial(b) = b
<1>1. b.type = "tool_use" <=> b \in Uses
  BY DEF Blocks, Uses, Results, TextBlock
<1>2. NoArgs \in Fragments
  BY DEF NoArgs, Fragments
<1>3. b \in Uses => [b EXCEPT !.args = NoArgs] \in Uses
  BY <1>2 DEF Uses
<1>4. QED
  BY <1>1, <1>3 DEF Partial, Blocks

LEMMA EventMakers ==
    /\ ContentF \in Makers(Events, Blocks)
    /\ EndF \in Makers(Events, EndChunks)
<1>1. \A e \in Events : e.type = "content_block_delta" => e.delta \in Blocks
  BY DEF Events, UsageEvent
<1>2. \A e \in Events : e.type = "stop" => EndChunk(e.stop) \in EndChunks
  BY DEF Events, UsageEvent, EndChunks
<1>3. <<>> \in Seq(Blocks) /\ <<>> \in Seq(EndChunks)
  BY EmptySeq
<1>4. \A e \in Events : (IF e.type = "content_block_delta" THEN <<Partial(e.delta)>> ELSE <<>>)
                        \in Seq(Blocks)
  BY <1>1, <1>3, PartialType
<1>5. \A e \in Events : (IF e.type = "stop" THEN <<EndChunk(e.stop)>> ELSE <<>>) \in Seq(EndChunks)
  <2> DEFINE Chunk(stop) == EndChunk(stop)
  <2>1. \A e \in Events : e.type = "stop" => Chunk(e.stop) \in EndChunks
    BY <1>2
  <2> HIDE DEF Chunk
  <2>2. \A e \in Events : (IF e.type = "stop" THEN <<Chunk(e.stop)>> ELSE <<>>) \in Seq(EndChunks)
    BY <1>3, <2>1
  <2>3. QED
    BY <2>2 DEF Chunk
<1>6. QED
  BY <1>4, <1>5 DEF ContentF, EndF, Makers

\* What Router.Stream sends of a response: its blocks in order, and the end.
LEMMA StreamEvents ==
    ASSUME NEW s \in Seq(Blocks), NEW stop \in Stops
    PROVE  LET events == Deltas(s) \o <<UsageEvent, StopEvent(stop)>>
           IN  /\ events \in Seq(Events)
               /\ FM(ContentF, events) = Partials(s)
               /\ FM(EndF, events) = <<EndChunk(stop)>>
               /\ Partials(s) \in Seq(Blocks)
<1> DEFINE d == Deltas(s)
           p == Partials(s)
           last == <<UsageEvent, StopEvent(stop)>>
<1>1. DOMAIN s = 1 .. Len(s) /\ Len(s) \in Nat /\ \A i \in 1 .. Len(s) : s[i] \in Blocks
  BY LenProperties, ElementOfSeq
<1>2. d \in Seq(Events) /\ Len(d) = Len(s)
      /\ \A i \in 1 .. Len(s) : d[i] = [type |-> "content_block_delta", delta |-> s[i]]
  <2>1. \A i \in 1 .. Len(s) : d[i] = [type |-> "content_block_delta", delta |-> s[i]]
    BY <1>1 DEF Deltas
  <2>2. d \in [1 .. Len(s) -> Events]
    BY <1>1 DEF Deltas, Events
  <2> HIDE DEF d
  <2>3. d \in Seq(Events) /\ DOMAIN d = 1 .. Len(s)
    BY <1>1, <2>2, SeqDef
  <2>4. Len(d) = Len(s)
    BY <1>1, <2>3, LenProperties
  <2>5. QED
    BY <2>1, <2>3, <2>4
<1>3. p \in Seq(Blocks) /\ Len(p) = Len(s) /\ \A i \in 1 .. Len(s) : p[i] = Partial(s[i])
  <2>1. \A i \in 1 .. Len(s) : p[i] = Partial(s[i])
    BY <1>1 DEF Partials
  <2>2. p \in [1 .. Len(s) -> Blocks]
    BY <1>1, PartialType DEF Partials
  <2> HIDE DEF p
  <2>3. p \in Seq(Blocks) /\ DOMAIN p = 1 .. Len(s)
    BY <1>1, <2>2, SeqDef
  <2>4. Len(p) = Len(s)
    BY <1>1, <2>3, LenProperties
  <2>5. QED
    BY <2>1, <2>3, <2>4
<1>4. UsageEvent \in Events /\ StopEvent(stop) \in Events
  BY DEF Events, StopEvent
<1>5. /\ ContentF[UsageEvent] = <<>> /\ EndF[UsageEvent] = <<>>
      /\ ContentF[StopEvent(stop)] = <<>>
      /\ EndF[StopEvent(stop)] = <<EndChunk(stop)>>
  <2>1. UsageEvent.type = "usage"
    BY DEF UsageEvent
  <2>2. StopEvent(stop).type = "stop" /\ StopEvent(stop).stop = stop
    BY DEF StopEvent
  <2>3. QED
    BY <1>4, <2>1, <2>2 DEF ContentF, EndF
<1>6. \A i \in 1 .. Len(s) : d[i] \in Events
      /\ ContentF[d[i]] = <<p[i]>> /\ EndF[d[i]] = <<>>
  <2> HIDE DEF d, p
  <2>1. \A i \in 1 .. Len(s) : d[i].type = "content_block_delta" /\ d[i].delta = s[i]
                               /\ d[i] \in Events
    <3>1. \A i \in 1 .. Len(d) : d[i] \in Events
      BY <1>2, ElementOfSeq
    <3>2. ASSUME NEW i \in 1 .. Len(s)
          PROVE  d[i].type = "content_block_delta" /\ d[i].delta = s[i]
      <4>1. d[i] = [type |-> "content_block_delta", delta |-> s[i]]
        BY <1>2
      <4>2. QED
        BY <4>1
    <3>3. QED
      BY <1>2, <3>1, <3>2
  <2>2. QED
    BY <1>3, <2>1 DEF ContentF, EndF
<1>7. FM(ContentF, last) = <<>> /\ FM(EndF, last) = <<EndChunk(stop)>> /\ last \in Seq(Events)
  <2> DEFINE e == StopEvent(stop)
  <2>1. last = Append(<<UsageEvent>>, e) /\ <<UsageEvent>> \in Seq(Events) /\ last \in Seq(Events)
    BY <1>4
  <2> HIDE DEF e, last
  <2>2. FM(ContentF, last) = FM(ContentF, <<UsageEvent>>) \o ContentF[e]
    BY <1>4, <2>1, EventMakers, FMAppend DEF e
  <2>3. FM(EndF, last) = FM(EndF, <<UsageEvent>>) \o EndF[e]
    BY <1>4, <2>1, EventMakers, FMAppend DEF e
  <2>4. FM(ContentF, <<UsageEvent>>) = <<>>
    BY <1>4, <1>5, EventMakers, FMOne
  <2>5. FM(EndF, <<UsageEvent>>) = <<>>
    BY <1>4, <1>5, EventMakers, FMOne
  <2>6. <<>> \o <<>> = <<>> /\ <<>> \o <<EndChunk(stop)>> = <<EndChunk(stop)>>
    OBVIOUS
  <2>7. QED
    BY <1>5, <2>1, <2>2, <2>3, <2>4, <2>5, <2>6 DEF e
<1> HIDE DEF d, p, last
<1>8. FM(ContentF, d) = p
  <2>1. ContentF \in Makers(Events, Blocks)
    BY EventMakers
  <2>2. p \in Seq(Blocks) /\ d \in Seq(Events) /\ Len(p) = Len(d)
        /\ \A i \in 1 .. Len(d) : ContentF[d[i]] = <<p[i]>>
    BY <1>2, <1>3, <1>6
  <2>3. \A u \in Seq(Events), v \in Seq(Blocks) :
            Len(v) = Len(u) /\ (\A i \in 1 .. Len(u) : ContentF[u[i]] = <<v[i]>>)
                => FM(ContentF, u) = v
    BY <2>1, FMSingles
  <2>4. QED
    BY <2>2, <2>3
<1>9. FM(EndF, d) = <<>>
  BY <1>2, <1>6, EventMakers, FMNothing
<1>10. \A u, v \in Seq(Events) : FM(ContentF, u \o v) = FM(ContentF, u) \o FM(ContentF, v)
  BY EventMakers, FMSplits
<1>11. \A u, v \in Seq(Events) : FM(EndF, u \o v) = FM(EndF, u) \o FM(EndF, v)
  BY EventMakers, FMSplits
<1>12. FM(ContentF, d \o last) = p
  <2>1. p \o <<>> = p
    BY <1>3, ConcatEmptySeq
  <2>2. QED
    BY <1>2, <1>7, <1>8, <1>10, <2>1
<1>13. FM(EndF, d \o last) = <<EndChunk(stop)>>
  <2>1. <<>> \o <<EndChunk(stop)>> = <<EndChunk(stop)>>
    OBVIOUS
  <2>2. QED
    BY <1>2, <1>7, <1>9, <1>11, <2>1
<1>14. d \o last \in Seq(Events)
  BY <1>2, <1>7
<1>15. QED
  BY <1>3, <1>12, <1>13, <1>14 DEF d, p, last

\* The chunks of a stream, taken together.
LEMMA ChunksOfStream ==
    ASSUME NEW events \in Seq(Events)
    PROVE  /\ FlattenSeq(Map(LAMBDA c : c.content, EventsToOAIStream(events)))
              = FM(ContentF, events)
           /\ Only(EventsToOAIStream(events), LAMBDA c : c.finish # "") = FM(EndF, events)
           /\ FlattenSeq(Map(LAMBDA c : c.content, EventsToAnthropicStream(events)))
              = FM(ContentF, events)
           /\ Only(EventsToAnthropicStream(events), LAMBDA c : c.finish # "") = <<>>
<1> DEFINE o == EventsToOAIStream(events)
           n == EventsToAnthropicStream(events)
<1>1. DOMAIN events = 1 .. Len(events) /\ \A i \in DOMAIN events : events[i] \in Events
  BY LenProperties, ElementOfSeq
<1>2. DOMAIN o = DOMAIN events /\ DOMAIN n = DOMAIN events
  BY DEF EventsToOAIStream, EventsToAnthropicStream, Map
<1> HIDE DEF o, n
<1>3. ASSUME NEW i \in DOMAIN events
      PROVE  /\ o[i].content = ContentF[events[i]] /\ n[i].content = ContentF[events[i]]
             /\ (IF o[i].finish # "" THEN <<o[i]>> ELSE <<>>) = EndF[events[i]]
             /\ n[i].finish = ""
  <2> DEFINE e == events[i]
  <2>1. e \in Events
    BY <1>1
  <2>2. n[i] = [content |-> IF e.type = "content_block_delta" THEN <<Partial(e.delta)>> ELSE <<>>,
                finish |-> ""]
    BY DEF EventsToAnthropicStream, Map, n, e
  <2>3. o[i] = CASE e.type = "content_block_delta" -> [content |-> <<Partial(e.delta)>>, finish |-> ""]
                 [] e.type = "stop" -> [content |-> <<>>, finish |-> oaiFinishReason(e.stop)]
                 [] OTHER -> [content |-> <<>>, finish |-> ""]
    BY DEF EventsToOAIStream, Map, o, e
  <2> DEFINE ni == n[i]
             oi == o[i]
  <2> HIDE DEF e, ni, oi
  <2>4. ni.content = ContentF[e] /\ ni.finish = ""
    <3>1. ni = [content |-> IF e.type = "content_block_delta" THEN <<Partial(e.delta)>> ELSE <<>>,
                finish |-> ""]
      BY <2>2 DEF ni
    <3>2. ContentF[e] = IF e.type = "content_block_delta" THEN <<Partial(e.delta)>> ELSE <<>>
      BY <2>1 DEF ContentF
    <3>3. QED
      BY <3>1, <3>2
  <2>5. CASE e.type = "content_block_delta"
    <3>1. oi = [content |-> <<Partial(e.delta)>>, finish |-> ""]
      BY <2>3, <2>5 DEF oi
    <3>2. ContentF[e] = <<Partial(e.delta)>> /\ EndF[e] = <<>>
      BY <2>1, <2>5 DEF ContentF, EndF
    <3>3. oi.content = ContentF[e] /\ oi.finish = ""
      BY <3>1, <3>2
    <3>4. QED
      BY <2>4, <3>2, <3>3 DEF e, ni, oi
  <2>6. CASE e.type = "stop"
    <3>1. oi = EndChunk(e.stop)
      BY <2>3, <2>6 DEF oi, EndChunk
    <3>2. oi.content = <<>> /\ oi.finish # ""
      BY <3>1 DEF EndChunk, oaiFinishReason
    <3>3. ContentF[e] = <<>> /\ EndF[e] = <<EndChunk(e.stop)>>
      BY <2>1, <2>6 DEF ContentF, EndF
    <3>4. QED
      BY <2>4, <3>1, <3>2, <3>3 DEF e, ni, oi
  <2>7. CASE e.type \notin {"content_block_delta", "stop"}
    <3>1. oi = [content |-> <<>>, finish |-> ""]
      BY <2>3, <2>7 DEF oi
    <3>2. ContentF[e] = <<>> /\ EndF[e] = <<>>
      BY <2>1, <2>7 DEF ContentF, EndF
    <3>3. oi.content = ContentF[e] /\ oi.finish = ""
      BY <3>1, <3>2
    <3>4. QED
      BY <2>4, <3>2, <3>3 DEF e, ni, oi
  <2>8. QED
    BY <2>5, <2>6, <2>7
<1>4. Map(LAMBDA c : c.content, o) = [i \in DOMAIN events |-> ContentF[events[i]]]
  BY <1>2, <1>3 DEF Map
<1>5. Map(LAMBDA c : c.content, n) = [i \in DOMAIN events |-> ContentF[events[i]]]
  BY <1>2, <1>3 DEF Map
<1>6. [i \in DOMAIN o |-> IF o[i].finish # "" THEN <<o[i]>> ELSE <<>>]
      = [i \in DOMAIN events |-> EndF[events[i]]]
  BY <1>2, <1>3
<1>7. FlattenSeq([i \in DOMAIN n |-> IF n[i].finish # "" THEN <<n[i]>> ELSE <<>>]) = <<>>
  <2> DEFINE None == [i \in 1 .. Len(events) |-> <<>>]
             Blank == [x \in {0} |-> <<>>]
             zeros == [i \in 1 .. Len(events) |-> 0]
  <2>1. [i \in DOMAIN n |-> IF n[i].finish # "" THEN <<n[i]>> ELSE <<>>] = None
    BY <1>1, <1>2, <1>3
  <2>2. Blank \in Makers({0}, {0})
    BY EmptySeq DEF Makers
  <2>3. zeros \in Seq({0}) /\ DOMAIN zeros = 1 .. Len(events)
    BY LenProperties, SeqDef
  <2>4. [i \in DOMAIN zeros |-> Blank[zeros[i]]] = None
    OBVIOUS
  <2>5. \A i \in 1 .. Len(zeros) : Blank[zeros[i]] = <<>>
    BY <2>3, LenProperties
  <2> HIDE DEF None, Blank, zeros
  <2>6. FM(Blank, zeros) = <<>>
    BY <2>2, <2>3, <2>5, FMNothing
  <2>7. QED
    BY <2>1, <2>4, <2>6 DEF FM
<1>8. /\ FlattenSeq(Map(LAMBDA c : c.content, o)) = FM(ContentF, events)
      /\ FlattenSeq(Map(LAMBDA c : c.content, n)) = FM(ContentF, events)
  BY <1>4, <1>5 DEF FM
<1>9. Only(o, LAMBDA c : c.finish # "") = FM(EndF, events)
  BY <1>6 DEF Only, FM
<1>10. Only(n, LAMBDA c : c.finish # "") = <<>>
  BY <1>7 DEF Only
<1>11. QED
  BY <1>8, <1>9, <1>10 DEF o, n

\* The calls of an answer as its client is told of them, and the message.
Streamed(calls) == IF client.stream THEN Partials(calls) ELSE calls
ToldMessage(t, calls) ==
    IF client.format = "openai" THEN OAIMessage("assistant", t, calls, NoId)
    ELSE [role |-> "assistant", content |-> TextBlocks(t) \o calls]
ClientType == client \in [format : {"openai", "anthropic"}, stream : BOOLEAN]

LEMMA PartialCalls ==
    ASSUME NEW calls \in Seq(Uses), NEW t \in Seq(Fragments)
    PROVE  /\ Partials(calls) \in Seq(Uses)
           /\ Args(Partials(calls)) = [i \in DOMAIN calls |-> NoArgs]
           /\ Partials(TextBlocks(t) \o calls) = TextBlocks(t) \o Partials(calls)
<1>1. DOMAIN calls = 1 .. Len(calls) /\ Len(calls) \in Nat
      /\ \A i \in 1 .. Len(calls) : calls[i] \in Uses
  BY LenProperties, ElementOfSeq
<1>2. \A i \in 1 .. Len(calls) : Partial(calls[i]) \in Uses /\ Partial(calls[i]).args = NoArgs
  <2>1. \A b \in Uses : b \in Blocks
    BY DEF Blocks
  <2>2. \A b \in Uses : [b EXCEPT !.args = NoArgs].args = NoArgs
    BY DEF Uses
  <2>3. \A b \in Uses : Partial(b) \in Uses /\ Partial(b).args = NoArgs
    BY <2>1, <2>2, PartialType
  <2>4. QED
    BY <1>1, <2>3
<1>3. Partials(calls) \in Seq(Uses) /\ Len(Partials(calls)) = Len(calls)
      /\ \A i \in 1 .. Len(calls) : Partials(calls)[i] = Partial(calls[i])
  <2> DEFINE p == Partials(calls)
  <2>1. p \in [1 .. Len(calls) -> Uses] /\ \A i \in 1 .. Len(calls) : p[i] = Partial(calls[i])
    BY <1>1, <1>2 DEF Partials
  <2> HIDE DEF p
  <2>2. p \in Seq(Uses) /\ DOMAIN p = 1 .. Len(calls)
    BY <1>1, <2>1, SeqDef
  <2>3. Len(p) = Len(calls)
    BY <1>1, <2>2, LenProperties
  <2>4. QED
    BY <2>1, <2>2, <2>3 DEF p
<1>4. Args(Partials(calls)) = [i \in DOMAIN calls |-> NoArgs]
  BY <1>1, <1>2, <1>3 DEF Args, Partials
<1>5. Partials(TextBlocks(t) \o calls) = TextBlocks(t) \o Partials(calls)
  <2> DEFINE h == TextBlocks(t)
             p == Partials(calls)
             s == h \o calls
             r == h \o p
  <2>1. h \in Seq(Blocks) /\ calls \in Seq(Blocks) /\ p \in Seq(Blocks)
        /\ Len(h) \in Nat /\ \A i \in 1 .. Len(h) : h[i] \notin Uses /\ h[i] \in Blocks
    <3>1. Text(t) \in Blocks /\ Text(t) \notin Uses
      BY DEF Text, Blocks, TextBlock, Uses
    <3>2. Uses \subseteq Blocks
      BY DEF Blocks
    <3>3. CASE t = <<>>
      BY <3>2, <3>3, <1>3, EmptySeq, SeqMonotonic DEF TextBlocks
    <3>4. CASE t # <<>>
      <4>1. h = <<Text(t)>>
        BY <3>4 DEF TextBlocks
      <4> HIDE DEF h
      <4>2. h \in Seq(Blocks) /\ Len(h) = 1 /\ h[1] = Text(t)
        BY <3>1, <4>1
      <4>3. QED
        BY <1>3, <3>1, <3>2, <4>2, SeqMonotonic
    <3>5. QED
      BY <3>3, <3>4
  <2> HIDE DEF h, p
  <2>2. /\ s \in Seq(Blocks) /\ r \in Seq(Blocks)
        /\ Len(s) = Len(h) + Len(calls) /\ Len(r) = Len(h) + Len(calls)
        /\ \A i \in 1 .. Len(s) : s[i] = IF i <= Len(h) THEN h[i] ELSE calls[i - Len(h)]
        /\ \A i \in 1 .. Len(s) : r[i] = IF i <= Len(h) THEN h[i] ELSE p[i - Len(h)]
    <3>1. Len(p) = Len(calls)
      BY <1>3 DEF p
    <3>2. /\ s \in Seq(Blocks) /\ Len(s) = Len(h) + Len(calls)
          /\ \A i \in 1 .. Len(h) + Len(calls) :
                 s[i] = IF i <= Len(h) THEN h[i] ELSE calls[i - Len(h)]
      BY <2>1, ConcatProperties
    <3>3. /\ r \in Seq(Blocks) /\ Len(r) = Len(h) + Len(p)
          /\ \A i \in 1 .. Len(h) + Len(p) :
                 r[i] = IF i <= Len(h) THEN h[i] ELSE p[i - Len(h)]
      BY <2>1, ConcatProperties
    <3> HIDE DEF s, r
    <3>4. QED
      BY <3>1, <3>2, <3>3
  <2>3. \A i \in 1 .. Len(s) : r[i] = Partial(s[i])
    <3> HIDE DEF s, r
    <3>1. TAKE i \in 1 .. Len(s)
    <3>2. CASE i <= Len(h)
      BY <2>1, <2>2, <3>2, PartialType
    <3>3. CASE ~(i <= Len(h))
      <4>1. i - Len(h) \in 1 .. Len(calls)
        BY <1>1, <2>1, <2>2, <3>3
      <4>2. QED
        BY <1>3, <2>2, <3>3, <4>1 DEF p
    <3>4. QED
      BY <3>2, <3>3
  <2>4. Partials(s) = r
    <3> HIDE DEF s, r
    <3>1. DOMAIN s = 1 .. Len(s) /\ DOMAIN r = 1 .. Len(s) /\ r = [i \in DOMAIN r |-> r[i]]
      BY <2>2, LenProperties
    <3>2. QED
      BY <2>3, <3>1 DEF Partials
  <2>5. QED
    BY <2>4 DEF h, p
<1>6. QED
  BY <1>3, <1>4, <1>5

\* What a client understands of a response.
LEMMA ToldAnswer ==
    ASSUME ClientType, NEW t \in Seq(Fragments), NEW calls \in Seq(Uses), NEW resp,
           resp.content = TextBlocks(t) \o calls, resp.stop \in Stops
    PROVE  /\ Streamed(calls) \in Seq(Uses)
           /\ Encoded(resp).message = ToldMessage(t, Streamed(calls))
           /\ Encoded(resp).finish \in {"length", "max_tokens"} <=>
                  resp.stop = "max_tokens" /\ ~(client.stream /\ client.format = "anthropic")
<1> DEFINE s == TextBlocks(t) \o calls
           events == Deltas(s) \o <<UsageEvent, StopEvent(resp.stop)>>
           content == TextBlocks(t) \o Partials(calls)
<1>1. /\ s \in Seq(Blocks) /\ Texts(s) = t /\ Of(s, "tool_use") = calls
      /\ Partials(calls) \in Seq(Uses) /\ content \in Seq(Blocks)
      /\ Texts(content) = t /\ Of(content, "tool_use") = Partials(calls)
      /\ Partials(s) = content
  <2>1. Partials(calls) \in Seq(Uses) /\ Partials(s) = content
    BY PartialCalls
  <2>2. s \in Seq(Blocks) /\ FM(TextF, s) = t /\ FM(UseF, s) = calls
    BY AnswerBlocks
  <2>3. content \in Seq(Blocks) /\ FM(TextF, content) = t /\ FM(UseF, content) = Partials(calls)
    BY <2>1, AnswerBlocks
  <2> HIDE DEF s, content
  <2>4. QED
    BY <2>1, <2>2, <2>3, BlocksByOne
<1>2. Stream(resp) = events
  BY DEF Stream, Map, Deltas, UsageEvent, StopEvent
<1> HIDE DEF s, content
<1>3. /\ events \in Seq(Events) /\ FM(ContentF, events) = content
      /\ FM(EndF, events) = <<EndChunk(resp.stop)>>
  BY <1>1, StreamEvents
<1> HIDE DEF events
<1>4. EndChunk(resp.stop).finish = oaiFinishReason(resp.stop)
  BY DEF EndChunk
<1>5. oaiFinishReason(resp.stop) \in {"length", "max_tokens"} <=> resp.stop = "max_tokens"
  BY DEF oaiFinishReason, Stops
<1>6. CASE client.stream /\ client.format = "openai"
  <2>1. Encoded(resp) = Assembled(EventsToOAIStream(events))
    BY <1>2, <1>6 DEF Encoded
  <2>2. Assembled(EventsToOAIStream(events))
        = [message |-> OAIMessage("assistant", Texts(content), Of(content, "tool_use"), NoId),
           finish |-> Last(<<EndChunk(resp.stop)>>).finish]
    <3>1. <<EndChunk(resp.stop)>> # <<>>
      OBVIOUS
    <3>2. QED
      BY <1>3, <1>6, <3>1, ChunksOfStream DEF Assembled
  <2>3. Last(<<EndChunk(resp.stop)>>).finish = oaiFinishReason(resp.stop)
    BY <1>4 DEF Last
  <2>4. QED
    BY <1>1, <1>5, <1>6, <2>1, <2>2, <2>3 DEF ToldMessage, Streamed
<1>7. CASE client.stream /\ client.format = "anthropic"
  <2>1. Encoded(resp) = Assembled(EventsToAnthropicStream(events))
    BY <1>2, <1>7 DEF Encoded
  <2>2. Assembled(EventsToAnthropicStream(events))
        = [message |-> [role |-> "assistant", content |-> content], finish |-> ""]
    BY <1>3, <1>7, ChunksOfStream DEF Assembled
  <2>3. Encoded(resp).message = [role |-> "assistant", content |-> content]
        /\ Encoded(resp).finish = ""
    <3> DEFINE e == Encoded(resp)
               m == [role |-> "assistant", content |-> content]
    <3>1. e = [message |-> m, finish |-> ""]
      BY <2>1, <2>2
    <3> HIDE DEF e, m
    <3>2. e.message = m /\ e.finish = ""
      BY <3>1
    <3>3. QED
      BY <3>2 DEF e, m
  <2>4. Streamed(calls) = Partials(calls)
    BY <1>7 DEF Streamed
  <2>5. ToldMessage(t, Partials(calls)) = [role |-> "assistant", content |-> content]
    BY <1>7 DEF ToldMessage, content
  <2>6. Encoded(resp).message = ToldMessage(t, Streamed(calls))
    BY <2>3, <2>4, <2>5
  <2>7. QED
    BY <1>1, <1>7, <2>3, <2>4, <2>6
<1>8. CASE ~client.stream /\ client.format = "openai"
  <2>1. Encoded(resp) = DenormalizeOAIResponse(resp)
    BY <1>8 DEF Encoded
  <2>2. DenormalizeOAIResponse(resp)
        = [message |-> OAIMessage("assistant", Texts(s), Of(s, "tool_use"), NoId),
           finish |-> oaiFinishReason(resp.stop)]
    BY DEF DenormalizeOAIResponse, denormalizeOAIContentAndTools, s
  <2>3. QED
    BY <1>1, <1>5, <1>8, <2>1, <2>2 DEF ToldMessage, Streamed
<1>9. CASE ~client.stream /\ client.format = "anthropic"
  <2>1. Encoded(resp) = DenormalizeAnthropicResponse(resp)
    BY <1>9 DEF Encoded
  <2>2. Encoded(resp).message = [role |-> "assistant", content |-> resp.content]
        /\ Encoded(resp).finish = resp.stop
    BY <2>1 DEF DenormalizeAnthropicResponse
  <2>3. resp.stop \in {"length", "max_tokens"} <=> resp.stop = "max_tokens"
    BY DEF Stops
  <2>4. Streamed(calls) = calls
    BY <1>9 DEF Streamed
  <2>5. ToldMessage(t, calls) = [role |-> "assistant", content |-> TextBlocks(t) \o calls]
    BY <1>9 DEF ToldMessage
  <2>6. Encoded(resp).message = ToldMessage(t, Streamed(calls))
    BY <2>2, <2>4, <2>5
  <2>7. Streamed(calls) \in Seq(Uses)
    BY <2>4
  <2>8. Encoded(resp).finish \in {"length", "max_tokens"} <=>
            resp.stop = "max_tokens" /\ ~(client.stream /\ client.format = "anthropic")
    BY <1>9, <2>2, <2>3
  <2>9. QED
    BY <2>6, <2>7, <2>8
<1>10. QED
  BY <1>6, <1>7, <1>8, <1>9 DEF ClientType
-----------------------------------------------------------------------------
(* What has been said, as it is told.                                      *)

Words == {"answer"} \X Nat
CallArgs == {"call"} \X Nat \X Nat
\* The answers an upstream may give, in any turn.
Sayings == {a \in AnswerRecord :
                /\ a.text \in Seq(Words)
                /\ a.calls \in Seq([type : {"tool_use"}, id : Ids, args : CallArgs])
                /\ a.by \in Agents => a.calls = <<>>}
SaidIn(a) == Map(LAMBDA f : Said(f, a.by), a.text) \o Map(LAMBDA c : Said(c.args, a.by), a.calls)

Spokens == [what : Fragments, by : Adapters \union {"system", "user", "tool"}]
OnlyF(W) == [s \in Spokens |-> IF s \in W THEN <<s>> ELSE <<>>]
TellF(W) == [s \in Spokens |-> IF s \in W THEN <<AsTold(s)>> ELSE <<>>]
ToldArgs(calls) == [i \in DOMAIN calls |-> IF client.stream THEN NoArgs ELSE calls[i].args]

LEMMA SpokenMakers ==
    ASSUME NEW W
    PROVE  OnlyF(W) \in Makers(Spokens, Spokens) /\ TellF(W) \in Makers(Spokens, Fragments)
<1>1. \A s \in Spokens : AsTold(s) \in Fragments
  BY DEF AsTold, Spokens, NoArgs, Fragments
<1>2. <<>> \in Seq(Spokens) /\ <<>> \in Seq(Fragments)
  BY EmptySeq
<1>3. \A s \in Spokens : (IF s \in W THEN <<s>> ELSE <<>>) \in Seq(Spokens)
  BY <1>2
<1>4. \A s \in Spokens : (IF s \in W THEN <<AsTold(s)>> ELSE <<>>) \in Seq(Fragments)
  BY <1>1, <1>2
<1>5. QED
  BY <1>3, <1>4 DEF OnlyF, TellF, Makers

\* Those of W among the things said, as they are told.
LEMMA TellOnly ==
    ASSUME NEW W, NEW sp \in Seq(Spokens)
    PROVE  /\ Map(AsTold, FM(OnlyF(W), sp)) = FM(TellF(W), sp)
           /\ FM(OnlyF(W), sp) \in Seq(Spokens)
<1> DEFINE All == [s \in Spokens |-> <<AsTold(s)>>]
           o == FM(OnlyF(W), sp)
           told0 == Map(AsTold, o)
<1>1. \A s \in Spokens : AsTold(s) \in Fragments
  BY DEF AsTold, Spokens, NoArgs, Fragments
<1>2. All \in Makers(Spokens, Fragments)
  BY <1>1 DEF Makers
<1>3. o \in Seq(Spokens)
  BY SpokenMakers, FMIsSeq
<1>4. FM(All, o) = FM([s \in Spokens |-> FM(All, OnlyF(W)[s])], sp)
  BY <1>2, SpokenMakers, FMThen
<1>5. [s \in Spokens |-> FM(All, OnlyF(W)[s])] = TellF(W)
  <2>1. ASSUME NEW s \in Spokens
        PROVE  FM(All, OnlyF(W)[s]) = IF s \in W THEN <<AsTold(s)>> ELSE <<>>
    <3>1. FM(All, <<s>>) = All[s]
      BY <1>2, FMOne
    <3>2. FM(All, <<>>) = <<>>
      BY FMEmpty
    <3>3. OnlyF(W)[s] = IF s \in W THEN <<s>> ELSE <<>>
      BY DEF OnlyF
    <3>4. All[s] = <<AsTold(s)>>
      OBVIOUS
    <3> HIDE DEF All
    <3>5. QED
      BY <3>1, <3>2, <3>3, <3>4
  <2> HIDE DEF All
  <2>2. QED
    BY <2>1 DEF TellF
<1>6. FM(All, o) = told0
  <2> HIDE DEF o
  <2>1. DOMAIN o = 1 .. Len(o) /\ Len(o) \in Nat /\ \A i \in 1 .. Len(o) : o[i] \in Spokens
    BY <1>3, LenProperties, ElementOfSeq
  <2>2. told0 \in [1 .. Len(o) -> Fragments] /\ \A i \in 1 .. Len(o) : told0[i] = AsTold(o[i])
    BY <1>1, <2>1 DEF Map
  <2>3. \A i \in 1 .. Len(o) : All[o[i]] = <<AsTold(o[i])>>
    BY <2>1
  <2> HIDE DEF told0, All
  <2>4. told0 \in Seq(Fragments) /\ DOMAIN told0 = 1 .. Len(o)
    BY <2>1, <2>2, SeqDef
  <2>5. Len(told0) = Len(o)
    BY <2>1, <2>4, LenProperties
  <2>6. \A i \in 1 .. Len(o) : All[o[i]] = <<told0[i]>>
    BY <2>2, <2>3
  <2>7. QED
    BY <1>2, <1>3, <2>4, <2>5, <2>6, FMSingles
<1>7. QED
  BY <1>3, <1>4, <1>5, <1>6

\* A test on what is said, as a set.
LEMMA OnlySpoken ==
    ASSUME NEW sp \in Seq(Spokens)
    PROVE  /\ Only(sp, HandedOn) = FM(OnlyF({s \in Spokens : HandedOn(s)}), sp)
           /\ Only(sp, LAMBDA s : s.by = "system") = FM(OnlyF({s \in Spokens : s.by = "system"}), sp)
<1>1. DOMAIN sp = 1 .. Len(sp) /\ \A i \in DOMAIN sp : sp[i] \in Spokens
  BY LenProperties, ElementOfSeq
<1>2. [i \in DOMAIN sp |-> IF HandedOn(sp[i]) THEN <<sp[i]>> ELSE <<>>]
      = [i \in DOMAIN sp |-> OnlyF({s \in Spokens : HandedOn(s)})[sp[i]]]
  BY <1>1 DEF OnlyF
<1>3. [i \in DOMAIN sp |-> IF sp[i].by = "system" THEN <<sp[i]>> ELSE <<>>]
      = [i \in DOMAIN sp |-> OnlyF({s \in Spokens : s.by = "system"})[sp[i]]]
  BY <1>1 DEF OnlyF
<1>4. QED
  BY <1>2, <1>3 DEF Only, FM

LEMMA TellSingles ==
    ASSUME NEW W, NEW s \in Seq(Spokens), NEW t \in Seq(Fragments), Len(t) = Len(s),
           \A i \in 1 .. Len(s) : TellF(W)[s[i]] = <<t[i]>>
    PROVE  FM(TellF(W), s) = t
<1> DEFINE F == TellF(W)
<1>1. F \in Makers(Spokens, Fragments)
  BY SpokenMakers
<1>2. \A i \in 1 .. Len(s) : F[s[i]] = <<t[i]>>
  OBVIOUS
<1> HIDE DEF F
<1>3. \A p \in Seq(Spokens), q \in Seq(Fragments) :
          Len(q) = Len(p) /\ (\A i \in 1 .. Len(p) : F[p[i]] = <<q[i]>>) => FM(F, p) = q
  BY <1>1, FMSingles
<1>4. FM(F, s) = t
  BY <1>2, <1>3
<1>5. QED
  BY <1>4 DEF F

\* What an answer adds to it, for a set W that has all its words, and either
\* all its calls or none.
LEMMA AnswerSaid ==
    ASSUME NEW a \in Sayings, NEW W, NEW keeps \in BOOLEAN,
           \A f \in Words : Said(f, a.by) \in W,
           \A c \in CallArgs : Said(c, a.by) \in W <=> keeps
    PROVE  /\ SaidIn(a) \in Seq(Spokens)
           /\ FM(TellF(W), SaidIn(a)) = a.text \o (IF keeps THEN ToldArgs(a.calls) ELSE <<>>)
<1> DEFINE x == Map(LAMBDA f : Said(f, a.by), a.text)
           y == Map(LAMBDA c : Said(c.args, a.by), a.calls)
           ta == ToldArgs(a.calls)
           F == TellF(W)
<1>1. a.text \in Seq(Fragments) /\ a.calls \in Seq(Uses) /\ a.by \in Adapters
  BY DEF Sayings, AnswerRecord
<1>2. /\ DOMAIN a.text = 1 .. Len(a.text) /\ Len(a.text) \in Nat
      /\ \A i \in 1 .. Len(a.text) : a.text[i] \in Words
  BY LenProperties, ElementOfSeq DEF Sayings
<1>3. /\ DOMAIN a.calls = 1 .. Len(a.calls) /\ Len(a.calls) \in Nat
      /\ \A i \in 1 .. Len(a.calls) : a.calls[i].args \in CallArgs
  <2> DEFINE Cs == [type : {"tool_use"}, id : Ids, args : CallArgs]
  <2>1. a.calls \in Seq(Cs)
    BY DEF Sayings
  <2>2. \A c \in Cs : c.args \in CallArgs
    OBVIOUS
  <2> HIDE DEF Cs
  <2>3. QED
    BY <2>1, <2>2, LenProperties, ElementOfSeq
<1>4. /\ \A f \in Words : f \in Fragments /\ f[1] = "answer"
      /\ \A c \in CallArgs : c \in Fragments /\ c[1] = "call"
  BY DEF Words, CallArgs, Fragments
<1>5. /\ \A f \in Words : Said(f, a.by) \in Spokens /\ AsTold(Said(f, a.by)) = f
      /\ \A c \in CallArgs : Said(c, a.by) \in Spokens
             /\ AsTold(Said(c, a.by)) = IF client.stream THEN NoArgs ELSE c
  <2>1. \A f \in Fragments : Said(f, a.by) \in Spokens /\ Said(f, a.by).what = f
    BY <1>1 DEF Said, Spokens
  <2>2. QED
    BY <1>4, <2>1 DEF AsTold, IsCall
<1>6. x \in Seq(Spokens) /\ Len(x) = Len(a.text)
      /\ \A i \in 1 .. Len(x) : x[i] = Said(a.text[i], a.by)
  <2>1. x \in [1 .. Len(a.text) -> Spokens]
        /\ \A i \in 1 .. Len(a.text) : x[i] = Said(a.text[i], a.by)
    BY <1>2, <1>5 DEF Map
  <2> HIDE DEF x
  <2>2. x \in Seq(Spokens) /\ DOMAIN x = 1 .. Len(a.text)
    BY <1>2, <2>1, SeqDef
  <2>3. Len(x) = Len(a.text)
    BY <1>2, <2>2, LenProperties
  <2>4. QED
    BY <2>1, <2>2, <2>3
<1>7. y \in Seq(Spokens) /\ Len(y) = Len(a.calls)
      /\ \A i \in 1 .. Len(y) : y[i] = Said(a.calls[i].args, a.by)
  <2>1. y \in [1 .. Len(a.calls) -> Spokens]
        /\ \A i \in 1 .. Len(a.calls) : y[i] = Said(a.calls[i].args, a.by)
    BY <1>3, <1>5 DEF Map
  <2> HIDE DEF y
  <2>2. y \in Seq(Spokens) /\ DOMAIN y = 1 .. Len(a.calls)
    BY <1>3, <2>1, SeqDef
  <2>3. Len(y) = Len(a.calls)
    BY <1>3, <2>2, LenProperties
  <2>4. QED
    BY <2>1, <2>2, <2>3
<1>8. ta \in Seq(Fragments) /\ Len(ta) = Len(a.calls)
      /\ \A i \in 1 .. Len(a.calls) : ta[i] = IF client.stream THEN NoArgs ELSE a.calls[i].args
  <2>1. NoArgs \in Fragments
    BY DEF NoArgs, Fragments
  <2>2. ta \in [1 .. Len(a.calls) -> Fragments]
        /\ \A i \in 1 .. Len(a.calls) : ta[i] = IF client.stream THEN NoArgs ELSE a.calls[i].args
    BY <1>3, <1>4, <2>1 DEF ToldArgs
  <2> HIDE DEF ta
  <2>3. ta \in Seq(Fragments) /\ DOMAIN ta = 1 .. Len(a.calls)
    BY <1>3, <2>2, SeqDef
  <2>4. Len(ta) = Len(a.calls)
    BY <1>3, <2>3, LenProperties
  <2>5. QED
    BY <2>2, <2>3, <2>4
<1> HIDE DEF x, y, ta, F
<1>9. F \in Makers(Spokens, Fragments)
  BY SpokenMakers DEF F
<1>10. FM(F, x) = a.text
  <2>1. \A i \in 1 .. Len(x) : F[x[i]] = <<a.text[i]>>
    BY <1>2, <1>5, <1>6 DEF TellF, F
  <2> DEFINE t == a.text
  <2>2. t \in Seq(Fragments) /\ Len(t) = Len(x) /\ \A i \in 1 .. Len(x) : F[x[i]] = <<t[i]>>
    BY <1>1, <1>6, <2>1
  <2> HIDE DEF t
  <2>3. \A u \in Seq(Spokens), v \in Seq(Fragments) :
            Len(v) = Len(u) /\ (\A i \in 1 .. Len(u) : F[u[i]] = <<v[i]>>) => FM(F, u) = v
    BY <1>9, FMSingles
  <2>4. FM(F, x) = t
    BY <1>6, <2>2, <2>3
  <2>5. QED
    BY <2>4 DEF t
<1>11. CASE keeps
  <2>1. \A i \in 1 .. Len(y) : F[y[i]] = <<ta[i]>>
    BY <1>3, <1>5, <1>7, <1>8, <1>11 DEF TellF, F
  <2>2. FM(F, y) = ta
    <3>1. ta \in Seq(Fragments) /\ y \in Seq(Spokens) /\ Len(ta) = Len(y)
          /\ \A i \in 1 .. Len(y) : F[y[i]] = <<ta[i]>>
      BY <1>7, <1>8, <2>1
    <3>2. QED
      BY <3>1, TellSingles DEF F
  <2>3. FM(F, x \o y) = FM(F, x) \o FM(F, y)
    BY <1>6, <1>7, <1>9, FMSplits
  <2>4. x \o y \in Seq(Spokens)
    BY <1>6, <1>7
  <2>5. QED
    BY <1>10, <1>11, <2>2, <2>3, <2>4 DEF SaidIn, x, y, F, ta
<1>12. CASE ~keeps
  <2>1. \A i \in 1 .. Len(y) : F[y[i]] = <<>>
    BY <1>3, <1>5, <1>7, <1>12 DEF TellF, F
  <2>2. FM(F, y) = <<>>
    BY <1>7, <1>9, <2>1, FMNothing
  <2>3. FM(F, x \o y) = FM(F, x) \o FM(F, y)
    BY <1>6, <1>7, <1>9, FMSplits
  <2>4. x \o y \in Seq(Spokens)
    BY <1>6, <1>7
  <2>5. QED
    BY <1>10, <1>12, <2>2, <2>3, <2>4 DEF SaidIn, x, y, F
<1>13. QED
  BY <1>11, <1>12

LEMMA SayableType ==
    ASSUME turn \in Nat, NEW u \in Adapters, NEW a \in Sayable(u)
    PROVE  a \in Sayings /\ a.by = u
<1> DEFINE w == << <<"answer", turn>> >>
           Cs == [type : {"tool_use"}, id : Ids, args : CallArgs]
<1>1. w \in Seq(Words) /\ <<>> \in Seq(Words) /\ \A t \in Seq(Words) : t \in Seq(Fragments)
  <2>1. <<"answer", turn>> \in Words /\ Words \subseteq Fragments
    BY DEF Words, Fragments
  <2>2. QED
    BY <2>1, EmptySeq, SeqMonotonic
<1>2. CallNo(1) \in Cs /\ CallNo(2) \in Cs
  BY DEF CallNo, ToolUse, Ids, CallArgs
<1>3. Cs \subseteq Uses
  <2>1. CallArgs \subseteq Fragments
    BY DEF CallArgs, Fragments
  <2>2. QED
    BY <2>1 DEF Uses
<1> HIDE DEF w, Cs
<1>4. /\ <<>> \in Seq(Cs) /\ <<CallNo(1)>> \in Seq(Cs) /\ <<CallNo(1), CallNo(2)>> \in Seq(Cs)
      /\ \A c \in Seq(Cs) : c \in Seq(Uses)
  BY <1>2, <1>3, EmptySeq, SeqMonotonic
<1>5. /\ a.by = u /\ a.text \in {w, <<>>} /\ a.why \in {"done", "cut", "calls"}
      /\ a.calls \in {<<>>, <<CallNo(1)>>, <<CallNo(1), CallNo(2)>>}
      /\ u \in Agents => a.calls = <<>>
      /\ a = [by |-> a.by, text |-> a.text, calls |-> a.calls, why |-> a.why]
  BY DEF Sayable, w
<1>6. a \in AnswerRecord
  BY <1>1, <1>4, <1>5 DEF AnswerRecord
<1>7. QED
  BY <1>1, <1>4, <1>5, <1>6 DEF Sayings, Cs

LEMMA KeptTold ==
    ASSUME ClientType, NEW a \in Sayings
    PROVE  /\ Kept(a.by, a) \in Seq(Uses) /\ Streamed(Kept(a.by, a)) \in Seq(Uses)
           /\ Args(Streamed(Kept(a.by, a)))
              = IF a.by \in KeepCalls THEN ToldArgs(a.calls) ELSE <<>>
<1> DEFINE k == Kept(a.by, a)
<1>1. a \in AnswerRecord /\ a.by \in Adapters
  BY DEF Sayings, AnswerRecord
<1>2. k \in Seq(Uses) /\ Args(k) = IF a.by \in KeepCalls THEN Args(a.calls) ELSE <<>>
  BY <1>1, KeptType
<1>3. \A c \in Seq(Uses) : Partials(c) \in Seq(Uses) /\ Args(Partials(c)) = [i \in DOMAIN c |-> NoArgs]
  BY PartialCalls, EmptySeq
<1>4. DOMAIN k = IF a.by \in KeepCalls THEN DOMAIN a.calls ELSE {}
  BY DEF Kept
<1> HIDE DEF k
<1>5. CASE client.stream
  <2>1. Streamed(k) = Partials(k)
    BY <1>5 DEF Streamed
  <2>2. Args(Partials(k)) = [i \in DOMAIN k |-> NoArgs]
    BY <1>2, <1>3
  <2>3. CASE a.by \in KeepCalls
    <3>1. ToldArgs(a.calls) = [i \in DOMAIN a.calls |-> NoArgs]
      BY <1>5 DEF ToldArgs
    <3>2. QED
      BY <1>2, <1>3, <1>4, <2>1, <2>2, <2>3, <3>1 DEF k
  <2>4. CASE a.by \notin KeepCalls
    <3>1. [i \in {} |-> NoArgs] = <<>>
      OBVIOUS
    <3>2. QED
      BY <1>2, <1>3, <1>4, <2>1, <2>2, <2>4, <3>1 DEF k
  <2>5. QED
    BY <2>3, <2>4
<1>6. CASE ~client.stream
  <2>1. Streamed(k) = k /\ ToldArgs(a.calls) = Args(a.calls)
    BY <1>6 DEF Streamed, ToldArgs, Args
  <2>2. QED
    BY <1>2, <2>1 DEF k
<1>7. QED
  BY <1>5, <1>6

LEMMA ToldSays ==
    ASSUME NEW t \in Seq(Fragments), NEW calls \in Seq(Uses)
    PROVE  MessageSays(ToldMessage(t, calls)) = t \o Args(calls)
<1>1. CASE client.format = "openai"
  <2>1. ToldMessage(t, calls) = OAIMessage("assistant", t, calls, NoId)
    BY <1>1 DEF ToldMessage
  <2>2. MessageSays(OAIMessage("assistant", t, calls, NoId)) = t \o FlattenSeq(Map(BlockSays, calls))
    BY DEF MessageSays, OAIMessage
  <2>3. FlattenSeq(Map(BlockSays, calls)) = Args(calls)
    <3>1. <<>> \in Seq(Fragments) /\ TextBlocks(<<>>) = <<>>
      BY EmptySeq DEF TextBlocks
    <3>2. FM(SaysF, TextBlocks(<<>>) \o calls) = <<>> \o Args(calls) /\ Args(calls) \in Seq(Fragments)
      BY <3>1, AnswerBlocks
    <3>3. TextBlocks(<<>>) \o calls = calls /\ <<>> \o Args(calls) = Args(calls)
      BY <3>1, <3>2, ConcatEmptySeq
    <3>4. calls \in Seq(Blocks)
      BY SeqMonotonic DEF Blocks
    <3>5. QED
      BY <3>2, <3>3, <3>4, BlocksByOne
  <2>4. QED
    BY <2>1, <2>2, <2>3
<1>2. CASE client.format # "openai"
  <2> DEFINE s == TextBlocks(t) \o calls
  <2>1. ToldMessage(t, calls) = [role |-> "assistant", content |-> s]
    BY <1>2 DEF ToldMessage
  <2>2. s \in Seq(Blocks) /\ FM(SaysF, s) = t \o Args(calls)
    BY AnswerBlocks
  <2> HIDE DEF s
  <2>3. MessageSays([role |-> "assistant", content |-> s]) = FlattenSeq(Map(BlockSays, s))
    BY DEF MessageSays
  <2>4. QED
    BY <2>1, <2>2, <2>3, BlocksByOne
<1>3. QED
  BY <1>1, <1>2

\* What the client has been told of the answer.
AnswerTold ==
    /\ answer \in Sayings
    /\ told.message = ToldMessage(answer.text, Streamed(Kept(answer.by, answer)))
    /\ told.finish \in {"length", "max_tokens"} <=>
           /\ answer.why = "cut" /\ answer.by \notin {"azure_openai", "cli_headless"}
           /\ ~(client.stream /\ client.format = "anthropic")

LEMMA AnswerToldIsTheAnswer ==
    ASSUME ClientType, AnswerTold
    PROVE  MessageSays(told.message) = Map(AsTold, Only(SaidIn(answer), HandedOn))
<1> DEFINE W == {s \in Spokens : HandedOn(s)}
           keeps == answer.by \in KeepCalls
           k == Streamed(Kept(answer.by, answer))
<1>1. answer \in Sayings /\ told.message = ToldMessage(answer.text, k)
  BY DEF AnswerTold
<1>2. answer.by \in Adapters /\ answer.text \in Seq(Fragments)
  BY <1>1 DEF Sayings, AnswerRecord
<1>3. k \in Seq(Uses) /\ Args(k) = IF keeps THEN ToldArgs(answer.calls) ELSE <<>>
  BY <1>1, KeptTold
<1> HIDE DEF k
<1>4. MessageSays(told.message) = answer.text \o (IF keeps THEN ToldArgs(answer.calls) ELSE <<>>)
  BY <1>1, <1>2, <1>3, ToldSays
<1>5. \A f \in Words : Said(f, answer.by) \in W
  BY <1>2 DEF Said, HandedOn, IsCall, Spokens, Words, Fragments
<1>6. \A c \in CallArgs : Said(c, answer.by) \in W <=> keeps
  BY <1>2 DEF Said, HandedOn, IsCall, Spokens, CallArgs, Fragments
<1> HIDE DEF W, keeps
<1>7. /\ SaidIn(answer) \in Seq(Spokens)
      /\ FM(TellF(W), SaidIn(answer))
         = answer.text \o (IF keeps THEN ToldArgs(answer.calls) ELSE <<>>)
  <2>1. keeps \in BOOLEAN
    BY DEF keeps
  <2>2. QED
    BY <1>1, <1>5, <1>6, <2>1, AnswerSaid
<1>8. Map(AsTold, Only(SaidIn(answer), HandedOn)) = FM(TellF(W), SaidIn(answer))
  BY <1>7, OnlySpoken, TellOnly DEF W
<1>9. QED
  BY <1>4, <1>7, <1>8
-----------------------------------------------------------------------------
(* Type correctness, and what the client is told.                          *)

Told == phase = "client" /\ turn > 0 => AnswerTold
CoreInv == TypeOK /\ ClientType /\ (phase # "client" => turn >= 1) /\ Told

LEMMA NoUpstreamIsNone == "none" \notin Adapters
BY AdapterNames

LEMMA CoreInit == Init => CoreInv
<1>1. Init => faulted \in BOOLEAN
  BY DEF Init
<1>2. QED
  BY <1>1, ConversationAssumption
     DEF ConversationAssumption, Init, CoreInv, TypeOK, ClientType, Told, NoBody

LEMMA AskCore ==
    ASSUME CoreInv, NEW instruct \in BOOLEAN, Ask(instruct)
    PROVE  CoreInv'
<1>1. faulted' \in BOOLEAN
  BY DEF Ask
<1>2. QED
  BY <1>1, ConversationAssumption
     DEF ConversationAssumption, CoreInv, TypeOK, ClientType, Told, Ask

LEMMA ResendCore == CoreInv /\ Resend => CoreInv'
<1>1. Resend => faulted' \in BOOLEAN
  BY DEF Resend
<1>2. QED
  BY <1>1, ConversationAssumption
     DEF ConversationAssumption, CoreInv, TypeOK, ClientType, Told, Resend

LEMMA UnusableCore == CoreInv /\ Unusable => CoreInv'
BY ConversationAssumption, NoUpstreamIsNone
   DEF ConversationAssumption, CoreInv, TypeOK, ClientType, Told, Unusable, AttemptFails, NoBody

LEMMA SendCore ==
    ASSUME CoreInv, NEW u \in Adapters, Send(u)
    PROVE  CoreInv'
BY ConversationAssumption, NoUpstreamIsNone
   DEF ConversationAssumption, CoreInv, TypeOK, ClientType, Told, Send

LEMMA UnansweredCore == CoreInv /\ Unanswered => CoreInv'
BY ConversationAssumption, NoUpstreamIsNone
   DEF ConversationAssumption, CoreInv, TypeOK, ClientType, Told, Unanswered, AttemptFails, NoBody

LEMMA RefusedCore ==
    ASSUME CoreInv, NEW status \in Statuses, Refused(status)
    PROVE  CoreInv'
BY ConversationAssumption, NoUpstreamIsNone
   DEF ConversationAssumption, CoreInv, TypeOK, ClientType, Told, Refused, AttemptFails, NoBody

LEMMA AnswersInEventsCore == CoreInv /\ AnswersInEvents => CoreInv'
BY ConversationAssumption, NoUpstreamIsNone
   DEF ConversationAssumption, CoreInv, TypeOK, ClientType, Told, AnswersInEvents, InEvents,
       AttemptFails, NoBody

\* Whoever is asked is an upstream, and answers in a turn.
LEMMA AskedUpstream ==
    ASSUME CoreInv, phase = "asked"
    PROVE  shown.by \in Adapters /\ turn \in Nat /\ turn >= 1
BY ConversationAssumption DEF ConversationAssumption, CoreInv, TypeOK

LEMMA AnswersCore ==
    ASSUME CoreInv, NEW a \in Sayable(shown.by), Answers(a)
    PROVE  CoreInv'
<1> DEFINE u == shown.by
           resp == Chat(u, request, a).response
<1>1. u \in Adapters /\ turn \in Nat /\ turn >= 1 /\ ClientType
  BY AskedUpstream DEF Answers, CoreInv
<1>2. a \in Sayings /\ a.by = u
  BY <1>1, SayableType
<1>3. a \in AnswerRecord /\ a.text \in Seq(Fragments)
  BY <1>2 DEF Sayings, AnswerRecord
<1>4. /\ resp.content = TextBlocks(a.text) \o Kept(u, a) /\ resp.stop \in Stops
      /\ resp.stop = "max_tokens" <=> a.why = "cut" /\ u \notin {"azure_openai", "cli_headless"}
  BY <1>1, <1>3, ChatResponse
<1>5. Kept(u, a) \in Seq(Uses)
  BY <1>1, <1>3, KeptType
<1>6. /\ told' = Encoded(resp) /\ answer' = a /\ UNCHANGED <<client, turn>>
      /\ phase' = "client" /\ shown' = NoBody /\ attempts' = 0
      /\ charged' \in {charged, charged \union {turn}} /\ faulted' \in BOOLEAN
  BY DEF Answers
<1> HIDE DEF resp
<1>7. /\ Encoded(resp).message = ToldMessage(a.text, Streamed(Kept(u, a)))
      /\ Encoded(resp).finish \in {"length", "max_tokens"} <=>
             resp.stop = "max_tokens" /\ ~(client.stream /\ client.format = "anthropic")
  BY <1>1, <1>3, <1>4, <1>5, ToldAnswer
<1>8. AnswerTold'
  <2>1. told'.message = ToldMessage(a.text, Streamed(Kept(a.by, a)))'
    BY <1>2, <1>6, <1>7 DEF ToldMessage, Streamed
  <2>2. told'.finish \in {"length", "max_tokens"} <=>
            /\ a.why = "cut" /\ a.by \notin {"azure_openai", "cli_headless"}
            /\ ~(client'.stream /\ client'.format = "anthropic")
    BY <1>2, <1>4, <1>6, <1>7
  <2>3. QED
    BY <1>2, <1>6, <2>1, <2>2 DEF AnswerTold
<1>9. ClientType' /\ Told'
  BY <1>1, <1>6, <1>8 DEF ClientType, Told
<1>10. TypeOK'
  BY <1>1, <1>6, ConversationAssumption DEF ConversationAssumption, CoreInv, TypeOK, NoBody
<1>11. QED
  BY <1>6, <1>9, <1>10 DEF CoreInv

LEMMA CoreStutter == CoreInv /\ UNCHANGED vars => CoreInv'
BY DEF CoreInv, TypeOK, ClientType, Told, AnswerTold, ToldMessage, Streamed, vars

LEMMA CoreNext == CoreInv /\ [Next]_vars => CoreInv'
BY AskCore, ResendCore, UnusableCore, SendCore, UnansweredCore, RefusedCore,
   AnswersInEventsCore, AnswersCore, CoreStutter DEF Next

\* TypeOK for every pool of adapters, number of attempts and number of turns:
\* among others, an upstream has been shown a body exactly while it is asked,
\* Router.Dispatch stops at the last upstream, and only a turn that was asked
\* is charged.
THEOREM ConversationTypeOK == Spec => []TypeOK
<1>1. CoreInv => TypeOK
  BY DEF CoreInv
<1>2. QED
  BY CoreInit, CoreNext, <1>1, PTL DEF Spec

\* ClientIsToldTheAnswer for every pool and any number of turns: whichever
\* adapter's upstream answers in one piece, the client is told the answer's text
\* and calls, and its end, in a stream or whole and in either format, but for
\* what the adapter or the stream leaves out.
THEOREM ConversationClientIsToldTheAnswer == Spec => []ClientIsToldTheAnswer
<1>1. CoreInv => ClientIsToldTheAnswer
  <2>1. SUFFICES ASSUME CoreInv, phase = "client", turn > 0
                 PROVE  /\ MessageSays(told.message) = Map(AsTold, Only(SaidIn(answer), HandedOn))
                        /\ told.finish \in {"length", "max_tokens"} <=>
                               /\ answer.why = "cut"
                               /\ answer.by \notin {"azure_openai", "cli_headless"}
                               /\ ~(client.stream /\ client.format = "anthropic")
    BY DEF ClientIsToldTheAnswer, SaidIn
  <2>2. ClientType /\ AnswerTold
    BY <2>1 DEF CoreInv, Told
  <2>3. QED
    BY <2>2, AnswerToldIsTheAnswer DEF AnswerTold
<1>2. QED
  BY CoreInit, CoreNext, <1>1, PTL DEF Spec
-----------------------------------------------------------------------------
(* What an upstream is shown of a request.                                 *)

Roles == {"system", "developer", "user", "tool", "assistant"}
IRMessages == [role : Roles, content : Seq(Blocks)]
OAIMessages == [role : Roles, text : Seq(Fragments), calls : Seq(Uses), answers : Ids]
OAISaysF == [m \in OAIMessages |-> MessageSays(m)]
\* What an upstream of each kind is shown of a message.
View(u, m) ==
    IF u \in OAIShaped THEN MessageSays(denormalizeOAIMessage(m))
    ELSE IF u \in AnthropicShaped THEN MessageSays(m)
    ELSE IF u = "ollama" THEN MessageSays(ollamaMessageFromIR(m))
    ELSE Texts(m.content)
ViewF(u) == [m \in IRMessages |-> View(u, m)]

\* The calls of a message are what they say.
LEMMA CallsSay ==
    ASSUME NEW calls \in Seq(Uses)
    PROVE  FlattenSeq(Map(BlockSays, calls)) = Args(calls) /\ Args(calls) \in Seq(Fragments)
<1>1. <<>> \in Seq(Fragments) /\ TextBlocks(<<>>) = <<>>
  BY EmptySeq DEF TextBlocks
<1>2. FM(SaysF, TextBlocks(<<>>) \o calls) = <<>> \o Args(calls) /\ Args(calls) \in Seq(Fragments)
  BY <1>1, AnswerBlocks
<1>3. TextBlocks(<<>>) \o calls = calls /\ <<>> \o Args(calls) = Args(calls)
  BY <1>1, <1>2, ConcatEmptySeq
<1>4. calls \in Seq(Blocks)
  BY SeqMonotonic DEF Blocks
<1>5. QED
  BY <1>2, <1>3, <1>4, BlocksByOne

LEMMA OAISays ==
    ASSUME NEW m \in OAIMessages
    PROVE  MessageSays(m) = m.text \o Args(m.calls) /\ MessageSays(m) \in Seq(Fragments)
<1>1. m.text \in Seq(Fragments) /\ m.calls \in Seq(Uses)
  BY DEF OAIMessages
<1>2. "content" \notin DOMAIN m
  BY DEF OAIMessages
<1>3. MessageSays(m) = m.text \o FlattenSeq(Map(BlockSays, m.calls))
  BY <1>2 DEF MessageSays
<1> DEFINE t == m.text
           calls == m.calls
<1>4. t \in Seq(Fragments) /\ calls \in Seq(Uses) /\ MessageSays(m) = t \o FlattenSeq(Map(BlockSays, calls))
  BY <1>1, <1>3
<1> HIDE DEF t, calls
<1>5. FlattenSeq(Map(BlockSays, calls)) = Args(calls) /\ Args(calls) \in Seq(Fragments)
  BY <1>4, CallsSay
<1>6. MessageSays(m) = t \o Args(calls) /\ t \o Args(calls) \in Seq(Fragments)
  BY <1>4, <1>5, ConcatProperties
<1>7. QED
  BY <1>6 DEF t, calls

LEMMA IRSays ==
    ASSUME NEW m \in IRMessages
    PROVE  MessageSays(m) = FM(SaysF, m.content) /\ MessageSays(m) \in Seq(Fragments)
<1>1. m.content \in Seq(Blocks) /\ "content" \in DOMAIN m
  BY DEF IRMessages
<1>2. MessageSays(m) = FlattenSeq(Map(BlockSays, m.content))
  BY <1>1 DEF MessageSays
<1>3. FlattenSeq(Map(BlockSays, m.content)) = FM(SaysF, m.content)
  BY <1>1, BlocksByOne
<1>4. \A c \in Seq(Blocks) : FM(SaysF, c) \in Seq(Fragments)
  BY BlockMakers, FMIsSeq
<1>5. QED
  BY <1>1, <1>2, <1>3, <1>4

\* An OpenAI upstream's message of an ir.Message.
LEMMA DenormalizedMessage ==
    ASSUME NEW m \in IRMessages
    PROVE  LET d == denormalizeOAIMessage(m)
               results == FM(ResultF, m.content)
           IN  /\ d \in OAIMessages
               /\ IF m.role = "tool" /\ results # <<>>
                  THEN MessageSays(d) = results[1].content
                  ELSE MessageSays(d) = FM(TextF, m.content) \o Args(FM(UseF, m.content))
<1> DEFINE d == denormalizeOAIMessage(m)
           results == FM(ResultF, m.content)
           calls == FM(UseF, m.content)
           t == FM(TextF, m.content)
<1>1. m.content \in Seq(Blocks) /\ m.role \in Roles
  BY DEF IRMessages
<1>2. /\ Of(m.content, "tool_result") = results /\ Of(m.content, "tool_use") = calls
      /\ Texts(m.content) = t
      /\ results \in Seq(Results) /\ calls \in Seq(Uses) /\ t \in Seq(Fragments)
  <2>1. /\ Of(m.content, "tool_result") = results /\ Of(m.content, "tool_use") = calls
        /\ Texts(m.content) = t
    BY <1>1, BlocksByOne
  <2>2. results \in Seq(Results)
    BY <1>1, BlockMakers, FMIsSeq
  <2>3. calls \in Seq(Uses)
    BY <1>1, BlockMakers, FMIsSeq
  <2>4. t \in Seq(Fragments)
    BY <1>1, BlockMakers, FMIsSeq
  <2>5. QED
    BY <2>1, <2>2, <2>3, <2>4
<1> HIDE DEF results, calls, t
<1>3. <<>> \in Seq(Fragments) /\ <<>> \in Seq(Uses) /\ NoId \in Ids /\ Args(<<>>) = <<>>
  BY EmptySeq DEF NoId, Ids, Args
<1>4. CASE m.role = "tool" /\ results # <<>>
  <2>1. d = [role |-> m.role, text |-> results[1].content, calls |-> <<>>, answers |-> results[1].id]
    BY <1>2, <1>4 DEF denormalizeOAIMessage
  <2>2. results[1] \in Results
    BY <1>2, <1>4
  <2>3. results[1].content \in Seq(Fragments) /\ results[1].id \in Ids
    BY <2>2 DEF Results
  <2> DEFINE r == results[1].content
             id == results[1].id
  <2> HIDE DEF r, id, d
  <2>4. d \in OAIMessages /\ d.text = r /\ d.calls = <<>>
    BY <1>1, <1>3, <2>1, <2>3 DEF OAIMessages, r, id
  <2>5. MessageSays(d) = r
    <3>1. MessageSays(d) = r \o <<>>
      BY <1>3, <2>4, OAISays
    <3>2. r \o <<>> = r
      BY <2>3, ConcatEmptySeq DEF r
    <3>3. QED
      BY <3>1, <3>2
  <2>6. QED
    BY <1>4, <2>4, <2>5 DEF r, d, results
<1>5. CASE ~(m.role = "tool" /\ results # <<>>)
  <2>1. d = [role |-> m.role, text |-> t, answers |-> NoId, calls |-> calls]
    BY <1>2, <1>5 DEF denormalizeOAIMessage
  <2> HIDE DEF d
  <2>2. d \in OAIMessages /\ d.text = t /\ d.calls = calls
    BY <1>1, <1>2, <1>3, <2>1 DEF OAIMessages
  <2>3. MessageSays(d) = t \o Args(calls)
    BY <2>2, OAISays
  <2>4. QED
    BY <1>5, <2>2, <2>3 DEF d, results, t, calls
<1>6. QED
  BY <1>4, <1>5

LEMMA OllamaMessage ==
    ASSUME NEW m \in IRMessages
    PROVE  /\ ollamaMessageFromIR(m) \in OAIMessages
           /\ MessageSays(ollamaMessageFromIR(m))
              = FM(OllamaF, m.content) \o Args(FM(UseF, m.content))
<1> DEFINE d == ollamaMessageFromIR(m)
           calls == FM(UseF, m.content)
           t == FM(OllamaF, m.content)
<1>1. m.content \in Seq(Blocks) /\ m.role \in Roles
  BY DEF IRMessages
<1>2. DOMAIN m.content = 1 .. Len(m.content) /\ \A i \in DOMAIN m.content : m.content[i] \in Blocks
  BY <1>1, LenProperties, ElementOfSeq
<1>3. Of(m.content, "tool_use") = calls
  BY <1>1, BlocksByOne
<1>4. FlattenSeq([i \in DOMAIN m.content |->
                  CASE m.content[i].type = "text" -> m.content[i].text
                    [] m.content[i].type = "tool_result" -> m.content[i].content
                    [] OTHER -> <<>>]) = t
  <2>1. [i \in DOMAIN m.content |->
                  CASE m.content[i].type = "text" -> m.content[i].text
                    [] m.content[i].type = "tool_result" -> m.content[i].content
                    [] OTHER -> <<>>] = [i \in DOMAIN m.content |-> OllamaF[m.content[i]]]
    BY <1>2 DEF OllamaF
  <2>2. QED
    BY <2>1 DEF FM
<1>5. calls \in Seq(Uses)
  BY <1>1, BlockMakers, FMIsSeq
<1>6. t \in Seq(Fragments)
  BY <1>1, BlockMakers, FMIsSeq
<1>7. d = [role |-> m.role, calls |-> calls, answers |-> NoId, text |-> t]
  BY <1>3, <1>4 DEF ollamaMessageFromIR
<1> HIDE DEF d, calls, t
<1>8. d \in OAIMessages /\ d.text = t /\ d.calls = calls
  BY <1>1, <1>5, <1>6, <1>7 DEF OAIMessages, NoId, Ids
<1>9. MessageSays(d) = t \o Args(calls)
  BY <1>8, OAISays
<1>10. QED
  BY <1>8, <1>9 DEF d, calls, t

LEMMA ViewMakers ==
    ASSUME NEW u \in Adapters
    PROVE  /\ ViewF(u) \in Makers(IRMessages, Fragments)
           /\ OAISaysF \in Makers(OAIMessages, Fragments)
<1>1. ASSUME NEW m \in IRMessages PROVE View(u, m) \in Seq(Fragments)
  <2>1. MessageSays(denormalizeOAIMessage(m)) \in Seq(Fragments)
    BY DenormalizedMessage, OAISays
  <2>2. MessageSays(ollamaMessageFromIR(m)) \in Seq(Fragments)
    BY OllamaMessage, OAISays
  <2>3. MessageSays(m) \in Seq(Fragments)
    BY IRSays
  <2>4. Texts(m.content) \in Seq(Fragments)
    <3>1. m.content \in Seq(Blocks)
      BY DEF IRMessages
    <3>2. QED
      BY <3>1, BlocksByOne, BlockMakers, FMIsSeq
  <2>5. QED
    BY <2>1, <2>2, <2>3, <2>4 DEF View
<1>2. \A m \in OAIMessages : MessageSays(m) \in Seq(Fragments)
  BY OAISays
<1>3. QED
  BY <1>1, <1>2 DEF ViewF, OAISaysF, Makers

\* The four kinds of upstreams.
LEMMA Kinds ==
    ASSUME NEW u \in Adapters
    PROVE  \/ u \in OAIShaped /\ u \notin AnthropicShaped \union Agents /\ u # "ollama"
           \/ u \in AnthropicShaped /\ u \notin OAIShaped \union Agents /\ u # "ollama"
           \/ u \in Agents /\ u \notin OAIShaped \union AnthropicShaped /\ u # "ollama"
           \/ u = "ollama" /\ u \notin OAIShaped \union AnthropicShaped \union Agents
BY AdapterNames DEF OAIShaped, AnthropicShaped, Agents

\* What each kind is shown of a message, by its blocks.
LEMMA Views ==
    ASSUME NEW u \in Adapters, NEW m \in IRMessages
    PROVE  LET t == FM(TextF, m.content)
               calls == FM(UseF, m.content)
               results == FM(ResultF, m.content)
           IN  /\ u \in OAIShaped /\ m.role = "tool" /\ results # <<>>
                      => ViewF(u)[m] = results[1].content
               /\ u \in OAIShaped /\ ~(m.role = "tool" /\ results # <<>>)
                      => ViewF(u)[m] = t \o Args(calls)
               /\ u \in AnthropicShaped => ViewF(u)[m] = FM(SaysF, m.content)
               /\ u = "ollama" => ViewF(u)[m] = FM(OllamaF, m.content) \o Args(calls)
               /\ u \in Agents => ViewF(u)[m] = t
<1>1. ViewF(u)[m] = View(u, m)
  BY DEF ViewF
<1>2. m.content \in Seq(Blocks)
  BY DEF IRMessages
<1>3. CASE u \in OAIShaped
  <2>1. ViewF(u)[m] = MessageSays(denormalizeOAIMessage(m))
    BY <1>1, <1>3 DEF View
  <2>2. QED
    BY <1>3, <2>1, Kinds, DenormalizedMessage
<1>4. CASE u \in AnthropicShaped
  <2>1. ViewF(u)[m] = MessageSays(m)
    BY <1>1, <1>4, Kinds DEF View
  <2>2. QED
    BY <1>4, <2>1, Kinds, IRSays
<1>5. CASE u = "ollama"
  <2>1. ViewF(u)[m] = MessageSays(ollamaMessageFromIR(m))
    BY <1>1, <1>5, Kinds DEF View
  <2>2. QED
    BY <1>5, <2>1, Kinds, OllamaMessage
<1>6. CASE u \in Agents
  <2>1. ViewF(u)[m] = Texts(m.content)
    BY <1>1, <1>6, Kinds DEF View
  <2>2. QED
    BY <1>2, <1>6, <2>1, Kinds, BlocksByOne
<1>7. QED
  BY <1>3, <1>4, <1>5, <1>6, Kinds

\* The system prompt as a message, if there is one.
Heading(f) == IF f = <<>> THEN <<>> ELSE <<SystemMessage(f)>>

LEMMA HeadingSays ==
    ASSUME NEW f \in Seq(Fragments)
    PROVE  Heading(f) \in Seq(OAIMessages) /\ FM(OAISaysF, Heading(f)) = f
<1>1. CASE f = <<>>
  BY <1>1, EmptySeq, FMEmpty DEF Heading
<1>2. CASE f # <<>>
  <2> DEFINE m == SystemMessage(f)
  <2>1. <<>> \in Seq(Uses) /\ NoId \in Ids /\ Args(<<>>) = <<>>
    BY EmptySeq DEF NoId, Ids, Args
  <2>2. m \in OAIMessages /\ m.text = f /\ m.calls = <<>>
    BY <2>1 DEF SystemMessage, OAIMessage, OAIMessages, Roles
  <2>3. Heading(f) = <<m>>
    BY <1>2 DEF Heading
  <2> HIDE DEF m
  <2>4. MessageSays(m) = f \o <<>>
    BY <2>1, <2>2, OAISays
  <2>5. f \o <<>> = f
    BY ConcatEmptySeq
  <2>6. OAISaysF[m] = f
    BY <2>2, <2>4, <2>5 DEF OAISaysF
  <2>7. OAISaysF \in Makers(OAIMessages, Fragments)
    BY <2>2, <2>6, OAISays DEF OAISaysF, Makers
  <2>8. FM(OAISaysF, <<m>>) = OAISaysF[m]
    BY <2>2, <2>7, FMOne
  <2>9. QED
    BY <2>2, <2>3, <2>6, <2>8
<1>3. QED
  BY <1>1, <1>2

IRRequests == [model : {"alias"}, stream : {client.stream}, system : Seq(Fragments),
               messages : Seq(IRMessages)]

\* The messages of an adapter's own format say what its upstream is to be shown.
LEMMA OwnMessages ==
    ASSUME NEW u \in Adapters, NEW s \in Seq(IRMessages), NEW own \in [DOMAIN s -> OAIMessages],
           \A i \in DOMAIN s : MessageSays(own[i]) = View(u, s[i])
    PROVE  own \in Seq(OAIMessages) /\ FM(OAISaysF, own) = FM(ViewF(u), s)
<1>1. DOMAIN s = 1 .. Len(s) /\ Len(s) \in Nat /\ \A i \in DOMAIN s : s[i] \in IRMessages
  BY LenProperties, ElementOfSeq
<1>2. own \in Seq(OAIMessages)
  BY <1>1, SeqDef
<1>3. \A i \in DOMAIN s : OAISaysF[own[i]] = ViewF(u)[s[i]]
  BY <1>1 DEF OAISaysF, ViewF
<1>4. DOMAIN own = DOMAIN s
  OBVIOUS
<1>5. [i \in DOMAIN own |-> OAISaysF[own[i]]] = [i \in DOMAIN s |-> ViewF(u)[s[i]]]
  BY <1>3, <1>4
<1>6. QED
  BY <1>2, <1>5 DEF FM

\* What a body in the OpenAI format, or ollama's, says.
LEMMA OwnBodySays ==
    ASSUME NEW u \in Adapters, NEW req \in IRRequests, NEW body, NEW own,
           own \in [DOMAIN req.messages -> OAIMessages],
           \A i \in DOMAIN req.messages : MessageSays(own[i]) = View(u, req.messages[i]),
           body.messages = Heading(req.system) \o own, "system" \notin DOMAIN body
    PROVE  BodySays(body) = req.system \o FM(ViewF(u), req.messages)
<1> DEFINE f == req.system
           s == req.messages
           all == Heading(f) \o own
           view == FM(ViewF(u), s)
<1>1. f \in Seq(Fragments) /\ s \in Seq(IRMessages)
  BY DEF IRRequests
<1>2. own \in Seq(OAIMessages) /\ FM(OAISaysF, own) = view
  BY <1>1, OwnMessages
<1>3. Heading(f) \in Seq(OAIMessages) /\ FM(OAISaysF, Heading(f)) = f
  BY <1>1, HeadingSays
<1>4. view \in Seq(Fragments)
  BY <1>1, ViewMakers, FMIsSeq
<1>5. body.messages = all
  OBVIOUS
<1> HIDE DEF f, s, view
<1>6. all \in Seq(OAIMessages) /\ FM(OAISaysF, all) = f \o view
  <2>1. OAISaysF \in Makers(OAIMessages, Fragments)
    BY ViewMakers
  <2>2. \A p, q \in Seq(OAIMessages) : FM(OAISaysF, p \o q) = FM(OAISaysF, p) \o FM(OAISaysF, q)
    BY <2>1, FMSplits
  <2>3. FM(OAISaysF, Heading(f) \o own) = FM(OAISaysF, Heading(f)) \o FM(OAISaysF, own)
    BY <1>2, <1>3, <2>2
  <2>4. Heading(f) \o own \in Seq(OAIMessages)
    BY <1>2, <1>3, ConcatProperties
  <2>5. QED
    BY <1>2, <1>3, <2>3, <2>4
<1> HIDE DEF all
<1>7. FlattenSeq(Map(MessageSays, all)) = FM(OAISaysF, all)
  <2>1. \A i \in DOMAIN all : OAISaysF[all[i]] = MessageSays(all[i])
    BY <1>6, LenProperties, ElementOfSeq DEF OAISaysF
  <2>2. Map(MessageSays, all) = [i \in DOMAIN all |-> OAISaysF[all[i]]]
    BY <2>1 DEF Map
  <2>3. QED
    BY <2>2 DEF FM
<1>8. BodySays(body) = <<>> \o (f \o view)
  BY <1>5, <1>6, <1>7 DEF BodySays
<1>9. f \o view \in Seq(Fragments)
  BY <1>1, <1>4 DEF f
<1>10. <<>> \o (f \o view) = f \o view
  BY <1>9, ConcatEmptySeq
<1>11. QED
  BY <1>8, <1>10 DEF f, view, s

LEMMA AnthropicBodySays ==
    ASSUME NEW u \in Adapters, u \in AnthropicShaped, NEW req \in IRRequests, NEW body,
           "system" \in DOMAIN body, body.system = req.system, body.messages = req.messages
    PROVE  BodySays(body) = req.system \o FM(ViewF(u), req.messages)
<1> DEFINE s == req.messages
<1>1. s \in Seq(IRMessages)
  BY DEF IRRequests
<1>2. \A i \in DOMAIN s : ViewF(u)[s[i]] = MessageSays(s[i])
  BY <1>1, LenProperties, ElementOfSeq, Kinds DEF ViewF, View
<1> HIDE DEF s
<1>3. Map(MessageSays, s) = [i \in DOMAIN s |-> ViewF(u)[s[i]]]
  BY <1>2 DEF Map
<1>4. FlattenSeq(Map(MessageSays, s)) = FM(ViewF(u), s)
  BY <1>3 DEF FM
<1>5. QED
  BY <1>4 DEF BodySays, s

LEMMA AgentBody ==
    ASSUME NEW u \in Adapters, u \in Agents, NEW req \in IRRequests
    PROVE  promptText(req) = req.system \o FM(ViewF(u), req.messages)
<1> DEFINE s == req.messages
<1>1. s \in Seq(IRMessages)
  BY DEF IRRequests
<1>2. \A i \in DOMAIN s : ViewF(u)[s[i]] = Texts(s[i].content)
  BY <1>1, LenProperties, ElementOfSeq, Kinds DEF ViewF, View
<1> HIDE DEF s
<1>3. Map(LAMBDA m : Texts(m.content), s) = [i \in DOMAIN s |-> ViewF(u)[s[i]]]
  BY <1>2 DEF Map
<1>4. FlattenSeq(Map(LAMBDA m : Texts(m.content), s)) = FM(ViewF(u), s)
  BY <1>3 DEF FM
<1>5. QED
  BY <1>4 DEF promptText, s

LEMMA ConfiguredRequest ==
    ASSUME NEW u \in Adapters, NEW req \in IRRequests
    PROVE  LET r == Configured(u, req)
           IN  r.system = req.system /\ r.messages = req.messages /\ r.model \in {u, "alias"}
BY DEF Configured, IRRequests

LEMMA OpenAIBody ==
    ASSUME NEW u \in Adapters, u \in OAIShaped, NEW req \in IRRequests
    PROVE  LET body == DenormalizeOAIRequest(Configured(u, req))
           IN  /\ BodySays(body) = req.system \o FM(ViewF(u), req.messages)
               /\ body.model \in {u, "alias"}
<1> DEFINE r == Configured(u, req)
           body == DenormalizeOAIRequest(r)
           own == Map(denormalizeOAIMessage, req.messages)
<1>1. r.system = req.system /\ r.messages = req.messages /\ r.model \in {u, "alias"}
  BY ConfiguredRequest
<1>2. \A i \in DOMAIN req.messages : req.messages[i] \in IRMessages
  BY LenProperties, ElementOfSeq DEF IRRequests
<1> HIDE DEF r
<1>3. body = [model |-> r.model, stream |-> r.stream, messages |-> Heading(req.system) \o own]
  BY <1>1 DEF DenormalizeOAIRequest, Heading
<1>4. own \in [DOMAIN req.messages -> OAIMessages]
  BY <1>2, DenormalizedMessage DEF Map
<1>5. \A i \in DOMAIN req.messages : MessageSays(own[i]) = View(u, req.messages[i])
  BY DEF Map, View
<1> HIDE DEF body, own
<1>6. body.messages = Heading(req.system) \o own /\ "system" \notin DOMAIN body
      /\ body.model = r.model
  BY <1>3
<1>7. BodySays(body) = req.system \o FM(ViewF(u), req.messages)
  BY <1>4, <1>5, <1>6, OwnBodySays
<1>8. QED
  BY <1>1, <1>6, <1>7 DEF body, r

LEMMA OllamaBody ==
    ASSUME "ollama" \in Adapters, NEW req \in IRRequests
    PROVE  LET body == marshalOllamaRequest(Configured("ollama", req))
           IN  /\ BodySays(body) = req.system \o FM(ViewF("ollama"), req.messages)
               /\ body.model \in {"ollama", "alias"}
<1> DEFINE r == Configured("ollama", req)
           body == marshalOllamaRequest(r)
           own == Map(ollamaMessageFromIR, req.messages)
<1>1. r.system = req.system /\ r.messages = req.messages /\ r.model \in {"ollama", "alias"}
  BY ConfiguredRequest
<1>2. \A i \in DOMAIN req.messages : req.messages[i] \in IRMessages
  BY LenProperties, ElementOfSeq DEF IRRequests
<1> HIDE DEF r
<1>3. body = [model |-> r.model, stream |-> FALSE, messages |-> Heading(req.system) \o own]
  BY <1>1 DEF marshalOllamaRequest, Heading
<1>4. own \in [DOMAIN req.messages -> OAIMessages]
  BY <1>2, OllamaMessage DEF Map
<1>5. \A i \in DOMAIN req.messages : MessageSays(own[i]) = View("ollama", req.messages[i])
  BY Kinds DEF Map, View
<1> HIDE DEF body, own
<1>6. body.messages = Heading(req.system) \o own /\ "system" \notin DOMAIN body
      /\ body.model = r.model
  BY <1>3
<1>7. BodySays(body) = req.system \o FM(ViewF("ollama"), req.messages)
  BY <1>4, <1>5, <1>6, OwnBodySays
<1>8. QED
  BY <1>1, <1>6, <1>7 DEF body, r

LEMMA AnthropicBody ==
    ASSUME NEW u \in Adapters, u \in AnthropicShaped, NEW req \in IRRequests
    PROVE  LET body == DenormalizeAnthropicRequest(Configured(u, req))
           IN  /\ BodySays(body) = req.system \o FM(ViewF(u), req.messages)
               /\ body.model \in {u, "alias"}
<1> DEFINE r == Configured(u, req)
           body == DenormalizeAnthropicRequest(r)
<1>1. r.system = req.system /\ r.messages = req.messages /\ r.model \in {u, "alias"}
  BY ConfiguredRequest
<1> HIDE DEF r
<1>2. /\ "system" \in DOMAIN body /\ body.system = req.system /\ body.messages = req.messages
      /\ body.model = r.model
  BY <1>1 DEF DenormalizeAnthropicRequest
<1> HIDE DEF body
<1>3. BodySays(body) = req.system \o FM(ViewF(u), req.messages)
  BY <1>2, AnthropicBodySays
<1>4. QED
  BY <1>1, <1>2, <1>3 DEF body, r

\* Every upstream is shown the system prompt and the messages, as its kind
\* is shown a message, in their order.
LEMMA UpstreamBody ==
    ASSUME NEW u \in Adapters, NEW req \in IRRequests, NEW a
    PROVE  LET body == Chat(u, req, a).body
           IN  IF u \in Agents THEN body = req.system \o FM(ViewF(u), req.messages)
               ELSE /\ BodySays(body) = req.system \o FM(ViewF(u), req.messages)
                    /\ body.model \in {u, "alias"}
<1> DEFINE body == Chat(u, req, a).body
           r == Configured(u, req)
<1>1. CASE u \in OAIShaped
  <2>1. body = DenormalizeOAIRequest(r)
    BY <1>1 DEF OAIShaped, Chat, OpenAIChat, AzureChat, OAuthChat, WebChat
  <2>2. u \notin Agents
    BY <1>1, Kinds
  <2> HIDE DEF body, r
  <2>3. QED
    BY <1>1, <2>1, <2>2, OpenAIBody DEF body, r
<1>2. CASE u \in AnthropicShaped
  <2>1. body = DenormalizeAnthropicRequest(r)
    BY <1>2 DEF AnthropicShaped, Chat, AnthropicChat, BedrockChat, VertexChat, OAuthChat, WebChat
  <2>2. u \notin Agents
    BY <1>2, Kinds
  <2> HIDE DEF body, r
  <2>3. QED
    BY <1>2, <2>1, <2>2, AnthropicBody DEF body, r
<1>3. CASE u = "ollama"
  <2>1. body = marshalOllamaRequest(r)
    BY <1>3 DEF Chat, OllamaChat
  <2>2. u \notin Agents
    BY <1>3, Kinds
  <2> HIDE DEF body, r
  <2>3. QED
    BY <1>3, <2>1, <2>2, OllamaBody DEF body, r
<1>4. CASE u \in Agents
  <2>1. body = promptText(r)
    BY <1>4 DEF Agents, Chat, AcpChat, chatHeadless
  <2>2. r.system = req.system /\ r.messages = req.messages
    BY ConfiguredRequest
  <2>3. promptText(r) = promptText(req)
    BY <2>2 DEF promptText
  <2> HIDE DEF body, r
  <2>4. QED
    BY <1>4, <2>1, <2>3, AgentBody DEF body
<1>5. QED
  BY <1>1, <1>2, <1>3, <1>4, Kinds
-----------------------------------------------------------------------------
(* The client's messages, normalised.                                      *)

\* What is left of an OpenAI message as an instruction, and as a message to
\* an upstream.
OrderF == [m \in OAIMessages |-> IF IsSystem(m) THEN m.text ELSE <<>>]
SeenF(u) == [m \in OAIMessages |-> IF IsSystem(m) THEN <<>> ELSE View(u, NormalizeOAIMessage(m))]
NormF == [m \in OAIMessages |-> IF IsSystem(m) THEN <<>> ELSE <<NormalizeOAIMessage(m)>>]

LEMMA NormalizedMessage ==
    ASSUME NEW m \in OAIMessages
    PROVE  /\ NormalizeOAIMessage(m) \in IRMessages
           /\ NormalizeOAIMessage(m).role = m.role
           /\ NormalizeOAIMessage(m).content =
                  IF m.role = "tool" THEN <<ToolResult(m.answers, m.text)>>
                  ELSE TextBlocks(m.text) \o m.calls
<1> DEFINE f == m.text
           calls == m.calls
           same == Map(LAMBDA c : ToolUse(c.id, c.args), calls)
           n == NormalizeOAIMessage(m)
           result == ToolResult(m.answers, f)
<1>1. f \in Seq(Fragments) /\ calls \in Seq(Uses) /\ m.answers \in Ids /\ m.role \in Roles
  BY DEF OAIMessages
<1>2. same = calls
  <2>1. DOMAIN calls = 1 .. Len(calls) /\ Len(calls) \in Nat
        /\ \A i \in 1 .. Len(calls) : calls[i] \in Uses
    BY <1>1, LenProperties, ElementOfSeq
  <2>2. \A c \in Uses : ToolUse(c.id, c.args) = c
    BY DEF Uses, ToolUse
  <2>3. calls \in [1 .. Len(calls) -> Uses]
    BY <1>1, <2>1, SeqDef
  <2> HIDE DEF calls
  <2>4. same = [i \in DOMAIN calls |-> calls[i]]
    BY <2>1, <2>2 DEF Map
  <2>5. QED
    BY <2>1, <2>3, <2>4
<1>3. Texts(TextBlocks(f)) = f /\ TextBlocks(f) \in Seq(Blocks)
  <2>1. <<>> \in Seq(Uses)
    BY EmptySeq
  <2>2. TextBlocks(f) \o <<>> \in Seq(Blocks) /\ FM(TextF, TextBlocks(f) \o <<>>) = f
    BY <1>1, <2>1, AnswerBlocks
  <2>3. TextBlocks(f) \o <<>> = TextBlocks(f)
    BY DEF TextBlocks
  <2>4. QED
    BY <2>2, <2>3, BlocksByOne
<1>4. TextBlocks(f) \o calls \in Seq(Blocks)
  BY <1>1, AnswerBlocks
<1>5. <<result>> \in Seq(Blocks)
  BY <1>1 DEF ToolResult, Blocks, Results
<1> HIDE DEF f, calls, same, result
<1>6. n = [role |-> m.role, content |-> IF m.role = "tool" THEN <<result>>
                                        ELSE TextBlocks(f) \o calls]
  BY <1>2, <1>3 DEF NormalizeOAIMessage, f, calls, same, result
<1> HIDE DEF n
<1>7. n \in IRMessages /\ n.role = m.role
      /\ n.content = IF m.role = "tool" THEN <<result>> ELSE TextBlocks(f) \o calls
  BY <1>1, <1>4, <1>5, <1>6 DEF IRMessages
<1>8. QED
  BY <1>7 DEF n, result, f, calls

LEMMA NormMakers ==
    /\ OrderF \in Makers(OAIMessages, Fragments)
    /\ NormF \in Makers(OAIMessages, IRMessages)
    /\ \A u \in Adapters : SeenF(u) \in Makers(OAIMessages, Fragments)
<1>1. <<>> \in Seq(Fragments) /\ <<>> \in Seq(IRMessages)
  BY EmptySeq
<1>2. \A m \in OAIMessages : m.text \in Seq(Fragments)
  BY DEF OAIMessages
<1>3. \A m \in OAIMessages : NormalizeOAIMessage(m) \in IRMessages
  BY NormalizedMessage
<1>4. \A u \in Adapters, n \in IRMessages : View(u, n) \in Seq(Fragments)
  <2>1. \A u \in Adapters, n \in IRMessages : ViewF(u)[n] \in Seq(Fragments)
    BY ViewMakers, MakersType
  <2>2. \A u \in Adapters, n \in IRMessages : ViewF(u)[n] = View(u, n)
    BY DEF ViewF
  <2>3. QED
    BY <2>1, <2>2
<1>5. \A m \in OAIMessages : <<NormalizeOAIMessage(m)>> \in Seq(IRMessages)
  BY <1>3
<1>6. OrderF \in Makers(OAIMessages, Fragments)
  BY <1>1, <1>2 DEF OrderF, Makers
<1>7. NormF \in Makers(OAIMessages, IRMessages)
  BY <1>1, <1>5 DEF NormF, Makers
<1>8. \A u \in Adapters : SeenF(u) \in Makers(OAIMessages, Fragments)
  BY <1>1, <1>3, <1>4 DEF SeenF, Makers
<1>9. QED
  BY <1>6, <1>7, <1>8

\* The system prompt of a request of the OpenAI format.
LEMMA SystemByOne ==
    ASSUME NEW w \in Seq(OAIMessages)
    PROVE  FlattenSeq(Map(LAMBDA m : m.text, Only(w, IsSystem))) = FM(OrderF, w)
<1> DEFINE SysF == [m \in OAIMessages |-> IF IsSystem(m) THEN <<m>> ELSE <<>>]
           TextOf == [m \in OAIMessages |-> m.text]
           o == FM(SysF, w)
<1>1. \A i \in DOMAIN w : w[i] \in OAIMessages
  BY LenProperties, ElementOfSeq
<1>2. Only(w, IsSystem) = o
  <2>1. [i \in DOMAIN w |-> IF IsSystem(w[i]) THEN <<w[i]>> ELSE <<>>] = [i \in DOMAIN w |-> SysF[w[i]]]
    BY <1>1
  <2>2. QED
    BY <2>1 DEF Only, FM
<1>3. SysF \in Makers(OAIMessages, OAIMessages)
  <2>1. \A m \in OAIMessages : (IF IsSystem(m) THEN <<m>> ELSE <<>>) \in Seq(OAIMessages)
    BY EmptySeq
  <2>2. QED
    BY <2>1 DEF Makers
<1>4. TextOf \in Makers(OAIMessages, Fragments)
  BY DEF Makers, OAIMessages
<1>5. \A m \in OAIMessages : FM(TextOf, SysF[m]) = OrderF[m]
  <2>1. ASSUME NEW m \in OAIMessages PROVE FM(TextOf, SysF[m]) = OrderF[m]
    <3>1. FM(TextOf, <<m>>) = TextOf[m]
      BY <1>4, FMOne
    <3>2. FM(TextOf, <<>>) = <<>>
      BY FMEmpty
    <3>3. SysF[m] = IF IsSystem(m) THEN <<m>> ELSE <<>>
      OBVIOUS
    <3>4. OrderF[m] = IF IsSystem(m) THEN TextOf[m] ELSE <<>>
      BY DEF OrderF
    <3> HIDE DEF SysF, TextOf
    <3>5. QED
      BY <3>1, <3>2, <3>3, <3>4
  <2>2. QED
    BY <2>1
<1>6. \A m \in OAIMessages : TextOf[m] = m.text
  OBVIOUS
<1> HIDE DEF SysF, TextOf
<1>7. o \in Seq(OAIMessages)
  BY <1>3, FMIsSeq
<1>8. FM(TextOf, o) = FM([m \in OAIMessages |-> FM(TextOf, SysF[m])], w)
  BY <1>3, <1>4, FMThen
<1>9. [m \in OAIMessages |-> FM(TextOf, SysF[m])] = OrderF
  BY <1>5 DEF OrderF
<1> HIDE DEF o
<1>10. FlattenSeq(Map(LAMBDA m : m.text, o)) = FM(TextOf, o)
  <2>1. \A i \in DOMAIN o : TextOf[o[i]] = o[i].text
    BY <1>6, <1>7, LenProperties, ElementOfSeq
  <2>2. Map(LAMBDA m : m.text, o) = [i \in DOMAIN o |-> TextOf[o[i]]]
    BY <2>1 DEF Map
  <2>3. QED
    BY <2>2 DEF FM
<1>11. QED
  BY <1>2, <1>8, <1>9, <1>10

\* The messages of a request of the OpenAI format, and what is shown of them.
LEMMA MessagesByOne ==
    ASSUME NEW w \in Seq(OAIMessages)
    PROVE  Map(NormalizeOAIMessage, Only(w, LAMBDA m : ~IsSystem(m))) = FM(NormF, w)
<1> DEFINE PlainF == [m \in OAIMessages |-> IF ~IsSystem(m) THEN <<m>> ELSE <<>>]
           OneF == [m \in OAIMessages |-> <<NormalizeOAIMessage(m)>>]
           o == FM(PlainF, w)
           n == Map(NormalizeOAIMessage, o)
<1>1. \A i \in DOMAIN w : w[i] \in OAIMessages
  BY LenProperties, ElementOfSeq
<1>2. Only(w, LAMBDA m : ~IsSystem(m)) = o
  <2>1. [i \in DOMAIN w |-> IF ~IsSystem(w[i]) THEN <<w[i]>> ELSE <<>>]
        = [i \in DOMAIN w |-> PlainF[w[i]]]
    BY <1>1
  <2>2. QED
    BY <2>1 DEF Only, FM
<1>3. PlainF \in Makers(OAIMessages, OAIMessages)
  <2>1. \A m \in OAIMessages : (IF ~IsSystem(m) THEN <<m>> ELSE <<>>) \in Seq(OAIMessages)
    BY EmptySeq
  <2>2. QED
    BY <2>1 DEF Makers
<1>4. OneF \in Makers(OAIMessages, IRMessages)
  <2>1. \A m \in OAIMessages : NormalizeOAIMessage(m) \in IRMessages
    BY NormalizedMessage
  <2>2. \A m \in OAIMessages : <<NormalizeOAIMessage(m)>> \in Seq(IRMessages)
    BY <2>1
  <2>3. QED
    BY <2>2 DEF Makers
<1>5. \A m \in OAIMessages : FM(OneF, PlainF[m]) = NormF[m]
  <2>1. ASSUME NEW m \in OAIMessages PROVE FM(OneF, PlainF[m]) = NormF[m]
    <3>1. FM(OneF, <<m>>) = OneF[m]
      BY <1>4, FMOne
    <3>2. FM(OneF, <<>>) = <<>>
      BY FMEmpty
    <3>3. PlainF[m] = IF IsSystem(m) THEN <<>> ELSE <<m>>
      OBVIOUS
    <3>4. NormF[m] = IF IsSystem(m) THEN <<>> ELSE OneF[m]
      BY DEF NormF
    <3> HIDE DEF PlainF, OneF
    <3>5. QED
      BY <3>1, <3>2, <3>3, <3>4
  <2>2. QED
    BY <2>1
<1>6. \A m \in OAIMessages : OneF[m] = <<NormalizeOAIMessage(m)>>
  OBVIOUS
<1> HIDE DEF PlainF, OneF
<1>7. o \in Seq(OAIMessages)
  BY <1>3, FMIsSeq
<1>8. FM(OneF, o) = FM([m \in OAIMessages |-> FM(OneF, PlainF[m])], w)
  BY <1>3, <1>4, FMThen
<1>9. [m \in OAIMessages |-> FM(OneF, PlainF[m])] = NormF
  BY <1>5 DEF NormF
<1> HIDE DEF o
<1>10. FM(OneF, o) = n
  <2>1. DOMAIN o = 1 .. Len(o) /\ Len(o) \in Nat /\ \A i \in 1 .. Len(o) : o[i] \in OAIMessages
    BY <1>7, LenProperties, ElementOfSeq
  <2>2. n \in [1 .. Len(o) -> IRMessages] /\ \A i \in 1 .. Len(o) : n[i] = NormalizeOAIMessage(o[i])
    BY <2>1, NormalizedMessage DEF Map
  <2> HIDE DEF n
  <2>3. n \in Seq(IRMessages) /\ DOMAIN n = 1 .. Len(o)
    BY <2>1, <2>2, SeqDef
  <2>4. Len(n) = Len(o)
    BY <2>1, <2>3, LenProperties
  <2>5. \A i \in 1 .. Len(o) : OneF[o[i]] = <<n[i]>>
    BY <1>6, <2>1, <2>2
  <2>6. \A u \in Seq(OAIMessages), v \in Seq(IRMessages) :
            Len(v) = Len(u) /\ (\A i \in 1 .. Len(u) : OneF[u[i]] = <<v[i]>>) => FM(OneF, u) = v
    BY <1>4, FMSingles
  <2>7. QED
    BY <1>7, <2>3, <2>4, <2>5, <2>6
<1>11. n = FM(NormF, w)
  BY <1>8, <1>9, <1>10
<1>12. QED
  BY <1>2, <1>11 DEF n

LEMMA SeenByOne ==
    ASSUME NEW u \in Adapters, NEW w \in Seq(OAIMessages)
    PROVE  FM(NormF, w) \in Seq(IRMessages) /\ FM(ViewF(u), FM(NormF, w)) = FM(SeenF(u), w)
<1> DEFINE F == ViewF(u)
<1>1. F \in Makers(IRMessages, Fragments)
  BY ViewMakers
<1>2. ASSUME NEW m \in OAIMessages PROVE FM(F, NormF[m]) = SeenF(u)[m]
  <2>1. NormalizeOAIMessage(m) \in IRMessages
    BY NormalizedMessage
  <2>2. F[NormalizeOAIMessage(m)] = View(u, NormalizeOAIMessage(m))
    BY <2>1 DEF ViewF
  <2> HIDE DEF F
  <2>3. FM(F, <<NormalizeOAIMessage(m)>>) = F[NormalizeOAIMessage(m)]
    BY <1>1, <2>1, FMOne
  <2>4. FM(F, <<>>) = <<>>
    BY FMEmpty
  <2>5. NormF[m] = IF IsSystem(m) THEN <<>> ELSE <<NormalizeOAIMessage(m)>>
    BY DEF NormF
  <2>6. SeenF(u)[m] = IF IsSystem(m) THEN <<>> ELSE View(u, NormalizeOAIMessage(m))
    BY DEF SeenF
  <2>7. QED
    BY <2>2, <2>3, <2>4, <2>5, <2>6
<1> HIDE DEF F
<1>3. FM(F, FM(NormF, w)) = FM([m \in OAIMessages |-> FM(F, NormF[m])], w)
  BY <1>1, NormMakers, FMThen
<1>4. [m \in OAIMessages |-> FM(F, NormF[m])] = SeenF(u)
  BY <1>2 DEF SeenF
<1>5. FM(NormF, w) \in Seq(IRMessages)
  BY NormMakers, FMIsSeq
<1>6. QED
  BY <1>3, <1>4, <1>5 DEF F

\* A request of the Anthropic format is what the client sends.
LEMMA AnthropicAsSent ==
    ASSUME NEW p, NEW h \in Seq(IRMessages)
    PROVE  NormalizeAnthropicRequest([system |-> p, messages |-> h])
           = [model |-> "alias", stream |-> client.stream, system |-> p, messages |-> h]
<1> DEFINE KeepF == [b \in Blocks |-> <<b>>]
           same == Map(LAMBDA m : [m EXCEPT !.content = normalizeAnthropicContent(@)], h)
<1>1. ASSUME NEW c \in Seq(Blocks) PROVE normalizeAnthropicContent(c) = c
  <2>1. DOMAIN c = 1 .. Len(c) /\ \A i \in DOMAIN c : c[i] \in Blocks
    BY LenProperties, ElementOfSeq
  <2>2. \A b \in Blocks : b.type \in {"text", "tool_use", "tool_result"} /\ KeepF[b] = <<b>>
    BY DEF Blocks, TextBlock, Uses, Results
  <2>3. KeepF \in Makers(Blocks, Blocks)
    BY DEF Makers
  <2> HIDE DEF KeepF
  <2>4. [i \in DOMAIN c |-> IF c[i].type \in {"text", "tool_use", "tool_result"}
                            THEN <<c[i]>> ELSE <<>>] = [i \in DOMAIN c |-> KeepF[c[i]]]
    BY <2>1, <2>2
  <2>5. normalizeAnthropicContent(c) = FM(KeepF, c)
    BY <2>4 DEF normalizeAnthropicContent, Only, FM
  <2>6. \A u \in Seq(Blocks), v \in Seq(Blocks) :
            Len(v) = Len(u) /\ (\A i \in 1 .. Len(u) : KeepF[u[i]] = <<v[i]>>) => FM(KeepF, u) = v
    BY <2>3, FMSingles
  <2>7. \A i \in 1 .. Len(c) : KeepF[c[i]] = <<c[i]>>
    BY <2>1, <2>2
  <2>8. QED
    BY <2>5, <2>6, <2>7
<1>2. same = h
  <2>1. DOMAIN h = 1 .. Len(h) /\ Len(h) \in Nat /\ \A i \in 1 .. Len(h) : h[i] \in IRMessages
    BY LenProperties, ElementOfSeq
  <2>2. ASSUME NEW m \in IRMessages
        PROVE  [m EXCEPT !.content = normalizeAnthropicContent(@)] = m
    <3>1. normalizeAnthropicContent(m.content) = m.content
      BY <1>1 DEF IRMessages
    <3>2. QED
      BY <3>1 DEF IRMessages
  <2>3. h \in [1 .. Len(h) -> IRMessages]
    BY <2>1, SeqDef
  <2>4. same = [i \in DOMAIN h |-> h[i]]
    BY <2>1, <2>2 DEF Map
  <2>5. QED
    BY <2>1, <2>3, <2>4
<1> HIDE DEF same
<1>3. QED
  BY <1>2 DEF NormalizeAnthropicRequest, same
-----------------------------------------------------------------------------
(* The invariant: the client's prompt and messages repeat what was said.   *)

Orders == {s \in Spokens : s.by = "system"}
\* What upstream u is shown of what was said.
ShownTo(u) == {s \in Spokens :
                   /\ s.by # "system" /\ HandedOn(s)
                   /\ u \in Agents => ~IsCall(s) /\ s.by # "tool"
                   /\ u \in OAIShaped /\ client.format = "anthropic" => s.by # "tool"}

\* Prompt p and messages h say s, in the client's format.
Repeats(p, h, s) ==
    /\ s \in Seq(Spokens)
    /\ client.format = "openai" =>
           /\ h \in Seq(OAIMessages) /\ FM(OrderF, h) = FM(TellF(Orders), s)
           /\ \A u \in Adapters : FM(SeenF(u), h) = FM(TellF(ShownTo(u)), s)
    /\ client.format # "openai" =>
           /\ h \in Seq(IRMessages) /\ p = FM(TellF(Orders), s)
           /\ \A u \in Adapters : FM(ViewF(u), h) = FM(TellF(ShownTo(u)), s)

LEMMA RepeatsJoin ==
    ASSUME NEW p, NEW q, NEW h, NEW k, NEW s, NEW t, Repeats(p, h, s), Repeats(q, k, t)
    PROVE  Repeats(p \o q, h \o k, s \o t)
<1>1. s \in Seq(Spokens) /\ t \in Seq(Spokens) /\ s \o t \in Seq(Spokens)
  BY ConcatProperties DEF Repeats
<1>2. \A W : FM(TellF(W), s \o t) = FM(TellF(W), s) \o FM(TellF(W), t)
  <2>1. ASSUME NEW W PROVE FM(TellF(W), s \o t) = FM(TellF(W), s) \o FM(TellF(W), t)
    <3>1. TellF(W) \in Makers(Spokens, Fragments)
      BY SpokenMakers
    <3> DEFINE F == TellF(W)
    <3> HIDE DEF F
    <3>2. \A a, b \in Seq(Spokens) : FM(F, a \o b) = FM(F, a) \o FM(F, b)
      BY <3>1, FMSplits DEF F
    <3>3. QED
      BY <1>1, <3>2 DEF F
  <2>2. QED
    BY <2>1
<1>3. CASE client.format = "openai"
  <2>1. h \in Seq(OAIMessages) /\ k \in Seq(OAIMessages) /\ h \o k \in Seq(OAIMessages)
    BY <1>3, ConcatProperties DEF Repeats
  <2>2. FM(OrderF, h \o k) = FM(OrderF, h) \o FM(OrderF, k)
    <3>1. \A a, b \in Seq(OAIMessages) : FM(OrderF, a \o b) = FM(OrderF, a) \o FM(OrderF, b)
      BY NormMakers, FMSplits
    <3>2. QED
      BY <2>1, <3>1
  <2>3. ASSUME NEW u \in Adapters PROVE FM(SeenF(u), h \o k) = FM(TellF(ShownTo(u)), s \o t)
    <3>1. SeenF(u) \in Makers(OAIMessages, Fragments)
      BY NormMakers
    <3>2. \A a, b \in Seq(OAIMessages) : FM(SeenF(u), a \o b) = FM(SeenF(u), a) \o FM(SeenF(u), b)
      BY <3>1, FMSplits
    <3>3. FM(SeenF(u), h) = FM(TellF(ShownTo(u)), s) /\ FM(SeenF(u), k) = FM(TellF(ShownTo(u)), t)
      BY <1>3 DEF Repeats
    <3>4. QED
      BY <1>2, <2>1, <3>2, <3>3
  <2>4. FM(OrderF, h) = FM(TellF(Orders), s) /\ FM(OrderF, k) = FM(TellF(Orders), t)
    BY <1>3 DEF Repeats
  <2>5. FM(OrderF, h \o k) = FM(TellF(Orders), s \o t)
    BY <1>2, <2>2, <2>4
  <2>6. QED
    BY <1>1, <1>3, <2>1, <2>3, <2>5 DEF Repeats
<1>4. CASE client.format # "openai"
  <2>1. h \in Seq(IRMessages) /\ k \in Seq(IRMessages) /\ h \o k \in Seq(IRMessages)
    BY <1>4, ConcatProperties DEF Repeats
  <2>2. p = FM(TellF(Orders), s) /\ q = FM(TellF(Orders), t)
    BY <1>4 DEF Repeats
  <2>3. ASSUME NEW u \in Adapters PROVE FM(ViewF(u), h \o k) = FM(TellF(ShownTo(u)), s \o t)
    <3>1. ViewF(u) \in Makers(IRMessages, Fragments)
      BY ViewMakers
    <3>2. \A a, b \in Seq(IRMessages) : FM(ViewF(u), a \o b) = FM(ViewF(u), a) \o FM(ViewF(u), b)
      BY <3>1, FMSplits
    <3>3. FM(ViewF(u), h) = FM(TellF(ShownTo(u)), s) /\ FM(ViewF(u), k) = FM(TellF(ShownTo(u)), t)
      BY <1>4 DEF Repeats
    <3>4. QED
      BY <1>2, <2>1, <3>2, <3>3
  <2>4. p \o q = FM(TellF(Orders), s \o t)
    BY <1>2, <2>2
  <2>5. QED
    BY <1>1, <1>4, <2>1, <2>3, <2>4 DEF Repeats
<1>5. QED
  BY <1>3, <1>4

\* Nothing said and nothing repeated.

LEMMA RepeatsNothing == Repeats(<<>>, <<>>, <<>>)
<1>1. <<>> \in Seq(Spokens) /\ <<>> \in Seq(OAIMessages) /\ <<>> \in Seq(IRMessages)
  BY EmptySeq
<1>2. \A F : FM(F, <<>>) = <<>>
  BY FMEmpty
<1>3. QED
  BY <1>1, <1>2 DEF Repeats

\* The request made of the client's prompt and messages, and what is in it.
RequestOf(p, h) ==
    IF client.format = "openai" THEN NormalizeOAIRequest(h)
    ELSE NormalizeAnthropicRequest([system |-> p, messages |-> h])

LEMMA RepeatedRequest ==
    ASSUME NEW p, NEW h, NEW s, Repeats(p, h, s)
    PROVE  LET req == RequestOf(p, h)
           IN  /\ req \in IRRequests
               /\ req.system = FM(TellF(Orders), s)
               /\ \A u \in Adapters : FM(ViewF(u), req.messages) = FM(TellF(ShownTo(u)), s)
<1> DEFINE req == RequestOf(p, h)
           f == FM(TellF(Orders), s)
<1>1. f \in Seq(Fragments)
  BY SpokenMakers, FMIsSeq DEF Repeats
<1>2. CASE client.format = "openai"
  <2> DEFINE n == FM(NormF, h)
  <2>1. h \in Seq(OAIMessages) /\ FM(OrderF, h) = f
    BY <1>2 DEF Repeats
  <2>2. Map(NormalizeOAIMessage, Only(h, LAMBDA m : ~IsSystem(m))) = n
    BY <2>1, MessagesByOne
  <2>3. FlattenSeq(Map(LAMBDA m : m.text, Only(h, IsSystem))) = f
    BY <2>1, SystemByOne
  <2>4. n \in Seq(IRMessages)
    BY <2>1, NormMakers, FMIsSeq
  <2>5. ASSUME NEW u \in Adapters PROVE FM(ViewF(u), n) = FM(TellF(ShownTo(u)), s)
    <3>1. FM(ViewF(u), n) = FM(SeenF(u), h)
      BY <2>1, SeenByOne
    <3>2. QED
      BY <1>2, <3>1 DEF Repeats
  <2>6. req = NormalizeOAIRequest(h)
    BY <1>2 DEF RequestOf
  <2> HIDE DEF n, f, req
  <2>7. req = [model |-> "alias", stream |-> client.stream, system |-> f, messages |-> n]
    BY <2>2, <2>3, <2>6 DEF NormalizeOAIRequest
  <2>8. req \in IRRequests /\ req.system = f /\ req.messages = n
    BY <1>1, <2>4, <2>7 DEF IRRequests
  <2>9. QED
    BY <2>5, <2>8 DEF req, f
<1>3. CASE client.format # "openai"
  <2>1. h \in Seq(IRMessages) /\ p = f
    BY <1>3 DEF Repeats
  <2>2. \A u \in Adapters : FM(ViewF(u), h) = FM(TellF(ShownTo(u)), s)
    BY <1>3 DEF Repeats
  <2> HIDE DEF f
  <2>3. req = [model |-> "alias", stream |-> client.stream, system |-> p, messages |-> h]
    BY <1>3, <2>1, AnthropicAsSent DEF RequestOf
  <2> HIDE DEF req
  <2>4. req \in IRRequests /\ req.system = f /\ req.messages = h
    BY <1>1, <2>1, <2>3 DEF IRRequests
  <2>5. QED
    BY <2>2, <2>4 DEF req, f
<1>4. QED
  BY <1>2, <1>3

\* As told, a sequence is told one after the other.
LEMMA TellAll ==
    ASSUME NEW s \in Seq(Spokens), NEW t \in Seq(Spokens)
    PROVE  Map(AsTold, s \o t) = Map(AsTold, s) \o Map(AsTold, t)
<1> DEFINE F == TellF(Spokens)
<1>1. ASSUME NEW x \in Seq(Spokens) PROVE FM(F, x) = Map(AsTold, x)
  <2> DEFINE m == Map(AsTold, x)
  <2>1. DOMAIN x = 1 .. Len(x) /\ Len(x) \in Nat /\ \A i \in 1 .. Len(x) : x[i] \in Spokens
    BY LenProperties, ElementOfSeq
  <2>2. \A y \in Spokens : AsTold(y) \in Fragments /\ F[y] = <<AsTold(y)>>
    BY DEF AsTold, Spokens, NoArgs, Fragments, TellF
  <2>3. m \in [1 .. Len(x) -> Fragments] /\ \A i \in 1 .. Len(x) : m[i] = AsTold(x[i])
    BY <2>1, <2>2 DEF Map
  <2> HIDE DEF m, F
  <2>4. m \in Seq(Fragments) /\ DOMAIN m = 1 .. Len(x)
    BY <2>1, <2>3, SeqDef
  <2>5. Len(m) = Len(x)
    BY <2>1, <2>4, LenProperties
  <2>6. \A i \in 1 .. Len(x) : F[x[i]] = <<m[i]>>
    BY <2>1, <2>2, <2>3
  <2>7. FM(F, x) = m
    BY <2>4, <2>5, <2>6, TellSingles DEF F
  <2>8. QED
    BY <2>7 DEF m
<1>2. \A a, b \in Seq(Spokens) : FM(F, a \o b) = FM(F, a) \o FM(F, b)
  <2>1. F \in Makers(Spokens, Fragments)
    BY SpokenMakers
  <2> HIDE DEF F
  <2>2. QED
    BY <2>1, FMSplits
<1>3. s \o t \in Seq(Spokens)
  BY ConcatProperties
<1> HIDE DEF F
<1>4. QED
  BY <1>1, <1>2, <1>3

\* What the property expects an upstream to be shown, as the invariant has it.
Expected(u) ==
    LET Shown(s) ==
            /\ HandedOn(s)
            /\ u \in Agents => ~IsCall(s) /\ s.by # "tool"
            /\ u \in OAIShaped /\ client.format = "anthropic" => s.by # "tool"
    IN  Map(AsTold, Only(spoken, LAMBDA s : s.by = "system")
                        \o Only(spoken, LAMBDA s : s.by # "system" /\ Shown(s)))

LEMMA ExpectedByOne ==
    ASSUME NEW u, spoken \in Seq(Spokens)
    PROVE  Expected(u) = FM(TellF(Orders), spoken) \o FM(TellF(ShownTo(u)), spoken)
<1> DEFINE Shown(s) ==
               /\ HandedOn(s)
               /\ u \in Agents => ~IsCall(s) /\ s.by # "tool"
               /\ u \in OAIShaped /\ client.format = "anthropic" => s.by # "tool"
           orders == Only(spoken, LAMBDA s : s.by = "system")
           others == Only(spoken, LAMBDA s : s.by # "system" /\ Shown(s))
<1>1. orders = FM(OnlyF(Orders), spoken)
  BY OnlySpoken DEF Orders
<1>2. others = FM(OnlyF(ShownTo(u)), spoken)
  <2>1. DOMAIN spoken = 1 .. Len(spoken) /\ \A i \in DOMAIN spoken : spoken[i] \in Spokens
    BY LenProperties, ElementOfSeq
  <2>2. \A s \in Spokens : s \in ShownTo(u) <=> s.by # "system" /\ Shown(s)
    BY DEF ShownTo
  <2> HIDE DEF Shown
  <2>3. [i \in DOMAIN spoken |-> IF spoken[i].by # "system" /\ Shown(spoken[i])
                                 THEN <<spoken[i]>> ELSE <<>>]
        = [i \in DOMAIN spoken |-> OnlyF(ShownTo(u))[spoken[i]]]
    BY <2>1, <2>2 DEF OnlyF
  <2>4. QED
    BY <2>3 DEF Only, FM
<1>3. Expected(u) = Map(AsTold, orders \o others)
  BY DEF Expected
<1> HIDE DEF orders, others
<1>4. /\ Map(AsTold, orders) = FM(TellF(Orders), spoken) /\ orders \in Seq(Spokens)
      /\ Map(AsTold, others) = FM(TellF(ShownTo(u)), spoken) /\ others \in Seq(Spokens)
  BY <1>1, <1>2, TellOnly
<1>5. Map(AsTold, orders \o others) = Map(AsTold, orders) \o Map(AsTold, others)
  BY <1>4, TellAll
<1>6. QED
  BY <1>3, <1>4, <1>5

\* The invariant.
ViewInv ==
    /\ CoreInv
    /\ Repeats(prompt, history, spoken)
    /\ phase # "client" => request = RequestOf(prompt, history)
    /\ phase = "asked" => shown.body = Chat(shown.by, request, NoAnswer).body

LEMMA ViewIsTheConversation == ViewInv => UpstreamIsShownTheConversation
<1> DEFINE u == shown.by
           req == RequestOf(prompt, history)
<1>1. SUFFICES ASSUME ViewInv, phase = "asked"
               PROVE  IF u \in Agents THEN shown.body = Expected(u)
                      ELSE BodySays(shown.body) = Expected(u) /\ shown.body.model \in {u, "alias"}
  BY DEF UpstreamIsShownTheConversation, Expected
<1>2. u \in Adapters /\ Repeats(prompt, history, spoken) /\ spoken \in Seq(Spokens)
  BY <1>1, AskedUpstream DEF ViewInv, Repeats
<1>3. shown.body = Chat(u, req, NoAnswer).body
  BY <1>1 DEF ViewInv
<1>4. /\ req \in IRRequests /\ req.system = FM(TellF(Orders), spoken)
      /\ FM(ViewF(u), req.messages) = FM(TellF(ShownTo(u)), spoken)
  BY <1>2, RepeatedRequest
<1>5. Expected(u) = FM(TellF(Orders), spoken) \o FM(TellF(ShownTo(u)), spoken)
  BY <1>2, ExpectedByOne
<1> HIDE DEF u, req
<1>6. IF u \in Agents THEN shown.body = req.system \o FM(ViewF(u), req.messages)
      ELSE /\ BodySays(shown.body) = req.system \o FM(ViewF(u), req.messages)
           /\ shown.body.model \in {u, "alias"}
  BY <1>2, <1>3, <1>4, UpstreamBody
<1>7. QED
  BY <1>4, <1>5, <1>6
-----------------------------------------------------------------------------
(* Each thing that is said, and the message that repeats it.               *)

LEMMA TellOne ==
    ASSUME NEW W, NEW x \in Spokens
    PROVE  FM(TellF(W), <<x>>) = IF x \in W THEN <<AsTold(x)>> ELSE <<>>
<1> DEFINE F == TellF(W)
<1>1. F \in Makers(Spokens, Fragments)
  BY SpokenMakers
<1>2. F[x] = IF x \in W THEN <<AsTold(x)>> ELSE <<>>
  BY DEF TellF
<1> HIDE DEF F
<1>3. FM(F, <<x>>) = F[x]
  BY <1>1, FMOne
<1>4. QED
  BY <1>2, <1>3 DEF F

\* What is shown of text and calls.
LEMMA BlocksShown ==
    ASSUME NEW u \in Adapters, NEW m \in IRMessages, NEW t \in Seq(Fragments),
           NEW calls \in Seq(Uses), m.content = TextBlocks(t) \o calls
    PROVE  ViewF(u)[m] = IF u \in Agents THEN t ELSE t \o Args(calls)
<1> DEFINE c == TextBlocks(t) \o calls
<1>1. /\ FM(TextF, c) = t /\ FM(UseF, c) = calls /\ FM(ResultF, c) = <<>>
      /\ FM(SaysF, c) = t \o Args(calls) /\ FM(OllamaF, c) = t
  BY AnswerBlocks
<1>2. m.content = c
  OBVIOUS
<1> HIDE DEF c
<1>3. CASE u \in OAIShaped
  BY <1>1, <1>2, <1>3, Views, Kinds
<1>4. CASE u \in AnthropicShaped
  BY <1>1, <1>2, <1>4, Views, Kinds
<1>5. CASE u = "ollama"
  BY <1>1, <1>2, <1>5, Views, Kinds
<1>6. CASE u \in Agents
  BY <1>1, <1>2, <1>6, Views, Kinds
<1>7. QED
  BY <1>3, <1>4, <1>5, <1>6, Kinds

\* A message with text and calls in the client's format, and what is made and
\* shown of it.
LEMMA OneMessage ==
    ASSUME NEW role \in {"user", "assistant"}, NEW t \in Seq(Fragments), NEW calls \in Seq(Uses)
    PROVE  LET m == OAIMessage(role, t, calls, NoId)
               n == [role |-> role, content |-> TextBlocks(t) \o calls]
               view(u) == IF u \in Agents THEN t ELSE t \o Args(calls)
           IN  /\ m \in OAIMessages /\ FM(OrderF, <<m>>) = <<>> /\ n \in IRMessages
               /\ \A u \in Adapters : FM(SeenF(u), <<m>>) = view(u) /\ FM(ViewF(u), <<n>>) = view(u)
<1> DEFINE m == OAIMessage(role, t, calls, NoId)
           c == TextBlocks(t) \o calls
           n == [role |-> role, content |-> c]
           view(u) == IF u \in Agents THEN t ELSE t \o Args(calls)
<1>1. m \in OAIMessages /\ m.role = role /\ m.text = t /\ m.calls = calls
  BY DEF OAIMessage, OAIMessages, Roles, NoId, Ids
<1>2. c \in Seq(Blocks)
  BY AnswerBlocks
<1> HIDE DEF c, m
<1>3. n \in IRMessages /\ n.content = c
  BY <1>2 DEF IRMessages, Roles
<1>4. ~IsSystem(m)
  BY <1>1 DEF IsSystem
<1> HIDE DEF n
<1>5. NormalizeOAIMessage(m) \in IRMessages /\ NormalizeOAIMessage(m).content = c
  BY <1>1, NormalizedMessage DEF c
<1>6. FM(OrderF, <<m>>) = <<>>
  <2>1. OrderF[m] = <<>>
    BY <1>1, <1>4 DEF OrderF
  <2>2. FM(OrderF, <<m>>) = OrderF[m]
    BY <1>1, NormMakers, FMOne
  <2>3. QED
    BY <2>1, <2>2
<1>7. ASSUME NEW u \in Adapters
      PROVE  FM(SeenF(u), <<m>>) = view(u) /\ FM(ViewF(u), <<n>>) = view(u)
  <2>1. ViewF(u)[n] = view(u)
    BY <1>3, BlocksShown DEF c
  <2>2. FM(ViewF(u), <<n>>) = ViewF(u)[n]
    BY <1>3, ViewMakers, FMOne
  <2>3. ViewF(u)[NormalizeOAIMessage(m)] = view(u)
    BY <1>5, BlocksShown DEF c
  <2>4. SeenF(u)[m] = view(u)
    BY <1>1, <1>4, <1>5, <2>3 DEF SeenF, ViewF
  <2>5. FM(SeenF(u), <<m>>) = SeenF(u)[m]
    BY <1>1, NormMakers, FMOne
  <2>6. QED
    BY <2>1, <2>2, <2>4, <2>5
<1>8. QED
  BY <1>1, <1>3, <1>6, <1>7 DEF m, n, c

\* A client's question.
LEMMA QuestionRepeats ==
    ASSUME NEW k \in Nat
    PROVE  LET w == << <<"ask", k>> >>
           IN  Repeats(<<>>,
                       IF client.format = "openai" THEN <<OAIMessage("user", w, <<>>, NoId)>>
                       ELSE <<[role |-> "user", content |-> <<Text(w)>>]>>,
                       <<Said(<<"ask", k>>, "user")>>)
<1> DEFINE f == <<"ask", k>>
           w == <<f>>
           x == Said(f, "user")
           m == OAIMessage("user", w, <<>>, NoId)
           n == [role |-> "user", content |-> <<Text(w)>>]
<1>1. f \in Fragments /\ f[1] # "call"
  BY DEF Fragments
<1>2. x \in Spokens /\ x.by = "user" /\ ~IsCall(x) /\ AsTold(x) = f
  BY <1>1 DEF Said, Spokens, IsCall, AsTold
<1>3. x \notin Orders /\ \A u : x \in ShownTo(u)
  BY <1>2 DEF Orders, ShownTo, HandedOn
<1> HIDE DEF x, f
<1>4. /\ <<x>> \in Seq(Spokens) /\ FM(TellF(Orders), <<x>>) = <<>>
      /\ \A u : FM(TellF(ShownTo(u)), <<x>>) = w
  <2>1. <<x>> \in Seq(Spokens)
    BY <1>2
  <2>2. FM(TellF(Orders), <<x>>) = <<>>
    BY <1>2, <1>3, TellOne
  <2>3. \A W : x \in W => FM(TellF(W), <<x>>) = <<AsTold(x)>>
    BY <1>2, TellOne
  <2>4. \A u : FM(TellF(ShownTo(u)), <<x>>) = <<AsTold(x)>>
    BY <1>3, <2>3
  <2>5. QED
    BY <1>2, <2>1, <2>2, <2>4
<1>5. w \in Seq(Fragments) /\ w # <<>> /\ <<>> \in Seq(Uses) /\ Args(<<>>) = <<>>
  BY <1>1, EmptySeq DEF Args
<1>6. w \o <<>> = w /\ TextBlocks(w) \o <<>> = <<Text(w)>>
  BY <1>5 DEF TextBlocks
<1> HIDE DEF w
<1> DEFINE l == [role |-> "user", content |-> TextBlocks(w) \o <<>>]
           view(u) == IF u \in Agents THEN w ELSE w \o Args(<<>>)
<1>7. /\ m \in OAIMessages /\ FM(OrderF, <<m>>) = <<>> /\ l \in IRMessages
      /\ \A u \in Adapters : FM(SeenF(u), <<m>>) = view(u) /\ FM(ViewF(u), <<l>>) = view(u)
  BY <1>5, OneMessage
<1>8. l = n /\ \A u : view(u) = w
  BY <1>5, <1>6
<1> HIDE DEF m, n, l, view
<1>9. /\ <<m>> \in Seq(OAIMessages) /\ <<n>> \in Seq(IRMessages) /\ FM(OrderF, <<m>>) = <<>>
      /\ \A u \in Adapters : FM(SeenF(u), <<m>>) = w /\ FM(ViewF(u), <<n>>) = w
  <2>1. <<m>> \in Seq(OAIMessages) /\ FM(OrderF, <<m>>) = <<>>
    BY <1>7
  <2>2. <<n>> \in Seq(IRMessages)
    BY <1>7, <1>8
  <2>3. ASSUME NEW u \in Adapters PROVE FM(SeenF(u), <<m>>) = w /\ FM(ViewF(u), <<n>>) = w
    <3>1. FM(SeenF(u), <<m>>) = view(u) /\ FM(ViewF(u), <<l>>) = view(u)
      BY <1>7
    <3>2. QED
      BY <1>8, <3>1
  <2>4. QED
    BY <2>1, <2>2, <2>3
<1>10. CASE client.format = "openai"
  <2>1. Repeats(<<>>, <<m>>, <<x>>)
    BY <1>4, <1>9, <1>10 DEF Repeats
  <2>2. QED
    BY <1>10, <2>1 DEF m, x, w, f
<1>11. CASE client.format # "openai"
  <2>1. Repeats(<<>>, <<n>>, <<x>>)
    BY <1>4, <1>9, <1>11 DEF Repeats
  <2>2. QED
    BY <1>11, <2>1 DEF n, x, w, f
<1>12. QED
  BY <1>10, <1>11

\* A client's instruction.
LEMMA InstructionRepeats ==
    ASSUME NEW k \in Nat
    PROVE  LET f == <<"system", k>>
           IN  Repeats(<<f>>,
                       IF client.format = "openai" THEN <<OAIMessage("developer", <<f>>, <<>>, NoId)>>
                       ELSE <<>>,
                       <<Said(f, "system")>>)
<1> DEFINE f == <<"system", k>>
           x == Said(f, "system")
           m == OAIMessage("developer", <<f>>, <<>>, NoId)
<1>1. f \in Fragments /\ f[1] # "call"
  BY DEF Fragments
<1>2. x \in Spokens /\ x.by = "system" /\ ~IsCall(x) /\ AsTold(x) = f
  BY <1>1 DEF Said, Spokens, IsCall, AsTold
<1>3. x \in Orders /\ \A u : x \notin ShownTo(u)
  BY <1>2 DEF Orders, ShownTo
<1> HIDE DEF x, f
<1>4. /\ <<x>> \in Seq(Spokens) /\ FM(TellF(Orders), <<x>>) = <<f>>
      /\ \A u : FM(TellF(ShownTo(u)), <<x>>) = <<>>
  <2>1. <<x>> \in Seq(Spokens)
    BY <1>2
  <2>2. FM(TellF(Orders), <<x>>) = <<AsTold(x)>>
    BY <1>2, <1>3, TellOne
  <2>3. \A W : x \notin W => FM(TellF(W), <<x>>) = <<>>
    BY <1>2, TellOne
  <2>4. \A u : FM(TellF(ShownTo(u)), <<x>>) = <<>>
    BY <1>3, <2>3
  <2>5. QED
    BY <1>2, <2>1, <2>2, <2>4
<1>5. m \in OAIMessages /\ m.role = "developer" /\ m.text = <<f>>
  <2>1. <<f>> \in Seq(Fragments) /\ <<>> \in Seq(Uses)
    BY <1>1, EmptySeq
  <2>2. QED
    BY <2>1 DEF OAIMessage, OAIMessages, Roles, NoId, Ids
<1> HIDE DEF m
<1>6. OrderF[m] = <<f>> /\ \A u : SeenF(u)[m] = <<>>
  BY <1>5 DEF OrderF, SeenF, IsSystem
<1>7. FM(OrderF, <<m>>) = OrderF[m]
  BY <1>5, NormMakers, FMOne
<1>8. ASSUME NEW u \in Adapters PROVE FM(SeenF(u), <<m>>) = SeenF(u)[m] /\ FM(ViewF(u), <<>>) = <<>>
  BY <1>5, NormMakers, FMOne, FMEmpty
<1>9. <<m>> \in Seq(OAIMessages) /\ <<>> \in Seq(IRMessages)
  BY <1>5, EmptySeq
<1>10. CASE client.format = "openai"
  <2>1. Repeats(<<f>>, <<m>>, <<x>>)
    BY <1>4, <1>6, <1>7, <1>8, <1>9, <1>10 DEF Repeats
  <2>2. QED
    BY <1>10, <2>1 DEF m, x, f
<1>11. CASE client.format # "openai"
  <2>1. Repeats(<<f>>, <<>>, <<x>>)
    BY <1>4, <1>8, <1>9, <1>11 DEF Repeats
  <2>2. QED
    BY <1>11, <2>1 DEF x, f
<1>12. QED
  BY <1>10, <1>11

\* An answer is no instruction.
LEMMA AnswerGivesNoOrder ==
    ASSUME NEW a \in Sayings
    PROVE  /\ FM(TellF(Orders), SaidIn(a)) = <<>> /\ SaidIn(a) \in Seq(Spokens)
           /\ Map(LAMBDA f : Said(f, a.by), a.text) \in Seq(Spokens)
           /\ Map(LAMBDA c : Said(c.args, a.by), a.calls) \in Seq(Spokens)
<1> DEFINE S == {s \in Spokens : s.by \in Adapters}
           x == Map(LAMBDA f : Said(f, a.by), a.text)
           y == Map(LAMBDA c : Said(c.args, a.by), a.calls)
           F == TellF(Orders)
<1>1. a.text \in Seq(Fragments) /\ a.calls \in Seq(Uses) /\ a.by \in Adapters
  BY DEF Sayings, AnswerRecord
<1>2. \A f \in Fragments : Said(f, a.by) \in S
  BY <1>1 DEF Said, Spokens
<1>3. \A s \in S : s \in Spokens /\ F[s] = <<>>
  <2>1. ASSUME NEW s \in S PROVE s.by # "system"
    BY AdapterNames
  <2>2. QED
    BY <2>1 DEF TellF, Orders
<1> HIDE DEF S, F
<1>4. x \in Seq(S)
  <2>1. DOMAIN a.text = 1 .. Len(a.text) /\ Len(a.text) \in Nat
        /\ \A i \in 1 .. Len(a.text) : a.text[i] \in Fragments
    BY <1>1, LenProperties, ElementOfSeq
  <2>2. x \in [1 .. Len(a.text) -> S]
    BY <1>2, <2>1 DEF Map
  <2> HIDE DEF x
  <2>3. QED
    BY <2>1, <2>2, SeqDef
<1>5. y \in Seq(S)
  <2>1. DOMAIN a.calls = 1 .. Len(a.calls) /\ Len(a.calls) \in Nat
        /\ \A i \in 1 .. Len(a.calls) : a.calls[i] \in Uses
    BY <1>1, LenProperties, ElementOfSeq
  <2>2. \A c \in Uses : c.args \in Fragments
    BY DEF Uses
  <2>3. y \in [1 .. Len(a.calls) -> S]
    BY <1>2, <2>1, <2>2 DEF Map
  <2> HIDE DEF y
  <2>4. QED
    BY <2>1, <2>3, SeqDef
<1> HIDE DEF x, y
<1>6. x \o y \in Seq(S)
  BY <1>4, <1>5, ConcatProperties
<1> DEFINE z == x \o y
<1>7. z \in Seq(S)
  BY <1>6
<1> HIDE DEF z
<1>8. z \in Seq(Spokens) /\ \A i \in 1 .. Len(z) : F[z[i]] = <<>>
  <2>1. z \in Seq(Spokens)
    BY <1>3, <1>7, SeqMonotonic
  <2>2. \A i \in 1 .. Len(z) : z[i] \in S
    BY <1>7, ElementOfSeq
  <2>3. QED
    BY <1>3, <2>1, <2>2
<1>9. F \in Makers(Spokens, Fragments)
  BY SpokenMakers DEF F
<1>10. FM(F, z) = <<>>
  BY <1>8, <1>9, FMNothing
<1>11. x \in Seq(Spokens) /\ y \in Seq(Spokens)
  BY <1>3, <1>4, <1>5, SeqMonotonic
<1>12. QED
  BY <1>8, <1>10, <1>11 DEF F, z, x, y, SaidIn

\* An upstream's answer, as the client has understood it.
LEMMA AnswerRepeats ==
    ASSUME ClientType, NEW a \in Sayings
    PROVE  Repeats(<<>>, <<ToldMessage(a.text, Streamed(Kept(a.by, a)))>>, SaidIn(a))
<1> DEFINE t == a.text
           k == Streamed(Kept(a.by, a))
           x == SaidIn(a)
           handed == IF a.by \in KeepCalls THEN ToldArgs(a.calls) ELSE <<>>
           m == OAIMessage("assistant", t, k, NoId)
           n == [role |-> "assistant", content |-> TextBlocks(t) \o k]
           view(u) == IF u \in Agents THEN t ELSE t \o Args(k)
<1>1. t \in Seq(Fragments) /\ a.by \in Adapters
  BY DEF Sayings, AnswerRecord
<1>2. k \in Seq(Uses) /\ Args(k) = handed
  BY KeptTold
<1>3. x \in Seq(Spokens) /\ FM(TellF(Orders), x) = <<>>
  BY AnswerGivesNoOrder
<1>4. ToldMessage(t, k) = IF client.format = "openai" THEN m ELSE n
  BY DEF ToldMessage
<1> HIDE DEF k
<1>5. ASSUME NEW u \in Adapters PROVE FM(TellF(ShownTo(u)), x) = view(u)
  <2> DEFINE keeps == a.by \in KeepCalls /\ u \notin Agents
             W == ShownTo(u)
  <2>1. a.by # "system" /\ a.by # "tool" /\ a.by # "user"
    BY <1>1, AdapterNames
  <2>2. \A f \in Words : Said(f, a.by) \in W
    BY <1>1, <2>1 DEF Said, ShownTo, HandedOn, IsCall, Spokens, Words, Fragments
  <2>3. \A c \in CallArgs : Said(c, a.by) \in W <=> keeps
    BY <1>1, <2>1 DEF Said, ShownTo, HandedOn, IsCall, Spokens, CallArgs, Fragments
  <2>4. keeps \in BOOLEAN
    OBVIOUS
  <2> HIDE DEF keeps, W
  <2>5. FM(TellF(W), SaidIn(a)) = a.text \o (IF keeps THEN ToldArgs(a.calls) ELSE <<>>)
    BY <2>2, <2>3, <2>4, AnswerSaid
  <2>6. t \o <<>> = t
    BY <1>1, ConcatEmptySeq
  <2>7. QED
    BY <1>2, <2>5, <2>6 DEF W, keeps
<1> HIDE DEF t, x
<1>6. /\ m \in OAIMessages /\ FM(OrderF, <<m>>) = <<>> /\ n \in IRMessages
      /\ \A u \in Adapters : FM(SeenF(u), <<m>>) = view(u) /\ FM(ViewF(u), <<n>>) = view(u)
  BY <1>1, <1>2, OneMessage
<1> HIDE DEF m, n, view
<1>7. <<m>> \in Seq(OAIMessages) /\ <<n>> \in Seq(IRMessages)
  BY <1>6
<1>8. CASE client.format = "openai"
  <2>1. Repeats(<<>>, <<m>>, x)
    BY <1>3, <1>5, <1>6, <1>7, <1>8 DEF Repeats
  <2>2. QED
    BY <1>4, <1>8, <2>1 DEF t, k, x
<1>9. CASE client.format # "openai"
  <2>1. Repeats(<<>>, <<n>>, x)
    BY <1>3, <1>5, <1>6, <1>7, <1>9 DEF Repeats
  <2>2. QED
    BY <1>4, <1>9, <2>1 DEF t, k, x
<1>10. QED
  BY <1>8, <1>9

LEMMA ResultBlock ==
    ASSUME NEW o \in Fragments, NEW id \in Ids
    PROVE  LET r == ToolResult(id, <<o>>)
           IN  /\ r \in Blocks /\ r.content = <<o>>
               /\ TextF[r] = <<>> /\ UseF[r] = <<>> /\ ResultF[r] = <<r>>
               /\ SaysF[r] = <<o>> /\ OllamaF[r] = <<o>>
<1> DEFINE c == <<o>>
           r == ToolResult(id, c)
<1>1. c \in Seq(Fragments)
  OBVIOUS
<1> HIDE DEF c
<1>2. r \in Blocks /\ r.content = c /\ r.type = "tool_result"
  BY <1>1 DEF ToolResult, Blocks, Results
<1> HIDE DEF r
<1>3. /\ TextF[r] = <<>> /\ UseF[r] = <<>> /\ ResultF[r] = <<r>>
      /\ SaysF[r] = c /\ OllamaF[r] = c
  BY <1>2 DEF TextF, UseF, ResultF, SaysF, OllamaF, BlockSays
<1>4. QED
  BY <1>2, <1>3 DEF r, c

\* A result, as a client of the OpenAI format gives it.
LEMMA ToolMessage ==
    ASSUME NEW o \in Fragments, NEW id \in Ids
    PROVE  LET m == OAIMessage("tool", <<o>>, <<>>, id)
           IN  /\ m \in OAIMessages /\ OrderF[m] = <<>>
               /\ \A u \in Adapters : SeenF(u)[m] = IF u \in Agents THEN <<>> ELSE <<o>>
<1> DEFINE c == <<o>>
           m == OAIMessage("tool", c, <<>>, id)
           r == ToolResult(id, c)
           n == NormalizeOAIMessage(m)
<1>1. c \in Seq(Fragments) /\ <<>> \in Seq(Uses) /\ <<>> \in Seq(Fragments) /\ Args(<<>>) = <<>>
  BY EmptySeq DEF Args
<1>2. /\ r \in Blocks /\ r.content = c
      /\ TextF[r] = <<>> /\ UseF[r] = <<>> /\ ResultF[r] = <<r>>
      /\ SaysF[r] = c /\ OllamaF[r] = c
  BY ResultBlock
<1> HIDE DEF c
<1>3. m \in OAIMessages /\ m.role = "tool" /\ m.text = c /\ m.answers = id
  BY <1>1 DEF OAIMessage, OAIMessages, Roles
<1> HIDE DEF m
<1>4. n \in IRMessages /\ n.role = "tool" /\ n.content = <<r>>
  BY <1>3, NormalizedMessage
<1> HIDE DEF r, n
<1>5. /\ FM(TextF, <<r>>) = <<>> /\ FM(UseF, <<r>>) = <<>> /\ FM(ResultF, <<r>>) = <<r>>
      /\ FM(SaysF, <<r>>) = c /\ FM(OllamaF, <<r>>) = c
  <2>1. FM(TextF, <<r>>) = TextF[r] /\ FM(SaysF, <<r>>) = SaysF[r]
        /\ FM(OllamaF, <<r>>) = OllamaF[r]
    BY <1>2, BlockMakers, FMOne
  <2>2. FM(UseF, <<r>>) = UseF[r] /\ FM(ResultF, <<r>>) = ResultF[r]
    BY <1>2, BlockMakers, FMOne
  <2>3. QED
    BY <1>2, <2>1, <2>2
<1>6. c \o <<>> = c
  BY <1>1, ConcatEmptySeq
<1>7. <<r>> # <<>> /\ <<r>>[1] = r
  OBVIOUS
<1>8. ASSUME NEW u \in Adapters PROVE ViewF(u)[n] = IF u \in Agents THEN <<>> ELSE c
  <2>1. CASE u \in OAIShaped
    BY <1>2, <1>4, <1>5, <1>7, <2>1, Views, Kinds
  <2>2. CASE u \in AnthropicShaped
    BY <1>4, <1>5, <2>2, Views, Kinds
  <2>3. CASE u = "ollama"
    <3>1. ViewF(u)[n] = FM(OllamaF, n.content) \o Args(FM(UseF, n.content))
      BY <1>4, <2>3, Views
    <3>2. u \notin Agents
      BY <2>3, Kinds
    <3>3. QED
      BY <1>1, <1>4, <1>5, <1>6, <3>1, <3>2
  <2>4. CASE u \in Agents
    BY <1>4, <1>5, <2>4, Views, Kinds
  <2>5. QED
    BY <2>1, <2>2, <2>3, <2>4, Kinds
<1>9. ~IsSystem(m)
  BY <1>3 DEF IsSystem
<1>10. OrderF[m] = <<>>
  BY <1>3, <1>9 DEF OrderF
<1>11. ASSUME NEW u \in Adapters PROVE SeenF(u)[m] = IF u \in Agents THEN <<>> ELSE c
  BY <1>3, <1>4, <1>8, <1>9 DEF SeenF, ViewF, n
<1>12. QED
  BY <1>3, <1>10, <1>11 DEF m, c

\* What is said with the results of calls, as an upstream is shown it.
LEMMA ResultsTold ==
    ASSUME NEW n \in Nat, NEW words \in [1 .. n -> Fragments], NEW x,
           \A i \in 1 .. n : words[i][1] = "result",
           x = Map(LAMBDA f : Said(f, "tool"), words)
    PROVE  /\ x \in Seq(Spokens) /\ words \in Seq(Fragments) /\ Len(words) = n
           /\ FM(TellF(Orders), x) = <<>>
           /\ \A u : FM(TellF(ShownTo(u)), x) =
                     IF u \in Agents \/ (u \in OAIShaped /\ client.format = "anthropic") THEN <<>>
                     ELSE words
<1>1. ASSUME NEW i \in 1 .. n
      PROVE  LET s == Said(words[i], "tool")
             IN  s \in Spokens /\ s.by = "tool" /\ ~IsCall(s) /\ AsTold(s) = words[i]
  BY DEF Said, Spokens, IsCall, AsTold
<1>2. x \in [1 .. n -> Spokens] /\ \A i \in 1 .. n : x[i] = Said(words[i], "tool")
  BY <1>1 DEF Map
<1>3. x \in Seq(Spokens) /\ words \in Seq(Fragments) /\ Len(x) = n /\ Len(words) = n
  <2>1. x \in Seq(Spokens) /\ words \in Seq(Fragments)
    <3>1. x \in [1 .. n -> Spokens] /\ words \in [1 .. n -> Fragments]
      BY <1>2
    <3>2. \A S : \A f \in [1 .. n -> S] : f \in Seq(S)
      BY SeqDef
    <3>3. QED
      BY <3>1, <3>2
  <2>2. DOMAIN x = 1 .. n /\ DOMAIN words = 1 .. n
    BY <1>2
  <2>3. QED
    BY <2>1, <2>2, LenProperties
<1>4. \A i \in 1 .. n : x[i] \in Spokens /\ x[i].by = "tool" /\ ~IsCall(x[i])
                        /\ AsTold(x[i]) = words[i]
  BY <1>1, <1>2
<1>5. ASSUME NEW W, \A i \in 1 .. n : x[i] \notin W
      PROVE  FM(TellF(W), x) = <<>>
  <2> DEFINE F == TellF(W)
  <2>1. F \in Makers(Spokens, Fragments)
    BY SpokenMakers
  <2>2. \A i \in 1 .. Len(x) : F[x[i]] = <<>>
    BY <1>3, <1>4, <1>5 DEF TellF
  <2> HIDE DEF F
  <2>3. FM(F, x) = <<>>
    BY <1>3, <2>1, <2>2, FMNothing
  <2>4. QED
    BY <2>3 DEF F
<1>6. FM(TellF(Orders), x) = <<>>
  BY <1>4, <1>5 DEF Orders
<1>7. ASSUME NEW u PROVE FM(TellF(ShownTo(u)), x) =
                  IF u \in Agents \/ (u \in OAIShaped /\ client.format = "anthropic") THEN <<>>
                  ELSE words
  <2>1. CASE u \in Agents \/ (u \in OAIShaped /\ client.format = "anthropic")
    <3>1. \A i \in 1 .. n : x[i] \notin ShownTo(u)
      BY <1>4, <2>1 DEF ShownTo
    <3>2. QED
      BY <1>5, <2>1, <3>1
  <2>2. CASE ~(u \in Agents \/ (u \in OAIShaped /\ client.format = "anthropic"))
    <3>1. \A i \in 1 .. n : x[i] \in ShownTo(u)
      BY <1>4, <2>2 DEF ShownTo, HandedOn
    <3>2. FM(TellF(ShownTo(u)), x) = words
      <4> DEFINE W == ShownTo(u)
      <4> HIDE DEF W
      <4>1. \A e \in Spokens : e \in W => TellF(W)[e] = <<AsTold(e)>>
        BY DEF TellF
      <4>2. \A i \in 1 .. n : x[i] \in W
        BY <3>1 DEF W
      <4>3. ASSUME NEW i \in 1 .. Len(x) PROVE TellF(W)[x[i]] = <<words[i]>>
        <5>1. i \in 1 .. n
          BY <1>3
        <5>2. x[i] \in Spokens /\ AsTold(x[i]) = words[i] /\ x[i] \in W
          BY <1>4, <4>2, <5>1
        <5>3. QED
          BY <4>1, <5>2
      <4>4. \A p \in Seq(Spokens), q \in Seq(Fragments) :
                Len(q) = Len(p) /\ (\A i \in 1 .. Len(p) : TellF(W)[p[i]] = <<q[i]>>)
                    => FM(TellF(W), p) = q
        BY TellSingles
      <4>5. FM(TellF(W), x) = words
        BY <1>3, <4>3, <4>4
      <4>6. QED
        BY <4>5 DEF W
    <3>3. QED
      BY <2>2, <3>2
  <2>3. QED
    BY <2>1, <2>2
<1>8. QED
  BY <1>3, <1>6, <1>7

\* The results of the calls a client was told of.
LEMMA ResultsRepeat ==
    ASSUME ClientType, turn \in Nat, NEW calls \in Seq(Uses)
    PROVE  LET words == [i \in DOMAIN calls |-> Outcome(i)]
               results == [i \in DOMAIN calls |-> ToolResult(calls[i].id, <<Outcome(i)>>)]
           IN  Repeats(<<>>,
                       IF client.format = "openai"
                       THEN Map(LAMBDA r : OAIMessage("tool", r.content, <<>>, r.id), results)
                       ELSE <<[role |-> "user", content |-> results]>>,
                       Map(LAMBDA f : Said(f, "tool"), words))
<1> DEFINE words == [i \in DOMAIN calls |-> Outcome(i)]
           results == [i \in DOMAIN calls |-> ToolResult(calls[i].id, <<Outcome(i)>>)]
           h == Map(LAMBDA r : OAIMessage("tool", r.content, <<>>, r.id), results)
           x == Map(LAMBDA f : Said(f, "tool"), words)
           n == Len(calls)
           view(u) == IF u \in Agents \/ (u \in OAIShaped /\ client.format = "anthropic")
                      THEN <<>> ELSE words
<1>1. DOMAIN calls = 1 .. n /\ n \in Nat /\ \A i \in 1 .. n : calls[i] \in Uses /\ calls[i].id \in Ids
  <2>1. \A c \in Uses : c.id \in Ids
    BY DEF Uses
  <2>2. QED
    BY <2>1, LenProperties, ElementOfSeq
<1>2. \A i \in 1 .. n : Outcome(i) \in Fragments /\ Outcome(i)[1] = "result"
  BY <1>1 DEF Outcome, Fragments
<1>3. words \in [1 .. n -> Fragments] /\ \A i \in 1 .. n : words[i] = Outcome(i)
  BY <1>1, <1>2
<1>4. DOMAIN results = 1 .. n
      /\ \A i \in 1 .. n : results[i] = ToolResult(calls[i].id, <<words[i]>>)
  BY <1>1, <1>3
<1>5. DOMAIN h = 1 .. n
      /\ \A i \in 1 .. n : h[i] = OAIMessage("tool", results[i].content, <<>>, results[i].id)
  BY <1>4 DEF Map
<1> HIDE DEF words, results, h
<1>6. /\ x \in Seq(Spokens) /\ words \in Seq(Fragments) /\ Len(words) = n
      /\ FM(TellF(Orders), x) = <<>>
      /\ \A u : FM(TellF(ShownTo(u)), x) = view(u)
  <2>1. \A i \in 1 .. n : words[i][1] = "result"
    BY <1>2, <1>3
  <2>2. x = Map(LAMBDA f : Said(f, "tool"), words)
    OBVIOUS
  <2>3. words \in [1 .. n -> Fragments] /\ n \in Nat
    BY <1>1, <1>3
  <2> HIDE DEF x, n
  <2>4. /\ x \in Seq(Spokens) /\ words \in Seq(Fragments) /\ Len(words) = n
        /\ FM(TellF(Orders), x) = <<>>
        /\ \A u : FM(TellF(ShownTo(u)), x) =
                  IF u \in Agents \/ (u \in OAIShaped /\ client.format = "anthropic") THEN <<>>
                  ELSE words
    BY <2>1, <2>2, <2>3, ResultsTold
  <2>5. QED
    BY <2>4
<1> HIDE DEF x
<1>7. \A i \in 1 .. n : words[i] \in Fragments
  BY <1>3
<1>8. CASE client.format = "openai"
  <2>1. ASSUME NEW i \in 1 .. n
        PROVE  /\ h[i] \in OAIMessages /\ OrderF[h[i]] = <<>>
               /\ \A u \in Adapters : SeenF(u)[h[i]] = IF u \in Agents THEN <<>> ELSE <<words[i]>>
    <3>1. h[i] = OAIMessage("tool", <<words[i]>>, <<>>, calls[i].id)
      BY <1>4, <1>5 DEF ToolResult
    <3>2. QED
      BY <1>1, <1>7, <3>1, ToolMessage
  <2>2. h \in Seq(OAIMessages) /\ Len(h) = n
    <3>1. h = [i \in DOMAIN h |-> h[i]]
      BY DEF h, Map
    <3>2. h \in [1 .. n -> OAIMessages]
      BY <1>5, <2>1, <3>1
    <3>3. \A f \in [1 .. n -> OAIMessages] : f \in Seq(OAIMessages)
      BY <1>1, SeqDef
    <3>4. h \in Seq(OAIMessages)
      BY <3>2, <3>3
    <3>5. QED
      BY <1>1, <1>5, <3>4, LenProperties
  <2>3. FM(OrderF, h) = <<>>
    BY <2>1, <2>2, NormMakers, FMNothing
  <2>4. ASSUME NEW u \in Adapters PROVE FM(SeenF(u), h) = view(u)
    <3>1. SeenF(u) \in Makers(OAIMessages, Fragments)
      BY NormMakers
    <3>2. CASE u \in Agents
      <4>1. \A i \in 1 .. Len(h) : SeenF(u)[h[i]] = <<>>
        BY <2>1, <2>2, <3>2
      <4>2. FM(SeenF(u), h) = <<>>
        BY <2>2, <3>1, <4>1, FMNothing
      <4>3. QED
        BY <3>2, <4>2
    <3>3. CASE u \notin Agents
      <4>1. \A i \in 1 .. Len(h) : SeenF(u)[h[i]] = <<words[i]>>
        BY <2>1, <2>2, <3>3
      <4>2. \A s \in Seq(OAIMessages), t \in Seq(Fragments) :
                Len(t) = Len(s) /\ (\A i \in 1 .. Len(s) : SeenF(u)[s[i]] = <<t[i]>>)
                    => FM(SeenF(u), s) = t
        BY <3>1, FMSingles
      <4>3. FM(SeenF(u), h) = words
        BY <1>6, <2>2, <4>1, <4>2
      <4>4. QED
        BY <1>8, <3>3, <4>3
    <3>4. QED
      BY <3>2, <3>3
  <2>5. Repeats(<<>>, h, x)
    BY <1>6, <1>8, <2>2, <2>3, <2>4 DEF Repeats
  <2>6. QED
    BY <1>8, <2>5 DEF h, x, words, results
<1>9. CASE client.format # "openai"
  <2> DEFINE m == [role |-> "user", content |-> results]
  <2>0. client.format = "anthropic"
    BY <1>9 DEF ClientType
  <2>1. ASSUME NEW i \in 1 .. n
        PROVE  /\ results[i] \in Blocks
               /\ TextF[results[i]] = <<>> /\ UseF[results[i]] = <<>>
               /\ SaysF[results[i]] = <<words[i]>> /\ OllamaF[results[i]] = <<words[i]>>
    <3> DEFINE o == words[i]
               id == calls[i].id
               r == ToolResult(id, <<o>>)
    <3>1. o \in Fragments /\ id \in Ids
      BY <1>1, <1>7
    <3>2. results[i] = r
      BY <1>4
    <3> HIDE DEF o, id
    <3>3. /\ r \in Blocks /\ TextF[r] = <<>> /\ UseF[r] = <<>>
          /\ SaysF[r] = <<o>> /\ OllamaF[r] = <<o>>
      BY <3>1, ResultBlock
    <3> HIDE DEF r
    <3>4. QED
      BY <3>2, <3>3 DEF o
  <2>2. results \in Seq(Blocks) /\ Len(results) = n
    <3>1. results = [i \in DOMAIN results |-> results[i]]
      BY DEF results
    <3>2. results \in [1 .. n -> Blocks]
      BY <1>4, <2>1, <3>1
    <3>3. \A f \in [1 .. n -> Blocks] : f \in Seq(Blocks)
      BY <1>1, SeqDef
    <3>4. results \in Seq(Blocks)
      BY <3>2, <3>3
    <3>5. QED
      BY <1>1, <1>4, <3>4, LenProperties
  <2>3. FM(TextF, results) = <<>> /\ FM(UseF, results) = <<>>
    BY <2>1, <2>2, BlockMakers, FMNothing
  <2>4. FM(SaysF, results) = words
    <3>1. \A s \in Seq(Blocks), t \in Seq(Fragments) :
              Len(t) = Len(s) /\ (\A i \in 1 .. Len(s) : SaysF[s[i]] = <<t[i]>>) => FM(SaysF, s) = t
      BY BlockMakers, FMSingles
    <3>2. QED
      BY <1>6, <2>1, <2>2, <3>1
  <2>5. FM(OllamaF, results) = words
    <3>1. \A s \in Seq(Blocks), t \in Seq(Fragments) :
              Len(t) = Len(s) /\ (\A i \in 1 .. Len(s) : OllamaF[s[i]] = <<t[i]>>) => FM(OllamaF, s) = t
      BY BlockMakers, FMSingles
    <3>2. QED
      BY <1>6, <2>1, <2>2, <3>1
  <2>6. m \in IRMessages /\ m.role = "user" /\ m.content = results
    BY <2>2 DEF IRMessages, Roles
  <2> HIDE DEF m
  <2>7. Args(<<>>) = <<>> /\ <<>> \o <<>> = <<>> /\ words \o <<>> = words
    BY <1>6, ConcatEmptySeq DEF Args
  <2>8. ASSUME NEW u \in Adapters PROVE FM(ViewF(u), <<m>>) = view(u)
    <3>1. FM(ViewF(u), <<m>>) = ViewF(u)[m]
      BY <2>6, ViewMakers, FMOne
    <3>2. CASE u \in OAIShaped
      <4>1. ViewF(u)[m] = <<>> \o <<>>
        BY <2>3, <2>6, <2>7, <3>2, Views
      <4>2. QED
        BY <1>9, <2>0, <2>7, <3>1, <3>2, <4>1
    <3>3. CASE u \in AnthropicShaped
      <4>1. ViewF(u)[m] = words
        BY <2>4, <2>6, <3>3, Views
      <4>2. QED
        BY <3>1, <3>3, <4>1, Kinds
    <3>4. CASE u = "ollama"
      <4>1. ViewF(u)[m] = words \o <<>>
        BY <2>3, <2>5, <2>6, <2>7, <3>4, Views
      <4>2. QED
        BY <2>7, <3>1, <3>4, <4>1, Kinds
    <3>5. CASE u \in Agents
      <4>1. ViewF(u)[m] = <<>>
        BY <2>3, <2>6, <3>5, Views
      <4>2. QED
        BY <3>1, <3>5, <4>1
    <3>6. QED
      BY <3>2, <3>3, <3>4, <3>5, Kinds
  <2>9. <<m>> \in Seq(IRMessages)
    BY <2>6
  <2>10. Repeats(<<>>, <<m>>, x)
    BY <1>6, <1>9, <2>8, <2>9 DEF Repeats
  <2>11. QED
    BY <1>9, <2>10 DEF m, x, words, results
<1>10. QED
  BY <1>8, <1>9
-----------------------------------------------------------------------------
(* The steps.                                                              *)

\* The calls the client answers are calls.
\* The calls the client was told of last.
ToldCalls == Streamed(Kept(answer.by, answer))

LEMMA PendingCalls ==
    ASSUME CoreInv, phase = "client"
    PROVE  Pending = IF turn = 0 THEN <<>> ELSE ToldCalls
<1>1. turn \in Nat /\ ClientType
  BY ConversationAssumption DEF ConversationAssumption, CoreInv, TypeOK
<1>2. CASE turn = 0
  BY <1>1, <1>2 DEF Pending
<1>3. CASE turn > 0
  <2> DEFINE t == answer.text
             k == ToldCalls
             c == TextBlocks(t) \o k
  <2>1. answer \in Sayings /\ told.message = ToldMessage(t, k)
    BY <1>3 DEF CoreInv, Told, AnswerTold, ToldCalls
  <2>2. t \in Seq(Fragments) /\ k \in Seq(Uses)
    BY <1>1, <2>1, KeptTold DEF Sayings, AnswerRecord, ToldCalls
  <2> HIDE DEF t, k
  <2>3. c \in Seq(Blocks) /\ FM(UseF, c) = k
    BY <2>2, AnswerBlocks
  <2> HIDE DEF c
  <2>4. Of(c, "tool_use") = k
    BY <2>3, BlocksByOne
  <2>5. CASE client.format = "openai"
    <3>1. told.message.calls = k
      BY <2>1, <2>5 DEF ToldMessage, OAIMessage
    <3>2. QED
      BY <1>1, <1>3, <2>5, <3>1 DEF Pending, k
  <2>6. CASE client.format # "openai"
    <3>1. told.message.content = c
      BY <2>1, <2>6 DEF ToldMessage, c
    <3>2. Pending = Of(told.message.content, "tool_use")
      BY <1>1, <1>3, <2>6 DEF Pending
    <3>3. QED
      BY <1>1, <1>3, <2>4, <3>1, <3>2 DEF k
  <2>7. QED
    BY <2>5, <2>6
<1>4. QED
  BY <1>1, <1>2, <1>3

LEMMA PendingType ==
    ASSUME CoreInv, phase = "client"
    PROVE  turn \in Nat /\ Pending \in Seq(Uses)
<1>1. turn \in Nat /\ ClientType
  BY ConversationAssumption DEF ConversationAssumption, CoreInv, TypeOK
<1>2. turn > 0 => ToldCalls \in Seq(Uses)
  BY <1>1, KeptTold DEF CoreInv, Told, AnswerTold, ToldCalls
<1>3. <<>> \in Seq(Uses)
  BY EmptySeq
<1>4. Pending = IF turn = 0 THEN <<>> ELSE ToldCalls
  BY PendingCalls
<1>5. QED
  BY <1>1, <1>2, <1>3, <1>4

LEMMA RepeatsPrimed ==
    ASSUME client' = client, Repeats(prompt', history', spoken')
    PROVE  Repeats(prompt, history, spoken)'
<1>1. \A s : (AsTold(s))' = AsTold(s)
  BY DEF AsTold
<1>2. \A W : TellF(W)' = TellF(W)
  BY <1>1 DEF TellF
<1>3. \A u : ShownTo(u)' = ShownTo(u)
  BY DEF ShownTo
<1>4. QED
  BY <1>2, <1>3 DEF Repeats

\* An OpenAI client has no prompt.
LEMMA RepeatsAnyPrompt ==
    ASSUME client.format = "openai", NEW p, NEW q, NEW h, NEW s, Repeats(p, h, s)
    PROVE  Repeats(q, h, s)
BY DEF Repeats

\* A turn of the client: what it says, and the messages it adds.
LEMMA SpokenTurn ==
    ASSUME ViewInv, NEW instruct \in BOOLEAN, Ask(instruct)
    PROVE  Repeats(prompt', history', spoken')
<1> DEFINE f == <<"system", turn + 1>>
           w == << <<"ask", turn + 1>> >>
           asks == Pending = <<>>
           instruction == IF instruct THEN <<f>> ELSE <<>>
           words == [i \in DOMAIN Pending |-> Outcome(i)]
           results == [i \in DOMAIN Pending |-> ToolResult(Pending[i].id, <<Outcome(i)>>)]
           open == client.format = "openai"
           hi == IF open THEN Map(LAMBDA g : OAIMessage("developer", <<g>>, <<>>, NoId), instruction)
                 ELSE <<>>
           si == Map(LAMBDA g : Said(g, "system"), instruction)
           hw == IF asks THEN IF open THEN <<OAIMessage("user", w, <<>>, NoId)>>
                              ELSE <<[role |-> "user", content |-> <<Text(w)>>]>>
                 ELSE IF open THEN Map(LAMBDA r : OAIMessage("tool", r.content, <<>>, r.id), results)
                      ELSE <<[role |-> "user", content |-> results]>>
           sw == IF asks THEN <<Said(<<"ask", turn + 1>>, "user")>>
                 ELSE Map(LAMBDA g : Said(g, "tool"), words)
<1>1. turn \in Nat /\ Pending \in Seq(Uses) /\ ClientType /\ Repeats(prompt, history, spoken)
  BY PendingType DEF ViewInv, CoreInv, Ask
<1>2. Repeats(instruction, hi, si)
  <2>1. CASE instruct
    <3>1. instruction = <<f>> /\ si = <<Said(f, "system")>>
      BY <2>1 DEF Map
    <3>2. hi = IF open THEN <<OAIMessage("developer", <<f>>, <<>>, NoId)>> ELSE <<>>
      BY <2>1 DEF Map
    <3>3. turn + 1 \in Nat
      BY <1>1
    <3> HIDE DEF instruction, hi, si
    <3>4. QED
      BY <3>1, <3>2, <3>3, InstructionRepeats
  <2>2. CASE ~instruct
    <3>1. instruction = <<>> /\ hi = <<>> /\ si = <<>>
      BY <2>2 DEF Map
    <3> HIDE DEF instruction, hi, si
    <3>2. QED
      BY <3>1, RepeatsNothing
  <2>3. QED
    BY <2>1, <2>2
<1>3. Repeats(<<>>, hw, sw)
  <2>1. CASE asks
    <3>1. turn + 1 \in Nat
      BY <1>1
    <3>2. hw = IF open THEN <<OAIMessage("user", w, <<>>, NoId)>>
               ELSE <<[role |-> "user", content |-> <<Text(w)>>]>>
      BY <2>1
    <3>3. sw = <<Said(<<"ask", turn + 1>>, "user")>>
      BY <2>1
    <3> HIDE DEF hw, sw
    <3>4. QED
      BY <3>1, <3>2, <3>3, QuestionRepeats
  <2>2. CASE ~asks
    <3>1. hw = IF open THEN Map(LAMBDA r : OAIMessage("tool", r.content, <<>>, r.id), results)
               ELSE <<[role |-> "user", content |-> results]>>
      BY <2>2
    <3>2. sw = Map(LAMBDA g : Said(g, "tool"), words)
      BY <2>2
    <3> HIDE DEF hw, sw
    <3>3. QED
      BY <1>1, <3>1, <3>2, ResultsRepeat
  <2>3. QED
    BY <2>1, <2>2
<1>4. spoken' = (spoken \o si) \o sw
  <2>1. CASE asks
    <3>1. Map(LAMBDA g : Said(g, "user"), w) = <<Said(<<"ask", turn + 1>>, "user")>>
      BY DEF Map
    <3>2. spoken' = (spoken \o si) \o Map(LAMBDA g : Said(g, "user"), w)
      BY <2>1 DEF Ask, Speak
    <3>3. QED
      BY <2>1, <3>1, <3>2
  <2>2. CASE ~asks
    <3>1. spoken' = (spoken \o si) \o Map(LAMBDA g : Said(g, IF asks THEN "user" ELSE "tool"), words)
      BY <2>2 DEF Ask, Speak
    <3>2. Map(LAMBDA g : Said(g, IF asks THEN "user" ELSE "tool"), words)
          = Map(LAMBDA g : Said(g, "tool"), words)
      BY <2>2 DEF Map
    <3>3. sw = Map(LAMBDA g : Said(g, "tool"), words)
      BY <2>2
    <3> HIDE DEF si, sw, words, asks
    <3>4. QED
      BY <3>1, <3>2, <3>3
  <2>3. QED
    BY <2>1, <2>2
<1>5. Repeats((prompt \o instruction) \o <<>>, (history \o hi) \o hw, (spoken \o si) \o sw)
  <2> HIDE DEF instruction, hi, si, hw, sw
  <2>1. Repeats(prompt \o instruction, history \o hi, spoken \o si)
    BY <1>1, <1>2, RepeatsJoin
  <2>2. QED
    BY <1>3, <2>1, RepeatsJoin
<1>6. CASE open
  <2>1. history' = (history \o hi) \o hw
    <3>1. CASE asks
      BY <1>6, <3>1 DEF Ask, Speak
    <3>2. CASE ~asks
      BY <1>6, <3>2 DEF Ask, Speak
    <3>3. QED
      BY <3>1, <3>2
  <2>2. QED
    BY <1>4, <1>5, <1>6, <2>1, RepeatsAnyPrompt
<1>7. CASE ~open
  <2> DEFINE m == [role |-> "user", content |-> IF asks THEN <<Text(w)>> ELSE results]
  <2>1. history' = Append(history, m) /\ prompt' = prompt \o instruction
    BY <1>7 DEF Ask, Speak
  <2>2. hi = <<>> /\ hw = <<m>>
    BY <1>7
  <2> HIDE DEF m, hi, hw, si, sw, instruction
  <2>3. history \in Seq(IRMessages) /\ prompt = FM(TellF(Orders), spoken)
    BY <1>1, <1>7 DEF Repeats
  <2>4. prompt \in Seq(Fragments)
    BY <1>1, <2>3, SpokenMakers, FMIsSeq DEF Repeats
  <2>5. history \o <<>> = history /\ history \o <<m>> = Append(history, m)
    <3>1. history \o <<>> = history
      BY <2>3, ConcatEmptySeq
    <3>2. <<m>> \in Seq(IRMessages)
      BY <1>3, <1>7, <2>2 DEF Repeats
    <3>3. QED
      BY <2>3, <3>1, <3>2, AppendIsConcat
  <2>6. (prompt \o instruction) \o <<>> = prompt \o instruction
    <3>1. instruction \in Seq(Fragments)
      <4>1. <<>> \in Seq(Fragments) /\ <<f>> \in Seq(Fragments)
        BY <1>1, EmptySeq DEF Fragments
      <4>2. QED
        BY <4>1 DEF instruction
    <3>2. prompt \o instruction \in Seq(Fragments)
      BY <2>4, <3>1, ConcatProperties
    <3>3. QED
      BY <3>2, ConcatEmptySeq
  <2>7. QED
    BY <1>4, <1>5, <2>1, <2>2, <2>5, <2>6
<1>8. QED
  BY <1>6, <1>7

LEMMA AskView ==
    ASSUME ViewInv, NEW instruct \in BOOLEAN, Ask(instruct)
    PROVE  ViewInv'
<1>1. CoreInv'
  BY AskCore DEF ViewInv
<1>2. Repeats(prompt, history, spoken)'
  BY SpokenTurn, RepeatsPrimed DEF Ask
<1>3. request' = RequestOf(prompt, history)'
  <2>1. request' = IF client.format = "openai" THEN NormalizeOAIRequest(history')
                   ELSE NormalizeAnthropicRequest([system |-> prompt', messages |-> history'])
    BY DEF Ask, Normalized
  <2>2. client' = client
    BY DEF Ask
  <2>3. RequestOf(prompt, history)'
        = IF client.format = "openai" THEN NormalizeOAIRequest(history')
          ELSE NormalizeAnthropicRequest([system |-> prompt', messages |-> history'])
    BY <2>2 DEF RequestOf, NormalizeOAIRequest, NormalizeAnthropicRequest, Map, Only
  <2>4. QED
    BY <2>1, <2>2, <2>3
<1>4. phase' = "routing"
  BY DEF Ask
<1>5. QED
  BY <1>1, <1>2, <1>3, <1>4 DEF ViewInv

\* A step that says nothing leaves the client's messages as they are.
LEMMA SilentStep ==
    ASSUME ViewInv, UNCHANGED <<client, prompt, history, spoken, request>>
    PROVE  /\ Repeats(prompt, history, spoken)'
           /\ phase # "client" => request' = RequestOf(prompt, history)'
<1>1. Repeats(prompt', history', spoken')
  BY DEF ViewInv
<1>2. Repeats(prompt, history, spoken)'
  BY <1>1, RepeatsPrimed
<1>3. RequestOf(prompt, history)' = RequestOf(prompt, history)
  BY DEF RequestOf, NormalizeOAIRequest, NormalizeAnthropicRequest, Map, Only
<1>4. QED
  BY <1>2, <1>3 DEF ViewInv

LEMMA ResendView == ViewInv /\ Resend => ViewInv'
BY ResendCore, SilentStep DEF ViewInv, Resend

LEMMA UnusableView == ViewInv /\ Unusable => ViewInv'
BY UnusableCore, SilentStep DEF ViewInv, Unusable, AttemptFails

LEMMA UnansweredView == ViewInv /\ Unanswered => ViewInv'
BY UnansweredCore, SilentStep DEF ViewInv, Unanswered, AttemptFails

LEMMA RefusedView ==
    ASSUME ViewInv, NEW status \in Statuses, Refused(status)
    PROVE  ViewInv'
BY RefusedCore, SilentStep DEF ViewInv, Refused, AttemptFails

LEMMA AnswersInEventsView == ViewInv /\ AnswersInEvents => ViewInv'
BY AnswersInEventsCore, SilentStep DEF ViewInv, AnswersInEvents, InEvents, AttemptFails

LEMMA SendView ==
    ASSUME ViewInv, NEW u \in Adapters, Send(u)
    PROVE  ViewInv'
<1>1. CoreInv'
  BY SendCore DEF ViewInv
<1>2. UNCHANGED <<client, prompt, history, spoken, request>> /\ phase = "routing" /\ phase' = "asked"
  BY DEF Send
<1>3. /\ Repeats(prompt, history, spoken)'
      /\ request' = RequestOf(prompt, history)'
  BY <1>2, SilentStep
<1>4. shown' = [by |-> u, body |-> Chat(u, request, NoAnswer).body]
  BY DEF Send
<1>5. shown'.by = u /\ shown'.body = Chat(u, request, NoAnswer).body
  BY <1>4
<1>6. (Chat(shown.by, request, NoAnswer).body)' = Chat(u, request, NoAnswer).body
  <2>1. (Chat(shown.by, request, NoAnswer).body)' = Chat(shown'.by, request', NoAnswer).body
    OBVIOUS
  <2>2. QED
    BY <1>2, <1>5, <2>1
<1>7. QED
  BY <1>1, <1>2, <1>3, <1>5, <1>6 DEF ViewInv

LEMMA AnswersView ==
    ASSUME ViewInv, NEW a \in Sayable(shown.by), Answers(a)
    PROVE  ViewInv'
<1> DEFINE u == shown.by
           x == Map(LAMBDA f : Said(f, a.by), a.text)
           y == Map(LAMBDA c : Said(c.args, a.by), a.calls)
           m == ToldMessage(a.text, Streamed(Kept(a.by, a)))
           resp == Chat(u, request, a).response
<1>1. CoreInv'
  BY AnswersCore DEF ViewInv
<1>2. /\ u \in Adapters /\ turn \in Nat /\ turn >= 1 /\ ClientType
      /\ Repeats(prompt, history, spoken) /\ client' = client
  BY AskedUpstream DEF Answers, CoreInv, ViewInv
<1>3. a \in Sayings /\ a.by = u
  BY <1>2, SayableType
<1>4. told'.message = m
  <2>1. a \in AnswerRecord /\ a.text \in Seq(Fragments)
    BY <1>3 DEF Sayings, AnswerRecord
  <2>2. resp.content = TextBlocks(a.text) \o Kept(u, a) /\ resp.stop \in Stops
    BY <1>2, <2>1, ChatResponse
  <2>3. Kept(u, a) \in Seq(Uses)
    BY <1>2, <2>1, KeptType
  <2>4. told' = Encoded(resp)
    BY DEF Answers
  <2> HIDE DEF resp
  <2>5. Encoded(resp).message = ToldMessage(a.text, Streamed(Kept(u, a)))
    BY <1>2, <2>1, <2>2, <2>3, ToldAnswer
  <2>6. QED
    BY <1>3, <2>4, <2>5
<1>5. history' = Append(history, m) /\ spoken' = (spoken \o x) \o y /\ prompt' = prompt
      /\ phase' = "client"
  <2>1. history' = Append(history, told'.message)
    BY DEF Answers
  <2>2. spoken' = (spoken \o x) \o y /\ prompt' = prompt /\ phase' = "client"
    BY DEF Answers
  <2>3. QED
    BY <1>4, <2>1, <2>2
<1>6. x \in Seq(Spokens) /\ y \in Seq(Spokens) /\ spoken \in Seq(Spokens) /\ SaidIn(a) = x \o y
  <2>1. x \in Seq(Spokens) /\ y \in Seq(Spokens)
    BY <1>3, AnswerGivesNoOrder
  <2>2. QED
    BY <1>2, <2>1 DEF Repeats, SaidIn
<1>7. Repeats(<<>>, <<m>>, SaidIn(a))
  BY <1>2, <1>3, AnswerRepeats
<1> HIDE DEF x, y, m
<1>8. (spoken \o x) \o y = spoken \o SaidIn(a)
  <2>1. (spoken \o x) \o y = spoken \o (x \o y)
    BY <1>6, ConcatAssociative
  <2>2. QED
    BY <1>6, <2>1
<1>9. Repeats(prompt \o <<>>, history \o <<m>>, spoken \o SaidIn(a))
  BY <1>2, <1>7, RepeatsJoin
<1>10. history \o <<m>> = history'
  <2>1. CASE client.format = "openai"
    <3>1. history \in Seq(OAIMessages) /\ <<m>> \in Seq(OAIMessages)
      BY <1>2, <1>7, <2>1 DEF Repeats
    <3>2. QED
      BY <1>5, <3>1, AppendIsConcat
  <2>2. CASE client.format # "openai"
    <3>1. history \in Seq(IRMessages) /\ <<m>> \in Seq(IRMessages)
      BY <1>2, <1>7, <2>2 DEF Repeats
    <3>2. QED
      BY <1>5, <3>1, AppendIsConcat
  <2>3. QED
    BY <2>1, <2>2
<1>11. Repeats(prompt', history', spoken')
  <2>1. CASE client.format = "openai"
    <3>1. Repeats(prompt \o <<>>, history', spoken')
      BY <1>5, <1>8, <1>9, <1>10
    <3>2. QED
      BY <2>1, <3>1, RepeatsAnyPrompt
  <2>2. CASE client.format # "openai"
    <3>1. prompt = FM(TellF(Orders), spoken)
      BY <1>2, <2>2 DEF Repeats
    <3>2. prompt \in Seq(Fragments)
      BY <1>6, <3>1, SpokenMakers, FMIsSeq
    <3>3. prompt \o <<>> = prompt
      BY <3>2, ConcatEmptySeq
    <3>4. QED
      BY <1>5, <1>8, <1>9, <1>10, <3>3
  <2>3. QED
    BY <2>1, <2>2
<1>12. QED
  BY <1>1, <1>2, <1>5, <1>11, RepeatsPrimed DEF ViewInv

LEMMA ViewInit == Init => ViewInv
BY CoreInit, RepeatsNothing DEF Init, ViewInv

LEMMA ViewNext == ViewInv /\ [Next]_vars => ViewInv'
<1>1. ViewInv /\ Next => ViewInv'
  BY AskView, ResendView, UnusableView, SendView, UnansweredView, RefusedView,
     AnswersInEventsView, AnswersView DEF Next
<1>2. ASSUME ViewInv, UNCHANGED vars PROVE ViewInv'
  <2>1. CoreInv'
    BY <1>2, CoreStutter DEF ViewInv
  <2>2. UNCHANGED <<client, prompt, history, spoken, request>> /\ UNCHANGED <<phase, shown>>
    BY <1>2 DEF vars
  <2>3. /\ Repeats(prompt, history, spoken)'
        /\ phase # "client" => request' = RequestOf(prompt, history)'
    BY <1>2, <2>2, SilentStep
  <2>4. QED
    BY <1>2, <2>1, <2>2, <2>3 DEF ViewInv
<1>3. QED
  BY <1>1, <1>2

\* UpstreamIsShownTheConversation for every pool of adapters and any number of
\* turns: whichever adapters answered the turns before and failed before it in
\* this one, an upstream is shown all that was said, once and in order, and its
\* own model or the alias, but for what its format has no place for.
THEOREM ConversationUpstreamIsShownTheConversation ==
    Spec => []UpstreamIsShownTheConversation
BY ViewInit, ViewNext, ViewIsTheConversation, PTL DEF Spec
-----------------------------------------------------------------------------
(* Calls and results: ResultsFollowTheirCalls needs of a message only       *)
(* whether it is an assistant's, which calls it makes, by their             *)
(* identifiers, and which it answers.                                       *)

Ties == [asst : BOOLEAN, calls : Seq(Ids), ans : Seq(Ids)]

\* The messages after i that stand before the next assistant message.
Later(s, i) == {j \in DOMAIN s : /\ j > i /\ ~s[j].asst
                                 /\ \A k \in DOMAIN s : s[k].asst => ~(i < k /\ k < j)}
Differ(ids) == \A c, d \in DOMAIN ids : ids[c] = ids[d] => c = d
\* Every result answers a call of the nearest assistant message before it.
ResultsHaveCalls(s) ==
    /\ \A i \in DOMAIN s : s[i].asst => Differ(s[i].calls)
    /\ \A j \in DOMAIN s : \A n \in DOMAIN s[j].ans :
           \E i \in DOMAIN s : /\ s[i].asst /\ j \in Later(s, i)
                               /\ \E c \in DOMAIN s[i].calls : s[i].calls[c] = s[j].ans[n]
\* x is the place of the only answer to id after i.
OnlyAnswer(s, i, id, x) ==
    /\ x[1] \in Later(s, i) /\ x[2] \in 1 .. 2
    /\ x[2] \in DOMAIN s[x[1]].ans /\ s[x[1]].ans[x[2]] = id
    /\ \A j \in Later(s, i) : \A n \in DOMAIN s[j].ans : s[j].ans[n] = id => x = <<j, n>>
CallsHaveResults(s) ==
    \A i \in DOMAIN s : s[i].asst =>
        \A c \in DOMAIN s[i].calls : \E x \in Nat \X Nat : OnlyAnswer(s, i, s[i].calls[c], x)

\* t follows a message with the calls ids, and answers each once.
Replies(t, ids) ==
    /\ t \in Seq(Ties) /\ \A j \in DOMAIN t : ~t[j].asst
    /\ \A j \in DOMAIN t : \A n \in DOMAIN t[j].ans :
           n \in 1 .. 2 /\ \E c \in DOMAIN ids : ids[c] = t[j].ans[n]
    /\ \A c \in DOMAIN ids : \E j \in DOMAIN t : \E n \in DOMAIN t[j].ans :
           /\ t[j].ans[n] = ids[c]
           /\ \A k \in DOMAIN t : \A m \in DOMAIN t[k].ans : t[k].ans[m] = ids[c] => k = j /\ m = n
\* t follows it, and answers nothing.
Mute(t) == t \in Seq(Ties) /\ \A j \in DOMAIN t : ~t[j].asst /\ t[j].ans = <<>>

\* Messages s, an assistant message a, and what follows it.
LEMMA TurnPlaces ==
    ASSUME NEW s \in Seq(Ties), NEW a \in Ties, NEW t \in Seq(Ties), a.asst,
           \A j \in DOMAIN t : ~t[j].asst
    PROVE  LET r == Append(s, a) \o t
               n == Len(s)
           IN  /\ r \in Seq(Ties) /\ n \in Nat /\ DOMAIN s = 1 .. n /\ DOMAIN t = 1 .. Len(t)
               /\ Len(t) \in Nat /\ DOMAIN r = 1 .. n + 1 + Len(t)
               /\ \A i \in 1 .. n : r[i] = s[i] /\ Later(r, i) = Later(s, i)
               /\ r[n + 1] = a /\ Later(r, n + 1) = {n + 1 + j : j \in DOMAIN t}
               /\ \A j \in DOMAIN t : r[n + 1 + j] = t[j]
<1> DEFINE p == Append(s, a)
           r == p \o t
           n == Len(s)
           k == Len(t)
<1>1. /\ n \in Nat /\ k \in Nat /\ DOMAIN s = 1 .. n /\ DOMAIN t = 1 .. k
      /\ p \in Seq(Ties) /\ Len(p) = n + 1 /\ p[n + 1] = a /\ \A i \in 1 .. n : p[i] = s[i]
  BY LenProperties, AppendProperties
<1> HIDE DEF p
<1>2. /\ r \in Seq(Ties) /\ Len(r) = n + 1 + k
      /\ \A i \in 1 .. n + 1 + k : r[i] = IF i <= n + 1 THEN p[i] ELSE t[i - (n + 1)]
  <2>1. /\ r \in Seq(Ties) /\ Len(r) = Len(p) + Len(t)
        /\ \A i \in 1 .. Len(p) + Len(t) :
               r[i] = IF i <= Len(p) THEN p[i] ELSE t[i - Len(p)]
    BY <1>1, ConcatProperties
  <2> HIDE DEF r
  <2>2. QED
    BY <1>1, <2>1
<1>3. DOMAIN r = 1 .. n + 1 + k
  BY <1>2, LenProperties
<1> HIDE DEF r, n, k
<1>4. (\A i \in 1 .. n : r[i] = s[i]) /\ r[n + 1] = a
  BY <1>1, <1>2
<1>5. ASSUME NEW j \in 1 .. k PROVE r[n + 1 + j] = t[j]
  <2>1. n + 1 + j \in 1 .. n + 1 + k /\ ~(n + 1 + j <= n + 1) /\ (n + 1 + j) - (n + 1) = j
    BY <1>1
  <2>2. QED
    BY <1>2, <2>1
<1>6. ASSUME NEW i \in 1 .. n PROVE Later(r, i) = Later(s, i)
  <2>1. ASSUME NEW j \in Later(r, i) PROVE j \in Later(s, i)
    <3>1. j \in 1 .. n + 1 + k /\ j > i /\ ~r[j].asst
      BY <1>3 DEF Later
    <3>2. n + 1 \in DOMAIN r /\ i < n + 1
      BY <1>1, <1>3
    <3>3. ~(n + 1 < j)
      BY <1>4, <3>2 DEF Later
    <3>4. j # n + 1
      BY <1>4, <3>1
    <3>5. j \in 1 .. n
      BY <1>1, <3>1, <3>3, <3>4
    <3>6. \A m \in 1 .. n : m \in DOMAIN r
      BY <1>1, <1>3
    <3>7. QED
      BY <1>1, <1>4, <3>1, <3>5, <3>6 DEF Later
  <2>2. ASSUME NEW j \in Later(s, i) PROVE j \in Later(r, i)
    <3>1. j \in 1 .. n /\ j > i /\ ~s[j].asst
      BY <1>1 DEF Later
    <3>2. j \in DOMAIN r /\ ~r[j].asst
      BY <1>1, <1>3, <1>4, <3>1
    <3>3. ASSUME NEW m \in DOMAIN r, r[m].asst PROVE ~(i < m /\ m < j)
      <4>1. m < j => m \in DOMAIN s /\ s[m].asst
        BY <1>1, <1>3, <1>4, <3>1, <3>3
      <4>2. QED
        BY <4>1 DEF Later
    <3>4. QED
      BY <3>1, <3>2, <3>3 DEF Later
  <2>3. QED
    BY <2>1, <2>2
<1>7. Later(r, n + 1) = {n + 1 + j : j \in DOMAIN t}
  <2>1. ASSUME NEW j \in Later(r, n + 1) PROVE j \in {n + 1 + m : m \in DOMAIN t}
    <3>1. j \in 1 .. n + 1 + k /\ j > n + 1
      BY <1>3 DEF Later
    <3>2. j - (n + 1) \in 1 .. k /\ n + 1 + (j - (n + 1)) = j
      BY <1>1, <3>1
    <3>3. QED
      BY <1>1, <3>2
  <2>2. ASSUME NEW j \in DOMAIN t PROVE n + 1 + j \in Later(r, n + 1)
    <3>1. j \in 1 .. k /\ r[n + 1 + j] = t[j] /\ ~t[j].asst
      BY <1>1, <1>5
    <3>2. n + 1 + j \in 1 .. n + 1 + k /\ n + 1 + j > n + 1
      BY <1>1, <3>1
    <3>3. ASSUME NEW m \in DOMAIN r, n + 1 < m PROVE ~r[m].asst
      <4>1. m - (n + 1) \in 1 .. k /\ n + 1 + (m - (n + 1)) = m
        BY <1>1, <1>3, <3>3
      <4>2. r[m] = t[m - (n + 1)]
        BY <1>5, <4>1
      <4>3. QED
        BY <1>1, <4>1, <4>2
    <3>4. QED
      BY <1>3, <3>1, <3>2, <3>3 DEF Later
  <2>3. QED
    BY <2>1, <2>2
<1>8. QED
  BY <1>1, <1>2, <1>3, <1>4, <1>5, <1>6, <1>7 DEF r, n, k, p

LEMMA ResultsOfTurn ==
    ASSUME NEW s \in Seq(Ties), NEW a \in Ties, NEW t, a.asst, a.ans = <<>>, Differ(a.calls),
           Replies(t, a.calls) \/ Mute(t), ResultsHaveCalls(s)
    PROVE  ResultsHaveCalls(Append(s, a) \o t)
<1> DEFINE r == Append(s, a) \o t
           n == Len(s)
<1>1. t \in Seq(Ties) /\ \A j \in DOMAIN t : ~t[j].asst
  BY DEF Replies, Mute
<1>2. /\ n \in Nat /\ DOMAIN s = 1 .. n /\ DOMAIN t = 1 .. Len(t)
      /\ Len(t) \in Nat /\ DOMAIN r = 1 .. n + 1 + Len(t)
      /\ \A i \in 1 .. n : r[i] = s[i] /\ Later(r, i) = Later(s, i)
      /\ r[n + 1] = a /\ Later(r, n + 1) = {n + 1 + j : j \in DOMAIN t}
      /\ \A j \in DOMAIN t : r[n + 1 + j] = t[j]
  BY <1>1, TurnPlaces
<1> HIDE DEF r, n
<1>3. \A i \in DOMAIN r : i \in 1 .. n \/ i = n + 1
                          \/ (i - (n + 1) \in DOMAIN t /\ n + 1 + (i - (n + 1)) = i)
  BY <1>2
<1>4. ASSUME NEW i \in DOMAIN r, r[i].asst PROVE Differ(r[i].calls)
  BY <1>1, <1>2, <1>3, <1>4 DEF ResultsHaveCalls
<1>5. ASSUME NEW j \in DOMAIN r, NEW m \in DOMAIN r[j].ans
      PROVE  \E i \in DOMAIN r : /\ r[i].asst /\ j \in Later(r, i)
                                 /\ \E c \in DOMAIN r[i].calls : r[i].calls[c] = r[j].ans[m]
  <2>1. CASE j \in 1 .. n
    <3>1. PICK i \in DOMAIN s : /\ s[i].asst /\ j \in Later(s, i)
                                /\ \E c \in DOMAIN s[i].calls : s[i].calls[c] = s[j].ans[m]
      BY <1>2, <1>5, <2>1 DEF ResultsHaveCalls
    <3>2. i \in DOMAIN r /\ r[i] = s[i] /\ r[j] = s[j] /\ Later(r, i) = Later(s, i)
      BY <1>2, <2>1
    <3>3. QED
      BY <3>1, <3>2
  <2>2. CASE j = n + 1
    BY <1>2, <1>5, <2>2
  <2>3. CASE j - (n + 1) \in DOMAIN t /\ n + 1 + (j - (n + 1)) = j
    <3> DEFINE k == j - (n + 1)
    <3>1. r[j] = t[k] /\ k \in DOMAIN t /\ j \in Later(r, n + 1)
      BY <1>2, <2>3
    <3>2. ~Mute(t)
      BY <1>5, <3>1 DEF Mute
    <3>3. \E c \in DOMAIN a.calls : a.calls[c] = t[k].ans[m]
      BY <1>5, <3>1, <3>2 DEF Replies
    <3>4. n + 1 \in DOMAIN r /\ r[n + 1] = a
      BY <1>2
    <3>5. QED
      BY <3>1, <3>3, <3>4
  <2>4. QED
    BY <1>3, <2>1, <2>2, <2>3
<1>6. ResultsHaveCalls(r)
  BY <1>4, <1>5 DEF ResultsHaveCalls
<1>7. QED
  BY <1>6 DEF r

LEMMA CallsOfTurn ==
    ASSUME NEW s \in Seq(Ties), NEW a \in Ties, NEW t, a.asst,
           Replies(t, a.calls), CallsHaveResults(s)
    PROVE  CallsHaveResults(Append(s, a) \o t)
<1> DEFINE r == Append(s, a) \o t
           n == Len(s)
<1>1. t \in Seq(Ties) /\ \A j \in DOMAIN t : ~t[j].asst
  BY DEF Replies
<1>2. /\ n \in Nat /\ DOMAIN s = 1 .. n /\ DOMAIN t = 1 .. Len(t)
      /\ Len(t) \in Nat /\ DOMAIN r = 1 .. n + 1 + Len(t)
      /\ \A i \in 1 .. n : r[i] = s[i] /\ Later(r, i) = Later(s, i)
      /\ r[n + 1] = a /\ Later(r, n + 1) = {n + 1 + j : j \in DOMAIN t}
      /\ \A j \in DOMAIN t : r[n + 1 + j] = t[j]
  BY <1>1, TurnPlaces
<1> HIDE DEF r, n
<1>3. ASSUME NEW i \in DOMAIN r, r[i].asst, NEW c \in DOMAIN r[i].calls
      PROVE  \E x \in Nat \X Nat : OnlyAnswer(r, i, r[i].calls[c], x)
  <2>1. CASE i \in 1 .. n
    <3>1. i \in DOMAIN s /\ r[i] = s[i] /\ Later(r, i) = Later(s, i)
      BY <1>2, <2>1
    <3>2. PICK x \in Nat \X Nat : OnlyAnswer(s, i, s[i].calls[c], x)
      BY <1>3, <3>1 DEF CallsHaveResults
    <3>3. \A j \in Later(s, i) : r[j] = s[j]
      BY <1>2 DEF Later
    <3>4. OnlyAnswer(r, i, s[i].calls[c], x)
      BY <3>1, <3>2, <3>3 DEF OnlyAnswer
    <3>5. QED
      BY <3>1, <3>4
  <2>2. CASE i = n + 1
    <3>1. r[i] = a /\ c \in DOMAIN a.calls
      BY <1>2, <1>3, <2>2
    <3>2. PICK j \in DOMAIN t : \E m \in DOMAIN t[j].ans :
              /\ t[j].ans[m] = a.calls[c]
              /\ \A k \in DOMAIN t : \A l \in DOMAIN t[k].ans :
                     t[k].ans[l] = a.calls[c] => k = j /\ l = m
      BY <3>1 DEF Replies
    <3>3. PICK m \in DOMAIN t[j].ans :
              /\ t[j].ans[m] = a.calls[c]
              /\ \A k \in DOMAIN t : \A l \in DOMAIN t[k].ans :
                     t[k].ans[l] = a.calls[c] => k = j /\ l = m
      BY <3>2
    <3>4. m \in 1 .. 2
      BY DEF Replies
    <3> DEFINE x == <<n + 1 + j, m>>
    <3>5. x \in Nat \X Nat /\ x[1] = n + 1 + j /\ x[2] = m
      BY <1>2, <3>4
    <3>6. x[1] \in Later(r, i) /\ r[x[1]] = t[j]
      BY <1>2, <2>2, <3>5
    <3>7. ASSUME NEW q \in Later(r, i), NEW l \in DOMAIN r[q].ans, r[q].ans[l] = a.calls[c]
          PROVE  x = <<q, l>>
      <4>1. PICK k \in DOMAIN t : q = n + 1 + k
        BY <1>2, <2>2
      <4>2. r[q] = t[k]
        BY <1>2, <4>1
      <4>3. k = j /\ l = m
        BY <3>3, <3>7, <4>2
      <4>4. QED
        BY <4>1, <4>3
    <3> HIDE DEF x
    <3>8. OnlyAnswer(r, i, a.calls[c], x)
      BY <3>3, <3>4, <3>5, <3>6, <3>7 DEF OnlyAnswer
    <3>9. QED
      BY <3>1, <3>5, <3>8
  <2>3. CASE i \notin 1 .. n /\ i # n + 1
    <3>1. i - (n + 1) \in DOMAIN t /\ n + 1 + (i - (n + 1)) = i
      BY <1>2, <2>3
    <3>2. QED
      BY <1>1, <1>2, <1>3, <3>1
  <2>4. QED
    BY <2>1, <2>2, <2>3
<1>4. CallsHaveResults(r)
  BY <1>3 DEF CallsHaveResults
<1>5. QED
  BY <1>4 DEF r

\* Messages of which none is an assistant's and none answers.
LEMMA MuteIsTied ==
    ASSUME NEW t, Mute(t)
    PROVE  ResultsHaveCalls(t) /\ CallsHaveResults(t)
BY DEF Mute, ResultsHaveCalls, CallsHaveResults
-----------------------------------------------------------------------------
(* The ties of the messages of a body.                                     *)

Named(calls) == [i \in DOMAIN calls |-> calls[i].id]
TieOf(m) == [asst |-> m.role = "assistant", calls |-> Named(CallsIn(m)), ans |-> AnsweredIn(m)]
\* Of an ir.Message, as an upstream whose format has identifiers is shown it.
TieF(u) == [m \in IRMessages |-> <<TieOf(IF u \in OAIShaped THEN denormalizeOAIMessage(m) ELSE m)>>]
\* Of a message of an OpenAI client.
SentTieF(u) == [m \in OAIMessages |-> IF IsSystem(m) THEN <<>> ELSE TieF(u)[NormalizeOAIMessage(m)]]
Quiet == [asst |-> FALSE, calls |-> <<>>, ans |-> <<>>]
Tied == Adapters \intersect (OAIShaped \union AnthropicShaped)

\* One element for each is a map.
LEMMA MapSingles ==
    ASSUME NEW A, NEW S, NEW F \in Makers(A, S)
    PROVE  \A s \in Seq(A) : \A t : t = [i \in DOMAIN s |-> t[i]]
               /\ (\A i \in DOMAIN s : t[i] \in S /\ F[s[i]] = <<t[i]>>) => FM(F, s) = t
<1>1. \A p \in Seq(A), q \in Seq(S) :
          Len(q) = Len(p) /\ (\A i \in 1 .. Len(p) : F[p[i]] = <<q[i]>>) => FM(F, p) = q
  BY FMSingles
<1>2. ASSUME NEW s \in Seq(A), NEW t, t = [i \in DOMAIN s |-> t[i]],
             \A i \in DOMAIN s : t[i] \in S /\ F[s[i]] = <<t[i]>>
      PROVE  FM(F, s) = t
  <2>1. DOMAIN s = 1 .. Len(s) /\ Len(s) \in Nat
    BY LenProperties
  <2>2. t \in Seq(S) /\ Len(t) = Len(s)
    <3>1. t \in [1 .. Len(s) -> S] /\ DOMAIN t = 1 .. Len(s)
      BY <1>2, <2>1
    <3>2. t \in Seq(S)
      BY <2>1, <3>1, SeqDef
    <3>3. QED
      BY <2>1, <3>1, <3>2, LenProperties
  <2>3. \A i \in 1 .. Len(s) : F[s[i]] = <<t[i]>>
    BY <1>2, <2>1
  <2>4. QED
    BY <1>1, <2>2, <2>3
<1>3. QED
  BY <1>2

LEMMA NamedType ==
    ASSUME NEW c, c \in Seq(Uses) \/ c \in Seq(Results)
    PROVE  Named(c) \in Seq(Ids) /\ DOMAIN Named(c) = DOMAIN c /\ Len(Named(c)) = Len(c)
<1>1. DOMAIN c = 1 .. Len(c) /\ Len(c) \in Nat /\ \A i \in 1 .. Len(c) : c[i].id \in Ids
  <2>1. (\A x \in Uses : x.id \in Ids) /\ \A x \in Results : x.id \in Ids
    BY DEF Uses, Results
  <2>2. CASE c \in Seq(Uses)
    BY <2>1, <2>2, LenProperties, ElementOfSeq
  <2>3. CASE c \in Seq(Results)
    BY <2>1, <2>3, LenProperties, ElementOfSeq
  <2>4. QED
    BY <2>2, <2>3
<1>2. Named(c) \in [1 .. Len(c) -> Ids]
  BY <1>1 DEF Named
<1>3. Named(c) \in Seq(Ids) /\ DOMAIN Named(c) = 1 .. Len(c)
  BY <1>1, <1>2, SeqDef
<1>4. QED
  BY <1>1, <1>3, LenProperties

LEMMA IRTie ==
    ASSUME NEW m \in IRMessages
    PROVE  /\ TieOf(m) = [asst |-> m.role = "assistant", calls |-> Named(FM(UseF, m.content)),
                          ans |-> Named(FM(ResultF, m.content))]
           /\ TieOf(m) \in Ties
<1> DEFINE c == m.content
           calls == FM(UseF, c)
           results == FM(ResultF, c)
<1>1. c \in Seq(Blocks) /\ "content" \in DOMAIN m
  BY DEF IRMessages
<1> HIDE DEF c
<1>2. Of(c, "tool_use") = calls /\ Of(c, "tool_result") = results
  BY <1>1, BlocksByOne
<1>3. calls \in Seq(Uses) /\ results \in Seq(Results)
  BY <1>1, BlockMakers, FMIsSeq
<1> HIDE DEF calls, results
<1>4. CallsIn(m) = calls
  BY <1>1, <1>2 DEF CallsIn, c
<1>5. AnsweredIn(m) = Map(LAMBDA b : b.id, results)
  BY <1>1, <1>2 DEF AnsweredIn, c
<1>6. Map(LAMBDA b : b.id, results) = Named(results)
  BY DEF Map, Named
<1>7. TieOf(m) = [asst |-> m.role = "assistant", calls |-> Named(calls), ans |-> Named(results)]
  BY <1>4, <1>5, <1>6 DEF TieOf
<1>8. Named(calls) \in Seq(Ids) /\ Named(results) \in Seq(Ids)
  BY <1>3, NamedType
<1>9. QED
  BY <1>7, <1>8 DEF Ties, calls, results, c

LEMMA OAITie ==
    ASSUME NEW m \in OAIMessages
    PROVE  /\ TieOf(m) = [asst |-> m.role = "assistant", calls |-> Named(m.calls),
                          ans |-> IF m.answers = NoId THEN <<>> ELSE <<m.answers>>]
           /\ TieOf(m) \in Ties
<1>1. "content" \notin DOMAIN m /\ m.calls \in Seq(Uses) /\ m.answers \in Ids
  BY DEF OAIMessages
<1>2. CallsIn(m) = m.calls /\ AnsweredIn(m) = IF m.answers = NoId THEN <<>> ELSE <<m.answers>>
  BY <1>1 DEF CallsIn, AnsweredIn
<1>3. Named(m.calls) \in Seq(Ids)
  BY <1>1, NamedType
<1>4. AnsweredIn(m) \in Seq(Ids)
  BY <1>1, <1>2, EmptySeq
<1>5. QED
  BY <1>2, <1>3, <1>4 DEF TieOf, Ties

\* An upstream of the OpenAI format is shown the results of tool messages only,
\* and of these the first.
LEMMA DenormalizedTie ==
    ASSUME NEW m \in IRMessages
    PROVE  LET results == FM(ResultF, m.content)
               d == denormalizeOAIMessage(m)
           IN  /\ d \in OAIMessages
               /\ TieOf(d) = IF m.role = "tool" /\ results # <<>>
                             THEN [asst |-> FALSE, calls |-> <<>>,
                                   ans |-> IF results[1].id = NoId THEN <<>> ELSE <<results[1].id>>]
                             ELSE [asst |-> m.role = "assistant",
                                   calls |-> Named(FM(UseF, m.content)), ans |-> <<>>]
<1> DEFINE c == m.content
           calls == FM(UseF, c)
           results == FM(ResultF, c)
           d == denormalizeOAIMessage(m)
<1>1. c \in Seq(Blocks)
  BY DEF IRMessages
<1>2. d \in OAIMessages
  BY DenormalizedMessage
<1> HIDE DEF c
<1>3. Of(c, "tool_use") = calls /\ Of(c, "tool_result") = results
  BY <1>1, BlocksByOne
<1> HIDE DEF calls, results
<1>4. CASE m.role = "tool" /\ results # <<>>
  <2>1. d.role = m.role /\ d.calls = <<>> /\ d.answers = results[1].id
    BY <1>3, <1>4 DEF denormalizeOAIMessage, c
  <2>2. Named(<<>>) = <<>>
    BY DEF Named
  <2> HIDE DEF d
  <2>3. QED
    BY <1>2, <1>4, <2>1, <2>2, OAITie DEF d, results, c
<1>5. CASE ~(m.role = "tool" /\ results # <<>>)
  <2>1. d.role = m.role /\ d.calls = calls /\ d.answers = NoId
    BY <1>3, <1>5 DEF denormalizeOAIMessage, c
  <2> HIDE DEF d
  <2>2. QED
    BY <1>2, <1>5, <2>1, OAITie DEF d, results, calls, c
<1>6. QED
  BY <1>4, <1>5

LEMMA TieMakers ==
    ASSUME NEW u
    PROVE  TieF(u) \in Makers(IRMessages, Ties) /\ SentTieF(u) \in Makers(OAIMessages, Ties)
<1>1. ASSUME NEW m \in IRMessages
      PROVE  TieOf(IF u \in OAIShaped THEN denormalizeOAIMessage(m) ELSE m) \in Ties
  BY IRTie, OAITie, DenormalizedTie
<1>2. TieF(u) \in Makers(IRMessages, Ties)
  BY <1>1 DEF TieF, Makers
<1>3. \A m \in OAIMessages : TieF(u)[NormalizeOAIMessage(m)] \in Seq(Ties)
  BY <1>2, NormalizedMessage, MakersType
<1>4. <<>> \in Seq(Ties)
  BY EmptySeq
<1>5. SentTieF(u) \in Makers(OAIMessages, Ties)
  BY <1>3, <1>4 DEF SentTieF, Makers
<1>6. QED
  BY <1>2, <1>5

\* One tie for each message is a map.
LEMMA TieSingles ==
    ASSUME NEW u
    PROVE  /\ \A s \in Seq(IRMessages) : \A q : q = [i \in DOMAIN s |-> q[i]]
                  /\ (\A i \in DOMAIN s : q[i] \in Ties /\ TieF(u)[s[i]] = <<q[i]>>)
                      => FM(TieF(u), s) = q
           /\ \A s \in Seq(OAIMessages) : \A q : q = [i \in DOMAIN s |-> q[i]]
                  /\ (\A i \in DOMAIN s : q[i] \in Ties /\ SentTieF(u)[s[i]] = <<q[i]>>)
                      => FM(SentTieF(u), s) = q
<1> DEFINE F == TieF(u)
           G == SentTieF(u)
<1>1. F \in Makers(IRMessages, Ties) /\ G \in Makers(OAIMessages, Ties)
  BY TieMakers
<1> HIDE DEF F, G
<1>2. \A s \in Seq(IRMessages) : \A q : q = [i \in DOMAIN s |-> q[i]]
          /\ (\A i \in DOMAIN s : q[i] \in Ties /\ F[s[i]] = <<q[i]>>) => FM(F, s) = q
  BY <1>1, MapSingles
<1>3. \A s \in Seq(OAIMessages) : \A q : q = [i \in DOMAIN s |-> q[i]]
          /\ (\A i \in DOMAIN s : q[i] \in Ties /\ G[s[i]] = <<q[i]>>) => FM(G, s) = q
  BY <1>1, MapSingles
<1>4. QED
  BY <1>2, <1>3 DEF F, G

\* What an OpenAI client has sent has the ties of what it is normalised to.
LEMMA SentAsNormalized ==
    ASSUME NEW u, NEW w \in Seq(OAIMessages)
    PROVE  FM(TieF(u), FM(NormF, w)) = FM(SentTieF(u), w)
<1> DEFINE F == TieF(u)
<1>1. F \in Makers(IRMessages, Ties)
  BY TieMakers
<1> HIDE DEF F
<1>2. ASSUME NEW m \in OAIMessages PROVE FM(F, NormF[m]) = SentTieF(u)[m]
  <2>1. NormalizeOAIMessage(m) \in IRMessages
    BY NormalizedMessage
  <2>2. FM(F, <<NormalizeOAIMessage(m)>>) = F[NormalizeOAIMessage(m)]
    BY <1>1, <2>1, FMOne
  <2>3. FM(F, <<>>) = <<>>
    BY FMEmpty
  <2>4. NormF[m] = IF IsSystem(m) THEN <<>> ELSE <<NormalizeOAIMessage(m)>>
    BY DEF NormF
  <2>5. SentTieF(u)[m] = IF IsSystem(m) THEN <<>> ELSE F[NormalizeOAIMessage(m)]
    BY DEF SentTieF, F
  <2>6. QED
    BY <2>2, <2>3, <2>4, <2>5
<1>3. FM(F, FM(NormF, w)) = FM([m \in OAIMessages |-> FM(F, NormF[m])], w)
  BY <1>1, NormMakers, FMThen
<1>4. [m \in OAIMessages |-> FM(F, NormF[m])] = SentTieF(u)
  BY <1>2 DEF SentTieF
<1>5. QED
  BY <1>3, <1>4 DEF F

\* A body has the ties of its request's messages, after a system message.
LEMMA OpenAITies ==
    ASSUME NEW u \in Adapters, u \in OAIShaped, NEW req \in IRRequests
    PROVE  LET ms == DenormalizeOAIRequest(Configured(u, req)).messages
           IN  Map(TieOf, ms) = (IF req.system = <<>> THEN <<>> ELSE <<Quiet>>)
                                    \o FM(TieF(u), req.messages)
<1> DEFINE h == req.messages
           f == req.system
           own == Map(denormalizeOAIMessage, h)
           F == [m \in OAIMessages |-> <<TieOf(m)>>]
           head == Heading(f)
<1>1. h \in Seq(IRMessages) /\ f \in Seq(Fragments)
      /\ DOMAIN h = 1 .. Len(h) /\ Len(h) \in Nat /\ \A i \in DOMAIN h : h[i] \in IRMessages
  BY LenProperties, ElementOfSeq DEF IRRequests
<1>2. DenormalizeOAIRequest(Configured(u, req)).messages = head \o own
  BY ConfiguredRequest DEF DenormalizeOAIRequest, Heading
<1>3. F \in Makers(OAIMessages, Ties)
  BY OAITie DEF Makers
<1>4. own \in Seq(OAIMessages)
  <2>1. own \in [1 .. Len(h) -> OAIMessages]
    BY <1>1, DenormalizedMessage DEF Map
  <2>2. QED
    BY <1>1, <2>1, SeqDef
<1>5. head \in Seq(OAIMessages)
  BY <1>1, HeadingSays
<1>6. Map(TieOf, own) = FM(TieF(u), h)
  <2> DEFINE t == Map(TieOf, own)
  <2>1. DOMAIN own = DOMAIN h /\ \A i \in DOMAIN h : own[i] = denormalizeOAIMessage(h[i])
    BY DEF Map
  <2>2. \A i \in DOMAIN h : t[i] = TieOf(denormalizeOAIMessage(h[i]))
    BY <2>1 DEF Map
  <2>3. \A i \in DOMAIN h : t[i] \in Ties /\ TieF(u)[h[i]] = <<t[i]>>
    BY <1>1, <2>2, DenormalizedTie, OAITie DEF TieF
  <2>4. t = [i \in DOMAIN h |-> t[i]]
    BY <2>1 DEF Map
  <2>5. \A s \in Seq(IRMessages) : \A q : q = [i \in DOMAIN s |-> q[i]]
            /\ (\A i \in DOMAIN s : q[i] \in Ties /\ TieF(u)[s[i]] = <<q[i]>>) => FM(TieF(u), s) = q
    BY TieSingles
  <2> HIDE DEF t, h
  <2>6. QED
    BY <1>1, <2>3, <2>4, <2>5 DEF t
<1>7. FM(F, head) = IF f = <<>> THEN <<>> ELSE <<Quiet>>
  <2>1. CASE f = <<>>
    BY <2>1, FMEmpty DEF Heading
  <2>2. CASE f # <<>>
    <3> DEFINE m == SystemMessage(f)
    <3>1. head = <<m>>
      BY <2>2 DEF Heading
    <3>2. <<>> \in Seq(Uses) /\ NoId \in Ids /\ Named(<<>>) = <<>>
      BY EmptySeq DEF NoId, Ids, Named
    <3>3. /\ m \in OAIMessages /\ m.calls = <<>> /\ m.answers = NoId
          /\ m.role # "assistant"
      BY <1>1, <3>2 DEF SystemMessage, OAIMessage, OAIMessages, Roles
    <3> HIDE DEF m
    <3>4. TieOf(m) = Quiet
      BY <3>2, <3>3, OAITie DEF Quiet
    <3>5. F[m] = <<Quiet>>
      BY <3>3, <3>4
    <3> HIDE DEF F
    <3>6. FM(F, <<m>>) = F[m]
      BY <1>3, <3>3, FMOne
    <3>7. QED
      BY <2>2, <3>1, <3>5, <3>6
  <2>3. QED
    BY <2>1, <2>2
<1>8. \A w \in Seq(OAIMessages) : Map(TieOf, w) = FM(F, w)
  <2>1. ASSUME NEW w \in Seq(OAIMessages) PROVE Map(TieOf, w) = FM(F, w)
    <3> DEFINE t == Map(TieOf, w)
    <3>1. \A i \in DOMAIN w : t[i] = TieOf(w[i]) /\ w[i] \in OAIMessages
      BY LenProperties, ElementOfSeq DEF Map
    <3>2. \A i \in DOMAIN w : t[i] \in Ties /\ F[w[i]] = <<t[i]>>
      BY <3>1, OAITie
    <3>3. t = [i \in DOMAIN w |-> t[i]]
      BY DEF Map
    <3> HIDE DEF t, F
    <3>4. FM(F, w) = t
      BY <1>3, <3>2, <3>3, MapSingles
    <3>5. QED
      BY <3>4 DEF t
  <2>2. QED
    BY <2>1
<1> HIDE DEF F, head, own
<1>9. \A p, q \in Seq(OAIMessages) : FM(F, p \o q) = FM(F, p) \o FM(F, q)
  BY <1>3, FMSplits
<1>10. head \o own \in Seq(OAIMessages)
  BY <1>4, <1>5, ConcatProperties
<1>11. Map(TieOf, head \o own) = FM(F, head) \o Map(TieOf, own)
  BY <1>4, <1>5, <1>8, <1>9, <1>10
<1>12. QED
  BY <1>2, <1>6, <1>7, <1>11

LEMMA AnthropicTies ==
    ASSUME NEW u \in Adapters, u \in AnthropicShaped, NEW req \in IRRequests
    PROVE  LET ms == DenormalizeAnthropicRequest(Configured(u, req)).messages
           IN  Map(TieOf, ms) = FM(TieF(u), req.messages)
<1> DEFINE h == req.messages
           t == Map(TieOf, h)
<1>1. h \in Seq(IRMessages) /\ DOMAIN h = 1 .. Len(h) /\ \A i \in DOMAIN h : h[i] \in IRMessages
  BY LenProperties, ElementOfSeq DEF IRRequests
<1>2. DenormalizeAnthropicRequest(Configured(u, req)).messages = h
  BY ConfiguredRequest DEF DenormalizeAnthropicRequest
<1>3. u \notin OAIShaped
  BY Kinds
<1>4. \A i \in DOMAIN h : t[i] = TieOf(h[i])
  BY DEF Map
<1>5. \A i \in DOMAIN h : t[i] \in Ties /\ TieF(u)[h[i]] = <<t[i]>>
  BY <1>1, <1>3, <1>4, IRTie DEF TieF
<1>6. t = [i \in DOMAIN h |-> t[i]]
  BY DEF Map
<1>7. \A s \in Seq(IRMessages) : \A q : q = [i \in DOMAIN s |-> q[i]]
          /\ (\A i \in DOMAIN s : q[i] \in Ties /\ TieF(u)[s[i]] = <<q[i]>>) => FM(TieF(u), s) = q
  BY TieSingles
<1> HIDE DEF h, t
<1>8. FM(TieF(u), h) = t
  BY <1>1, <1>5, <1>6, <1>7
<1>9. QED
  BY <1>2, <1>8 DEF h, t

LEMMA BodyTies ==
    ASSUME NEW u \in Tied, NEW req \in IRRequests, NEW a
    PROVE  \E q \in {<<>>, <<Quiet>>} :
               Map(TieOf, Chat(u, req, a).body.messages) = q \o FM(TieF(u), req.messages)
<1> DEFINE body == Chat(u, req, a).body
           t == FM(TieF(u), req.messages)
<1>1. t \in Seq(Ties)
  BY TieMakers, FMIsSeq DEF IRRequests
<1>2. CASE u \in OAIShaped
  <2>1. body = DenormalizeOAIRequest(Configured(u, req))
    BY <1>2 DEF OAIShaped, Chat, OpenAIChat, AzureChat, OAuthChat, WebChat
  <2>2. u \in Adapters
    BY DEF Tied
  <2>3. Map(TieOf, DenormalizeOAIRequest(Configured(u, req)).messages)
        = (IF req.system = <<>> THEN <<>> ELSE <<Quiet>>) \o t
    BY <1>2, <2>2, OpenAITies
  <2> HIDE DEF body, t
  <2>4. QED
    BY <2>1, <2>3 DEF body, t
<1>3. CASE u \in AnthropicShaped
  <2>1. body = DenormalizeAnthropicRequest(Configured(u, req))
    BY <1>3 DEF AnthropicShaped, Chat, AnthropicChat, BedrockChat, VertexChat, OAuthChat, WebChat
  <2>2. u \in Adapters
    BY DEF Tied
  <2>3. Map(TieOf, DenormalizeAnthropicRequest(Configured(u, req)).messages) = t
    BY <1>3, <2>2, AnthropicTies
  <2>4. <<>> \o t = t
    BY <1>1, ConcatEmptySeq
  <2> HIDE DEF body, t
  <2>5. QED
    BY <2>1, <2>3, <2>4 DEF body, t
<1>4. QED
  BY <1>2, <1>3 DEF Tied
-----------------------------------------------------------------------------
(* ResultsFollowTheirCalls, of the ties of a body.                          *)

LEMMA TiesOfBody ==
    ASSUME NEW ms, NEW s, s = Map(TieOf, ms), ResultsHaveCalls(s)
    PROVE  LET asst == {i \in DOMAIN ms : ms[i].role = "assistant"}
               After(i) == {j \in DOMAIN ms : j > i /\ \A k \in asst : ~(i < k /\ k < j)} \ asst
               Answering(i, id) == {x \in After(i) \X (1..2) :
                                       /\ x[2] \in DOMAIN AnsweredIn(ms[x[1]])
                                       /\ AnsweredIn(ms[x[1]])[x[2]] = id}
               Calling(i, id) == {n \in DOMAIN CallsIn(ms[i]) : CallsIn(ms[i])[n].id = id}
           IN  /\ \A j \in DOMAIN ms : \A n \in DOMAIN AnsweredIn(ms[j]) :
                      \E i \in asst : j \in After(i)
                                      /\ Cardinality(Calling(i, AnsweredIn(ms[j])[n])) = 1
               /\ CallsHaveResults(s) =>
                      \A i \in asst : \A n \in DOMAIN CallsIn(ms[i]) :
                          Cardinality(Answering(i, CallsIn(ms[i])[n].id)) = 1
<1> DEFINE asst == {i \in DOMAIN ms : ms[i].role = "assistant"}
           After(i) == {j \in DOMAIN ms : j > i /\ \A k \in asst : ~(i < k /\ k < j)} \ asst
           Answering(i, id) == {x \in After(i) \X (1..2) :
                                   /\ x[2] \in DOMAIN AnsweredIn(ms[x[1]])
                                   /\ AnsweredIn(ms[x[1]])[x[2]] = id}
           Calling(i, id) == {n \in DOMAIN CallsIn(ms[i]) : CallsIn(ms[i])[n].id = id}
<1>1. DOMAIN s = DOMAIN ms
  BY DEF Map
<1>2. ASSUME NEW i \in DOMAIN ms
      PROVE  /\ s[i].asst <=> ms[i].role = "assistant"
             /\ s[i].ans = AnsweredIn(ms[i])
             /\ DOMAIN s[i].calls = DOMAIN CallsIn(ms[i])
             /\ \A n \in DOMAIN CallsIn(ms[i]) : s[i].calls[n] = CallsIn(ms[i])[n].id
  <2> DEFINE b == ms[i].role = "assistant"
             calls == Named(CallsIn(ms[i]))
             ans == AnsweredIn(ms[i])
  <2>1. s[i] = [asst |-> b, calls |-> calls, ans |-> ans]
    BY DEF Map, TieOf
  <2>2. DOMAIN calls = DOMAIN CallsIn(ms[i])
        /\ \A n \in DOMAIN CallsIn(ms[i]) : calls[n] = CallsIn(ms[i])[n].id
    BY DEF Named
  <2> HIDE DEF b, calls, ans
  <2>3. s[i].asst = b /\ s[i].calls = calls /\ s[i].ans = ans
    BY <2>1
  <2>4. s[i].asst <=> ms[i].role = "assistant"
    BY <2>3, Zenon DEF b
  <2>5. QED
    BY <2>2, <2>3, <2>4 DEF ans
<1>3. asst = {i \in DOMAIN s : s[i].asst}
  BY <1>1, <1>2
<1>4. ASSUME NEW i PROVE After(i) = Later(s, i)
  BY <1>1, <1>3 DEF Later
<1>5. ASSUME NEW j \in DOMAIN ms, NEW n \in DOMAIN AnsweredIn(ms[j])
      PROVE  \E i \in asst : j \in After(i)
                             /\ Cardinality(Calling(i, AnsweredIn(ms[j])[n])) = 1
  <2>1. PICK i \in DOMAIN s : /\ s[i].asst /\ j \in Later(s, i)
                              /\ \E c \in DOMAIN s[i].calls : s[i].calls[c] = s[j].ans[n]
    BY <1>1, <1>2, <1>5 DEF ResultsHaveCalls
  <2>2. PICK c \in DOMAIN s[i].calls : s[i].calls[c] = s[j].ans[n]
    BY <2>1
  <2>3. Differ(s[i].calls)
    BY <2>1 DEF ResultsHaveCalls
  <2>4. i \in asst /\ j \in After(i)
    BY <1>3, <1>4, <2>1
  <2>5. Calling(i, AnsweredIn(ms[j])[n]) = {c}
    <3>1. i \in DOMAIN ms /\ s[j].ans = AnsweredIn(ms[j])
      BY <1>1, <1>2
    <3>2. \A m \in DOMAIN CallsIn(ms[i]) : CallsIn(ms[i])[m].id = AnsweredIn(ms[j])[n] <=> m = c
      BY <1>2, <2>2, <2>3, <3>1 DEF Differ
    <3>3. c \in DOMAIN CallsIn(ms[i])
      BY <1>2, <2>2, <3>1
    <3>4. QED
      BY <3>2, <3>3
  <2>6. Cardinality(Calling(i, AnsweredIn(ms[j])[n])) = 1
    BY <2>5, FS_Singleton
  <2>7. QED
    BY <2>4, <2>6
<1>6. ASSUME CallsHaveResults(s), NEW i \in asst, NEW n \in DOMAIN CallsIn(ms[i])
      PROVE  Cardinality(Answering(i, CallsIn(ms[i])[n].id)) = 1
  <2> DEFINE id == CallsIn(ms[i])[n].id
  <2>1. i \in DOMAIN s /\ s[i].asst /\ n \in DOMAIN s[i].calls /\ s[i].calls[n] = id
    BY <1>1, <1>2
  <2>2. PICK x \in Nat \X Nat : OnlyAnswer(s, i, id, x)
    BY <1>6, <2>1 DEF CallsHaveResults
  <2> HIDE DEF id
  <2>3. \A j \in After(i) : j \in DOMAIN ms /\ s[j].ans = AnsweredIn(ms[j])
    BY <1>2
  <2>4. After(i) = Later(s, i)
    BY <1>4
  <2> DEFINE A == After(i)
  <2> HIDE DEF asst, After
  <2>5. x \in A \X (1 .. 2)
    <3>1. x[1] \in A /\ x[2] \in 1 .. 2 /\ x = <<x[1], x[2]>>
      BY <2>2, <2>4 DEF OnlyAnswer
    <3>2. QED
      BY <3>1
  <2>6. x \in Answering(i, id)
    BY <2>2, <2>3, <2>4, <2>5 DEF OnlyAnswer
  <2>7. ASSUME NEW y \in Answering(i, id) PROVE y = x
    <3>1. /\ y[1] \in A /\ y[2] \in DOMAIN s[y[1]].ans /\ s[y[1]].ans[y[2]] = id
          /\ y = <<y[1], y[2]>>
      BY <2>3
    <3>2. QED
      BY <2>2, <2>4, <3>1 DEF OnlyAnswer
  <2>8. Answering(i, id) = {x}
    BY <2>6, <2>7
  <2>9. QED
    BY <2>8, FS_Singleton DEF id
<1>7. QED
  BY <1>5, <1>6
-----------------------------------------------------------------------------
(* The ties of what the client sends.                                      *)

HistoryTies(u, h) == IF client.format = "openai" THEN FM(SentTieF(u), h) ELSE FM(TieF(u), h)
Sent(h) == IF client.format = "openai" THEN h \in Seq(OAIMessages) ELSE h \in Seq(IRMessages)
Asking(ids) == [asst |-> TRUE, calls |-> ids, ans |-> <<>>]
\* Results reach an upstream of the OpenAI format from an OpenAI client only.
Answerable(u) == u \in OAIShaped => client.format = "openai"

LEMMA HistoryTiesJoin ==
    ASSUME NEW u, NEW h, NEW k, Sent(h), Sent(k)
    PROVE  /\ Sent(h \o k) /\ HistoryTies(u, h) \in Seq(Ties)
           /\ HistoryTies(u, h \o k) = HistoryTies(u, h) \o HistoryTies(u, k)
<1>1. TieF(u) \in Makers(IRMessages, Ties) /\ SentTieF(u) \in Makers(OAIMessages, Ties)
  BY TieMakers
<1>2. \A p, q \in Seq(IRMessages) : FM(TieF(u), p \o q) = FM(TieF(u), p) \o FM(TieF(u), q)
  BY <1>1, FMSplits
<1>3. \A p, q \in Seq(OAIMessages) :
          FM(SentTieF(u), p \o q) = FM(SentTieF(u), p) \o FM(SentTieF(u), q)
  BY <1>1, FMSplits
<1>4. (\A p \in Seq(IRMessages) : FM(TieF(u), p) \in Seq(Ties))
      /\ \A p \in Seq(OAIMessages) : FM(SentTieF(u), p) \in Seq(Ties)
  BY <1>1, FMIsSeq
<1>5. CASE client.format = "openai"
  <2>1. h \in Seq(OAIMessages) /\ k \in Seq(OAIMessages)
    BY <1>5 DEF Sent
  <2>2. h \o k \in Seq(OAIMessages)
    BY <2>1, ConcatProperties
  <2>3. QED
    BY <1>3, <1>4, <1>5, <2>1, <2>2 DEF Sent, HistoryTies
<1>6. CASE client.format # "openai"
  <2>1. h \in Seq(IRMessages) /\ k \in Seq(IRMessages)
    BY <1>6 DEF Sent
  <2>2. h \o k \in Seq(IRMessages)
    BY <2>1, ConcatProperties
  <2>3. QED
    BY <1>2, <1>4, <1>6, <2>1, <2>2 DEF Sent, HistoryTies
<1>7. QED
  BY <1>5, <1>6

\* One message of either client.
LEMMA OneTie ==
    ASSUME NEW u, NEW m
    PROVE  /\ client.format = "openai" /\ m \in OAIMessages =>
                  HistoryTies(u, <<m>>) = IF IsSystem(m) THEN <<>> ELSE TieF(u)[NormalizeOAIMessage(m)]
           /\ client.format # "openai" /\ m \in IRMessages => HistoryTies(u, <<m>>) = TieF(u)[m]
<1>1. TieF(u) \in Makers(IRMessages, Ties) /\ SentTieF(u) \in Makers(OAIMessages, Ties)
  BY TieMakers
<1>2. m \in IRMessages => FM(TieF(u), <<m>>) = TieF(u)[m]
  BY <1>1, FMOne
<1>3. m \in OAIMessages => FM(SentTieF(u), <<m>>) = SentTieF(u)[m]
  BY <1>1, FMOne
<1>4. m \in OAIMessages =>
          SentTieF(u)[m] = IF IsSystem(m) THEN <<>> ELSE TieF(u)[NormalizeOAIMessage(m)]
  BY DEF SentTieF
<1>5. QED
  BY <1>2, <1>3, <1>4 DEF HistoryTies

\* What an upstream is shown of an ir.Message, by its blocks.
LEMMA TieByBlocks ==
    ASSUME NEW u \in Tied, NEW m \in IRMessages
    PROVE  LET results == FM(ResultF, m.content)
               calls == Named(FM(UseF, m.content))
           IN  /\ results = <<>> =>
                      TieF(u)[m] = <<[asst |-> m.role = "assistant", calls |-> calls, ans |-> <<>>]>>
               /\ u \in OAIShaped /\ m.role # "tool" =>
                      TieF(u)[m] = <<[asst |-> m.role = "assistant", calls |-> calls, ans |-> <<>>]>>
               /\ u \notin OAIShaped =>
                      TieF(u)[m] = <<[asst |-> m.role = "assistant", calls |-> calls,
                                      ans |-> Named(results)]>>
               /\ u \in OAIShaped /\ m.role = "tool" /\ results # <<>> =>
                      TieF(u)[m] = <<[asst |-> FALSE, calls |-> <<>>,
                                      ans |-> IF results[1].id = NoId THEN <<>>
                                              ELSE <<results[1].id>>]>>
<1>1. Named(<<>>) = <<>>
  BY DEF Named
<1>2. TieF(u)[m] = <<TieOf(IF u \in OAIShaped THEN denormalizeOAIMessage(m) ELSE m)>>
  BY DEF TieF
<1>3. CASE u \in OAIShaped
  BY <1>1, <1>2, <1>3, DenormalizedTie
<1>4. CASE u \notin OAIShaped
  BY <1>1, <1>2, <1>4, IRTie
<1>5. QED
  BY <1>3, <1>4

LEMMA AnswerTie ==
    ASSUME ClientType, NEW u \in Tied, NEW t \in Seq(Fragments), NEW k \in Seq(Uses)
    PROVE  LET h == <<ToldMessage(t, k)>>
           IN  Sent(h) /\ HistoryTies(u, h) = <<Asking(Named(k))>>
<1> DEFINE c == TextBlocks(t) \o k
           n == [role |-> "assistant", content |-> c]
           m == OAIMessage("assistant", t, k, NoId)
<1>1. c \in Seq(Blocks) /\ FM(UseF, c) = k /\ FM(ResultF, c) = <<>>
  BY AnswerBlocks
<1> HIDE DEF c
<1>2. n \in IRMessages /\ n.role = "assistant" /\ n.content = c
  BY <1>1 DEF IRMessages, Roles
<1>3. n = [role |-> "assistant", content |-> c]
  OBVIOUS
<1> HIDE DEF n
<1>4. TieF(u)[n] = <<[asst |-> n.role = "assistant", calls |-> Named(k), ans |-> <<>>]>>
  BY <1>1, <1>2, TieByBlocks
<1>5. [asst |-> n.role = "assistant", calls |-> Named(k), ans |-> <<>>] = Asking(Named(k))
  BY <1>2 DEF Asking
<1>6. TieF(u)[n] = <<Asking(Named(k))>>
  BY <1>4, <1>5
<1>7. CASE client.format = "openai"
  <2>1. NoId \in Ids
    BY DEF NoId, Ids
  <2>2. m \in OAIMessages /\ m.role = "assistant" /\ m.text = t /\ m.calls = k
    BY <2>1 DEF OAIMessage, OAIMessages, Roles
  <2>3. ToldMessage(t, k) = m
    BY <1>7 DEF ToldMessage
  <2> HIDE DEF m
  <2>4. ~IsSystem(m)
    BY <2>2 DEF IsSystem
  <2>5. NormalizeOAIMessage(m) = n
    <3>1. NormalizeOAIMessage(m).role = "assistant" /\ NormalizeOAIMessage(m).content = c
          /\ NormalizeOAIMessage(m) \in IRMessages
      BY <2>2, NormalizedMessage DEF c
    <3>2. QED
      BY <1>3, <3>1 DEF IRMessages
  <2>6. HistoryTies(u, <<m>>) = TieF(u)[n]
    BY <1>7, <2>2, <2>4, <2>5, OneTie
  <2>7. QED
    BY <1>6, <1>7, <2>2, <2>3, <2>6 DEF Sent
<1>8. CASE client.format # "openai"
  <2>1. ToldMessage(t, k) = n
    BY <1>8 DEF ToldMessage, n, c
  <2>2. HistoryTies(u, <<n>>) = TieF(u)[n]
    BY <1>2, <1>8, OneTie
  <2>3. QED
    BY <1>2, <1>6, <1>8, <2>1, <2>2 DEF Sent
<1>9. QED
  BY <1>7, <1>8

LEMMA QuestionTie ==
    ASSUME NEW u \in Tied, NEW k \in Nat
    PROVE  LET w == << <<"ask", k>> >>
               h == IF client.format = "openai" THEN <<OAIMessage("user", w, <<>>, NoId)>>
                    ELSE <<[role |-> "user", content |-> <<Text(w)>>]>>
           IN  Sent(h) /\ HistoryTies(u, h) = <<Quiet>>
<1> DEFINE w == << <<"ask", k>> >>
           c == TextBlocks(w) \o <<>>
           n == [role |-> "user", content |-> c]
           m == OAIMessage("user", w, <<>>, NoId)
<1>1. w \in Seq(Fragments) /\ <<>> \in Seq(Uses) /\ w # <<>> /\ Named(<<>>) = <<>>
  BY EmptySeq DEF Fragments, Named
<1>2. c = <<Text(w)>>
  BY <1>1 DEF TextBlocks
<1> HIDE DEF w
<1>3. c \in Seq(Blocks) /\ FM(UseF, c) = <<>> /\ FM(ResultF, c) = <<>>
  BY <1>1, AnswerBlocks
<1> HIDE DEF c
<1>4. n \in IRMessages /\ n.role = "user" /\ n.content = c
  BY <1>3 DEF IRMessages, Roles
<1>5. n = [role |-> "user", content |-> c]
  OBVIOUS
<1> HIDE DEF n
<1>6. TieF(u)[n] = <<[asst |-> n.role = "assistant", calls |-> <<>>, ans |-> <<>>]>>
  BY <1>1, <1>3, <1>4, TieByBlocks
<1>7. [asst |-> n.role = "assistant", calls |-> <<>>, ans |-> <<>>] = Quiet
  BY <1>4 DEF Quiet
<1>8. TieF(u)[n] = <<Quiet>>
  BY <1>6, <1>7
<1>9. CASE client.format = "openai"
  <2>1. NoId \in Ids
    BY DEF NoId, Ids
  <2>2. m \in OAIMessages /\ m.role = "user" /\ m.text = w /\ m.calls = <<>>
    BY <1>1, <2>1 DEF OAIMessage, OAIMessages, Roles
  <2> HIDE DEF m
  <2>3. ~IsSystem(m)
    BY <2>2 DEF IsSystem
  <2>4. NormalizeOAIMessage(m) = n
    <3>1. NormalizeOAIMessage(m).role = "user" /\ NormalizeOAIMessage(m).content = c
          /\ NormalizeOAIMessage(m) \in IRMessages
      BY <2>2, NormalizedMessage DEF c
    <3>2. QED
      BY <1>5, <3>1 DEF IRMessages
  <2>5. HistoryTies(u, <<m>>) = TieF(u)[n]
    BY <1>9, <2>2, <2>3, <2>4, OneTie
  <2>6. QED
    BY <1>8, <1>9, <2>2, <2>5 DEF Sent, m, w
<1>10. CASE client.format # "openai"
  <2>1. HistoryTies(u, <<n>>) = TieF(u)[n]
    BY <1>4, <1>10, OneTie
  <2>2. n = [role |-> "user", content |-> <<Text(w)>>]
    BY <1>2, <1>5
  <2>3. QED
    BY <1>4, <1>8, <1>10, <2>1, <2>2 DEF Sent, w
<1>11. QED
  BY <1>9, <1>10

\* An instruction leaves no message in a body.
LEMMA InstructionTie ==
    ASSUME client.format = "openai", NEW u, NEW k \in Nat
    PROVE  LET h == <<OAIMessage("developer", << <<"system", k>> >>, <<>>, NoId)>>
           IN  Sent(h) /\ HistoryTies(u, h) = <<>>
<1> DEFINE w == << <<"system", k>> >>
           m == OAIMessage("developer", w, <<>>, NoId)
<1>1. w \in Seq(Fragments) /\ <<>> \in Seq(Uses) /\ NoId \in Ids
  BY EmptySeq DEF Fragments, NoId, Ids
<1> HIDE DEF w
<1>2. m \in OAIMessages /\ m.role = "developer"
  BY <1>1 DEF OAIMessage, OAIMessages, Roles
<1> HIDE DEF m
<1>3. IsSystem(m)
  BY <1>2 DEF IsSystem
<1>4. HistoryTies(u, <<m>>) = <<>>
  BY <1>2, <1>3, OneTie
<1>5. Sent(<<m>>)
  BY <1>2 DEF Sent
<1>6. QED
  BY <1>4, <1>5 DEF m, w

\* Identifiers that a client can answer by.
Numbered(k) == Len(k) <= 2 /\ Differ(Named(k)) /\ \A i \in DOMAIN k : k[i].id # NoId

\* The results of an OpenAI client: one message for each.
LEMMA ToolTies ==
    ASSUME client.format = "openai", turn \in Nat, NEW u \in Tied, NEW calls \in Seq(Uses),
           Numbered(calls)
    PROVE  LET results == [i \in DOMAIN calls |-> ToolResult(calls[i].id, <<Outcome(i)>>)]
               h == Map(LAMBDA r : OAIMessage("tool", r.content, <<>>, r.id), results)
           IN  Sent(h) /\ Replies(HistoryTies(u, h), Named(calls))
<1> DEFINE results == [i \in DOMAIN calls |-> ToolResult(calls[i].id, <<Outcome(i)>>)]
           h == Map(LAMBDA r : OAIMessage("tool", r.content, <<>>, r.id), results)
           t == [i \in DOMAIN h |-> [asst |-> FALSE, calls |-> <<>>, ans |-> <<calls[i].id>>]]
<1>1. /\ DOMAIN calls = 1 .. Len(calls) /\ Len(calls) \in Nat
      /\ \A i \in 1 .. Len(calls) : calls[i].id \in Ids /\ calls[i].id # NoId
  <2>1. \A c \in Uses : c.id \in Ids
    BY DEF Uses
  <2>2. QED
    BY <2>1, LenProperties, ElementOfSeq DEF Numbered
<1>2. \A i \in DOMAIN calls : Outcome(i) \in Fragments
  BY <1>1 DEF Outcome, Fragments
<1>3. DOMAIN h = DOMAIN calls
      /\ \A i \in DOMAIN calls : h[i] = OAIMessage("tool", <<Outcome(i)>>, <<>>, calls[i].id)
  BY DEF Map, ToolResult
<1> HIDE DEF h
<1>4. ASSUME NEW i \in DOMAIN calls
      PROVE  h[i] \in OAIMessages /\ SentTieF(u)[h[i]] = <<t[i]>> /\ t[i] \in Ties
  <2> DEFINE id == calls[i].id
             c == <<Outcome(i)>>
             m == h[i]
             r == ToolResult(id, c)
             n == NormalizeOAIMessage(m)
  <2>1. id \in Ids /\ id # NoId /\ c \in Seq(Fragments) /\ <<>> \in Seq(Uses)
    BY <1>1, <1>2, EmptySeq
  <2>2. /\ r \in Blocks /\ UseF[r] = <<>> /\ ResultF[r] = <<r>> /\ r.id = id
    <3>1. r \in Blocks /\ UseF[r] = <<>> /\ ResultF[r] = <<r>>
      BY <1>1, <1>2, ResultBlock
    <3>2. r.id = id
      BY DEF ToolResult
    <3>3. QED
      BY <3>1, <3>2
  <2>3. m = OAIMessage("tool", c, <<>>, id)
    BY <1>3
  <2>4. t[i] = [asst |-> FALSE, calls |-> <<>>, ans |-> <<id>>]
    BY <1>3
  <2> HIDE DEF id, c, m, t
  <2>5. m \in OAIMessages /\ m.role = "tool" /\ m.answers = id /\ m.text = c
    BY <2>1, <2>3 DEF OAIMessage, OAIMessages, Roles
  <2>6. n \in IRMessages /\ n.role = "tool" /\ n.content = <<r>>
    BY <2>5, NormalizedMessage
  <2> HIDE DEF n, r
  <2>7. FM(UseF, <<r>>) = <<>> /\ FM(ResultF, <<r>>) = <<r>>
    BY <2>2, BlockMakers, FMOne
  <2>8. Named(<<>>) = <<>> /\ Named(<<r>>) = <<id>>
    BY <2>2 DEF Named
  <2>9. ~IsSystem(m)
    BY <2>5 DEF IsSystem
  <2>10. [asst |-> n.role = "assistant", calls |-> <<>>, ans |-> <<id>>] = t[i]
    BY <2>4, <2>6
  <2>11. TieF(u)[n] = <<t[i]>>
    <3> DEFINE b == n.role = "assistant"
               w == [asst |-> b, calls |-> <<>>, ans |-> <<id>>]
               v == [asst |-> FALSE, calls |-> <<>>,
                     ans |-> IF r.id = NoId THEN <<>> ELSE <<r.id>>]
               s == <<r>>
    <3>1. FM(UseF, n.content) = <<>> /\ FM(ResultF, n.content) = s
      BY <2>6, <2>7
    <3>2. s # <<>> /\ s[1] = r /\ Named(s) = <<id>>
      BY <2>8
    <3> HIDE DEF s
    <3>3. CASE u \in OAIShaped
      <4>1. TieF(u)[n] = <<v>>
        BY <2>6, <3>1, <3>2, <3>3, TieByBlocks
      <4>2. v = t[i]
        BY <2>1, <2>2, <2>4
      <4>3. QED
        BY <4>1, <4>2
    <3>4. CASE u \notin OAIShaped
      <4>1. TieF(u)[n] = <<w>>
        BY <2>6, <2>8, <3>1, <3>2, <3>4, TieByBlocks
      <4>2. QED
        BY <2>10, <4>1
    <3>5. QED
      BY <3>3, <3>4
  <2>12. SentTieF(u)[m] = <<t[i]>>
    BY <2>5, <2>9, <2>11 DEF SentTieF, n
  <2>13. t[i] \in Ties
    BY <2>1, <2>4, EmptySeq DEF Ties
  <2>14. QED
    BY <2>5, <2>12, <2>13 DEF m
<1>5. h \in Seq(OAIMessages)
  <2>1. h = [i \in DOMAIN h |-> h[i]]
    BY DEF h, Map
  <2>2. h \in [1 .. Len(calls) -> OAIMessages]
    BY <1>1, <1>3, <1>4, <2>1
  <2>3. QED
    BY <1>1, <2>2, SeqDef
<1>6. FM(SentTieF(u), h) = t
  <2>1. \A s \in Seq(OAIMessages) : \A q : q = [i \in DOMAIN s |-> q[i]]
            /\ (\A i \in DOMAIN s : q[i] \in Ties /\ SentTieF(u)[s[i]] = <<q[i]>>)
                => FM(SentTieF(u), s) = q
    BY TieSingles
  <2>2. t = [i \in DOMAIN h |-> t[i]]
    OBVIOUS
  <2>3. \A i \in DOMAIN h : t[i] \in Ties /\ SentTieF(u)[h[i]] = <<t[i]>>
    BY <1>3, <1>4
  <2> HIDE DEF t
  <2>4. QED
    BY <1>5, <2>1, <2>2, <2>3
<1>7. /\ DOMAIN t = DOMAIN calls /\ \A i \in DOMAIN calls : ~t[i].asst /\ t[i].ans = <<calls[i].id>>
  BY <1>3
<1>8. t \in Seq(Ties)
  <2>1. \A s \in Seq(OAIMessages) : FM(SentTieF(u), s) \in Seq(Ties)
    BY TieMakers, FMIsSeq
  <2> HIDE DEF t
  <2>2. QED
    BY <1>5, <1>6, <2>1
<1> DEFINE ids == Named(calls)
<1>9. DOMAIN ids = DOMAIN calls /\ (\A i \in DOMAIN calls : ids[i] = calls[i].id) /\ Differ(ids)
  BY DEF Named, Numbered
<1> HIDE DEF t, ids
<1>10. \A j \in DOMAIN t : DOMAIN t[j].ans = {1} /\ t[j].ans[1] = ids[j]
  BY <1>7, <1>9
<1>11. Replies(t, ids)
  <2>1. \A j \in DOMAIN t : \A n \in DOMAIN t[j].ans :
            n \in 1 .. 2 /\ \E c \in DOMAIN ids : ids[c] = t[j].ans[n]
    BY <1>7, <1>9, <1>10
  <2>2. ASSUME NEW c \in DOMAIN ids
        PROVE  \E j \in DOMAIN t : \E n \in DOMAIN t[j].ans :
                  /\ t[j].ans[n] = ids[c]
                  /\ \A k \in DOMAIN t : \A m \in DOMAIN t[k].ans :
                         t[k].ans[m] = ids[c] => k = j /\ m = n
    <3>1. c \in DOMAIN t /\ 1 \in DOMAIN t[c].ans /\ t[c].ans[1] = ids[c]
      BY <1>7, <1>9, <1>10
    <3>2. \A k \in DOMAIN t : \A m \in DOMAIN t[k].ans : t[k].ans[m] = ids[c] => k = c /\ m = 1
      BY <1>7, <1>9, <1>10 DEF Differ
    <3>3. QED
      BY <3>1, <3>2
  <2>3. \A j \in DOMAIN t : ~t[j].asst
    BY <1>7
  <2>4. QED
    BY <1>8, <2>1, <2>2, <2>3 DEF Replies
<1>12. HistoryTies(u, h) = t /\ Sent(h)
  BY <1>5, <1>6 DEF HistoryTies, Sent
<1>13. QED
  BY <1>11, <1>12 DEF h, ids

\* Those of an Anthropic client: all in one message.
LEMMA ResultTies ==
    ASSUME client.format # "openai", turn \in Nat, NEW u \in Tied, NEW calls \in Seq(Uses),
           Numbered(calls)
    PROVE  LET results == [i \in DOMAIN calls |-> ToolResult(calls[i].id, <<Outcome(i)>>)]
               h == <<[role |-> "user", content |-> results]>>
               t == HistoryTies(u, h)
           IN  Sent(h) /\ IF u \in OAIShaped THEN Mute(t) ELSE Replies(t, Named(calls))
<1> DEFINE results == [i \in DOMAIN calls |-> ToolResult(calls[i].id, <<Outcome(i)>>)]
           m == [role |-> "user", content |-> results]
           ids == Named(calls)
<1>1. /\ DOMAIN calls = 1 .. Len(calls) /\ Len(calls) \in Nat
      /\ \A i \in 1 .. Len(calls) : calls[i].id \in Ids
  <2>1. \A c \in Uses : c.id \in Ids
    BY DEF Uses
  <2>2. QED
    BY <2>1, LenProperties, ElementOfSeq
<1>2. \A i \in DOMAIN calls : Outcome(i) \in Fragments
  BY <1>1 DEF Outcome, Fragments
<1>3. ASSUME NEW i \in DOMAIN calls
      PROVE  /\ results[i] \in Blocks /\ results[i] \in Results /\ results[i].id = calls[i].id
             /\ UseF[results[i]] = <<>> /\ ResultF[results[i]] = <<results[i]>>
  <2> DEFINE r == ToolResult(calls[i].id, <<Outcome(i)>>)
  <2>1. results[i] = r
    OBVIOUS
  <2>2. r \in Blocks /\ UseF[r] = <<>> /\ ResultF[r] = <<r>>
    BY <1>1, <1>2, ResultBlock
  <2>3. r.id = calls[i].id /\ r \in Results
    BY <1>1, <1>2 DEF ToolResult, Results
  <2>4. QED
    BY <2>1, <2>2, <2>3
<1>4. DOMAIN results = DOMAIN calls /\ results = [i \in DOMAIN results |-> results[i]]
  OBVIOUS
<1> HIDE DEF results
<1>5. results \in Seq(Blocks) /\ results \in Seq(Results)
  <2>1. results \in [1 .. Len(calls) -> Blocks] /\ results \in [1 .. Len(calls) -> Results]
    BY <1>1, <1>3, <1>4
  <2>2. QED
    BY <1>1, <2>1, SeqDef
<1>6. FM(UseF, results) = <<>>
  <2>1. \A s \in Seq(Blocks) : (\A i \in 1 .. Len(s) : UseF[s[i]] = <<>>) => FM(UseF, s) = <<>>
    BY BlockMakers, FMNothing
  <2>2. Len(results) = Len(calls)
    BY <1>1, <1>4, <1>5, LenProperties
  <2>3. QED
    BY <1>1, <1>3, <1>5, <2>1, <2>2
<1>7. FM(ResultF, results) = results
  <2>1. \A s \in Seq(Blocks) : \A q : q = [i \in DOMAIN s |-> q[i]]
            /\ (\A i \in DOMAIN s : q[i] \in Results /\ ResultF[s[i]] = <<q[i]>>)
                => FM(ResultF, s) = q
    BY BlockMakers, MapSingles
  <2>2. QED
    BY <1>3, <1>4, <1>5, <2>1
<1>8. m \in IRMessages /\ m.role = "user" /\ m.content = results
  BY <1>5 DEF IRMessages, Roles
<1> HIDE DEF m
<1>9. Named(<<>>) = <<>> /\ Named(results) = ids
  <2>1. Named(<<>>) = <<>>
    BY DEF Named
  <2>2. Named(results) = Named(calls)
    BY <1>3, <1>4 DEF Named
  <2>3. QED
    BY <2>1, <2>2
<1>10. /\ DOMAIN ids = DOMAIN calls /\ Differ(ids) /\ Len(calls) <= 2 /\ ids \in Seq(Ids)
  BY NamedType DEF Numbered
<1> HIDE DEF ids
<1>11. HistoryTies(u, <<m>>) = TieF(u)[m] /\ Sent(<<m>>)
  BY <1>8, OneTie DEF Sent
<1>12. CASE u \in OAIShaped
  <2> DEFINE q == [asst |-> m.role = "assistant", calls |-> <<>>, ans |-> <<>>]
  <2>1. TieF(u)[m] = <<q>>
    BY <1>6, <1>8, <1>9, <1>12, TieByBlocks
  <2>2. q = Quiet
    BY <1>8 DEF Quiet
  <2>3. Quiet \in Ties /\ ~Quiet.asst /\ Quiet.ans = <<>>
    BY EmptySeq DEF Quiet, Ties
  <2> HIDE DEF q
  <2>4. Mute(<<Quiet>>)
    BY <2>3 DEF Mute
  <2>5. QED
    BY <1>11, <1>12, <2>1, <2>2, <2>4 DEF m, results
<1>13. CASE u \notin OAIShaped
  <2> DEFINE q == [asst |-> m.role = "assistant", calls |-> <<>>, ans |-> ids]
             t == <<q>>
  <2>1. TieF(u)[m] = t
    BY <1>6, <1>7, <1>8, <1>9, <1>13, TieByBlocks
  <2>2. q \in Ties /\ ~q.asst /\ q.ans = ids
    BY <1>8, <1>10, EmptySeq DEF Ties
  <2>3. DOMAIN t = {1} /\ t[1] = q /\ t \in Seq(Ties)
    BY <2>2
  <2> HIDE DEF q, t
  <2>4. \A n \in DOMAIN ids : n \in 1 .. 2
    BY <1>1, <1>10
  <2>5. Replies(t, ids)
    <3>1. \A j \in DOMAIN t : \A n \in DOMAIN t[j].ans :
              n \in 1 .. 2 /\ \E c \in DOMAIN ids : ids[c] = t[j].ans[n]
      BY <2>2, <2>3, <2>4
    <3>2. ASSUME NEW c \in DOMAIN ids
          PROVE  \E j \in DOMAIN t : \E n \in DOMAIN t[j].ans :
                    /\ t[j].ans[n] = ids[c]
                    /\ \A k \in DOMAIN t : \A l \in DOMAIN t[k].ans :
                           t[k].ans[l] = ids[c] => k = j /\ l = n
      <4>1. 1 \in DOMAIN t /\ c \in DOMAIN t[1].ans /\ t[1].ans[c] = ids[c]
        BY <2>2, <2>3
      <4>2. \A k \in DOMAIN t : \A l \in DOMAIN t[k].ans : t[k].ans[l] = ids[c] => k = 1 /\ l = c
        BY <1>10, <2>2, <2>3 DEF Differ
      <4>3. QED
        BY <4>1, <4>2
    <3>3. \A j \in DOMAIN t : ~t[j].asst
      BY <2>2, <2>3
    <3>4. QED
      BY <2>3, <3>1, <3>2, <3>3 DEF Replies
  <2>6. QED
    BY <1>11, <1>13, <2>1, <2>5 DEF m, results, ids
<1>14. QED
  BY <1>12, <1>13
-----------------------------------------------------------------------------
(* The invariant of the ties.                                               *)

\* With an OpenAI upstream's system message before them, or none.
Heads == {<<>>, <<Quiet>>}
InOrder(u, s) == ResultsHaveCalls(s) /\ (Answerable(u) => CallsHaveResults(s))
\* t is what may follow the calls ids.
Meets(u, t, ids) == Replies(t, ids) \/ (Mute(t) /\ ~Answerable(u))

\* While a request is on its way, its messages are in order; while the client
\* has the turn, those before the last answer are, and its calls are numbered.
TieInv ==
    /\ ViewInv
    /\ turn = 0 => history = <<>>
    /\ phase = "client" /\ turn > 0 => Numbered(ToldCalls)
    /\ \A u \in Tied :
           IF phase # "client" THEN \A q \in Heads : InOrder(u, q \o HistoryTies(u, history))
           ELSE turn > 0 => \E s \in Seq(Ties) :
                                /\ HistoryTies(u, history) = Append(s, Asking(Named(ToldCalls)))
                                /\ \A q \in Heads : InOrder(u, q \o s)

LEMMA MuteReplies == ASSUME NEW t, Mute(t) PROVE Replies(t, <<>>)
BY DEF Mute, Replies

LEMMA HeadTies ==
    ASSUME NEW q \in Heads
    PROVE  Mute(q) /\ \A t : Mute(t) => Mute(q \o t)
<1>1. Quiet \in Ties /\ ~Quiet.asst /\ Quiet.ans = <<>>
  BY EmptySeq DEF Quiet, Ties
<1>2. Mute(q)
  <2>1. CASE q = <<>>
    BY <2>1, EmptySeq DEF Mute
  <2>2. CASE q = <<Quiet>>
    <3>1. q \in Seq(Ties) /\ DOMAIN q = {1} /\ q[1] = Quiet
      BY <1>1, <2>2
    <3>2. QED
      BY <1>1, <3>1 DEF Mute
  <2>3. QED
    BY <2>1, <2>2 DEF Heads
<1>3. ASSUME NEW t, Mute(t) PROVE Mute(q \o t)
  <2> DEFINE r == q \o t
  <2>1. q \in Seq(Ties) /\ t \in Seq(Ties)
    BY <1>2, <1>3 DEF Mute
  <2>2. /\ r \in Seq(Ties) /\ Len(r) = Len(q) + Len(t)
        /\ \A i \in 1 .. Len(q) + Len(t) : r[i] = IF i <= Len(q) THEN q[i] ELSE t[i - Len(q)]
    BY <2>1, ConcatProperties
  <2> HIDE DEF r
  <2>3. /\ DOMAIN q = 1 .. Len(q) /\ Len(q) \in Nat /\ DOMAIN t = 1 .. Len(t) /\ Len(t) \in Nat
        /\ DOMAIN r = 1 .. Len(q) + Len(t)
    BY <2>1, <2>2, LenProperties
  <2>4. ASSUME NEW i \in DOMAIN r PROVE ~r[i].asst /\ r[i].ans = <<>>
    <3>1. CASE i <= Len(q)
      <4>1. i \in DOMAIN q /\ r[i] = q[i]
        BY <2>2, <2>3, <3>1
      <4>2. QED
        BY <1>2, <4>1 DEF Mute
    <3>2. CASE ~(i <= Len(q))
      <4>1. i - Len(q) \in DOMAIN t /\ r[i] = t[i - Len(q)]
        BY <2>2, <2>3, <3>2
      <4>2. QED
        BY <1>3, <4>1 DEF Mute
    <3>3. QED
      BY <3>1, <3>2
  <2>5. QED
    BY <2>2, <2>4 DEF Mute, r
<1>4. QED
  BY <1>2, <1>3

\* The first messages of a conversation.
LEMMA FirstInOrder ==
    ASSUME NEW u, NEW t, Mute(t), NEW q \in Heads
    PROVE  InOrder(u, q \o t)
BY HeadTies, MuteIsTied DEF InOrder

LEMMA TurnAssociates ==
    ASSUME NEW q \in Seq(Ties), NEW s \in Seq(Ties), NEW a \in Ties, NEW t \in Seq(Ties)
    PROVE  q \o (Append(s, a) \o t) = Append(q \o s, a) \o t
<1> DEFINE x == <<a>>
           z == s \o x
           p == q \o s
<1>1. x \in Seq(Ties)
  OBVIOUS
<1>2. p \in Seq(Ties)
  BY ConcatProperties
<1>3. Append(s, a) = z /\ Append(p, a) = p \o x
  BY <1>2, AppendIsConcat
<1> HIDE DEF x
<1>4. z \in Seq(Ties)
  BY <1>1, ConcatProperties
<1>5. p \o x = q \o z
  BY <1>1, ConcatAssociative
<1> HIDE DEF z
<1>6. (q \o z) \o t = q \o (z \o t)
  BY <1>4, ConcatAssociative
<1> HIDE DEF p
<1>7. q \o (Append(s, a) \o t) = q \o (z \o t) /\ Append(p, a) \o t = (q \o z) \o t
  BY <1>3, <1>5
<1>8. QED
  BY <1>6, <1>7 DEF p

\* A turn: an answer, and what the client sends next.
LEMMA TurnInOrder ==
    ASSUME NEW u, NEW s \in Seq(Ties), NEW ids \in Seq(Ids), NEW t, Differ(ids),
           Meets(u, t, ids), NEW q \in Heads, InOrder(u, q \o s)
    PROVE  InOrder(u, q \o (Append(s, Asking(ids)) \o t))
<1> DEFINE a == Asking(ids)
           p == q \o s
<1>1. a \in Ties /\ a.asst /\ a.ans = <<>> /\ a.calls = ids
  BY EmptySeq DEF Asking, Ties
<1>2. q \in Seq(Ties) /\ t \in Seq(Ties)
  BY HeadTies DEF Mute, Meets, Replies
<1> HIDE DEF a
<1>3. p \in Seq(Ties)
  BY <1>2, ConcatProperties
<1>4. q \o (Append(s, a) \o t) = Append(p, a) \o t
  BY <1>1, <1>2, TurnAssociates
<1> HIDE DEF p
<1>5. ResultsHaveCalls(p) /\ (Answerable(u) => CallsHaveResults(p))
  BY DEF InOrder, p
<1>6. ResultsHaveCalls(Append(p, a) \o t)
  BY <1>1, <1>3, <1>5, ResultsOfTurn DEF Meets
<1>7. ASSUME Answerable(u) PROVE CallsHaveResults(Append(p, a) \o t)
  <2>1. Replies(t, a.calls)
    BY <1>1, <1>7 DEF Meets
  <2>2. QED
    BY <1>1, <1>3, <1>5, <1>7, <2>1, CallsOfTurn
<1>8. QED
  BY <1>4, <1>6, <1>7 DEF InOrder, a
-----------------------------------------------------------------------------
(* The calls the client answers.                                            *)

LEMMA StreamedNames ==
    ASSUME NEW k \in Seq(Uses)
    PROVE  /\ DOMAIN Streamed(k) = DOMAIN k
           /\ \A i \in DOMAIN k : Streamed(k)[i].id = k[i].id
<1>1. \A b \in Uses : Partial(b).id = b.id
  BY DEF Partial, Uses
<1>2. \A i \in DOMAIN k : k[i] \in Uses
  BY LenProperties, ElementOfSeq
<1>3. DOMAIN Partials(k) = DOMAIN k /\ \A i \in DOMAIN k : Partials(k)[i].id = k[i].id
  BY <1>1, <1>2 DEF Partials
<1>4. QED
  BY <1>3 DEF Streamed

LEMMA AnswerNumbers ==
    ASSUME ClientType, turn \in Nat, NEW u \in Adapters, NEW a \in Sayable(u)
    PROVE  Numbered(Streamed(Kept(a.by, a)))
<1> DEFINE k == Kept(a.by, a)
           c == a.calls
           x == CallNo(1)
           y == CallNo(2)
           n == Streamed(k)
<1>1. a \in Sayings /\ c \in {<<>>, <<x>>, <<x, y>>}
  BY SayableType DEF Sayable
<1>2. k \in Seq(Uses) /\ n \in Seq(Uses)
  BY <1>1, KeptTold
<1>3. x.id = <<"id", turn, 1>> /\ y.id = <<"id", turn, 2>>
  BY DEF CallNo, ToolUse
<1> HIDE DEF x, y
<1>4. /\ DOMAIN c \in {{}, {1}, {1, 2}}
      /\ 1 \in DOMAIN c => c[1] = x
      /\ 2 \in DOMAIN c => c[2] = y
  <2>1. CASE c = <<>>
    BY <2>1
  <2>2. CASE c = <<x>>
    BY <2>2
  <2>3. CASE c = <<x, y>>
    BY <2>3
  <2>4. QED
    BY <1>1, <2>1, <2>2, <2>3
<1> HIDE DEF c
<1>5. \/ k = <<>>
      \/ k = [i \in DOMAIN c |-> ToolUse(<<"ollama", i>>, c[i].args)]
      \/ k = c
  BY DEF Kept, c
<1> HIDE DEF k
<1>6. /\ DOMAIN k \in {{}, {1}, {1, 2}}
      /\ \A i \in DOMAIN k : k[i].id # NoId
      /\ \A i, j \in DOMAIN k : k[i].id = k[j].id => i = j
  <2>1. CASE k = <<>>
    BY <2>1
  <2>2. CASE k = [i \in DOMAIN c |-> ToolUse(<<"ollama", i>>, c[i].args)]
    <3>1. DOMAIN k = DOMAIN c /\ \A i \in DOMAIN c : k[i].id = <<"ollama", i>>
      BY <2>2 DEF ToolUse
    <3>2. QED
      BY <1>4, <3>1 DEF NoId
  <2>3. CASE k = c
    <3>1. \A i \in DOMAIN c : c[i].id = <<"id", turn, i>>
      BY <1>3, <1>4
    <3>2. QED
      BY <1>4, <2>3, <3>1 DEF NoId
  <2>4. QED
    BY <1>5, <2>1, <2>2, <2>3
<1>7. DOMAIN n = DOMAIN k /\ \A i \in DOMAIN k : n[i].id = k[i].id
  BY <1>2, StreamedNames
<1> HIDE DEF n
<1>8. Len(n) <= 2
  <2>1. DOMAIN n = 1 .. Len(n) /\ Len(n) \in Nat
    BY <1>2, LenProperties
  <2>2. 3 \notin DOMAIN n
    BY <1>6, <1>7
  <2>3. QED
    BY <2>1, <2>2
<1>9. Differ(Named(n))
  <2>1. DOMAIN Named(n) = DOMAIN n /\ \A i \in DOMAIN n : Named(n)[i] = n[i].id
    BY DEF Named
  <2>2. QED
    BY <1>6, <1>7, <2>1 DEF Differ
<1>10. Numbered(n)
  BY <1>6, <1>7, <1>8, <1>9 DEF Numbered
<1>11. QED
  BY <1>10 DEF n, k
-----------------------------------------------------------------------------
(* Each step keeps the ties.                                                *)

\* What the client adds in its turn, after the messages so far.
LEMMA AddedMessages ==
    ASSUME ViewInv, NEW instruct \in BOOLEAN, Ask(instruct)
    PROVE  LET open == client.format = "openai"
               w == << <<"ask", turn + 1>> >>
               results == [i \in DOMAIN Pending |-> ToolResult(Pending[i].id, <<Outcome(i)>>)]
               hi == IF open /\ instruct
                     THEN <<OAIMessage("developer", << <<"system", turn + 1>> >>, <<>>, NoId)>>
                     ELSE <<>>
               hw == IF Pending = <<>>
                     THEN IF open THEN <<OAIMessage("user", w, <<>>, NoId)>>
                          ELSE <<[role |-> "user", content |-> <<Text(w)>>]>>
                     ELSE IF open
                          THEN Map(LAMBDA r : OAIMessage("tool", r.content, <<>>, r.id), results)
                          ELSE <<[role |-> "user", content |-> results]>>
           IN  Sent(hw) => history' = (history \o hi) \o hw
<1> DEFINE open == client.format = "openai"
           w == << <<"ask", turn + 1>> >>
           results == [i \in DOMAIN Pending |-> ToolResult(Pending[i].id, <<Outcome(i)>>)]
           hi == IF open /\ instruct
                 THEN <<OAIMessage("developer", << <<"system", turn + 1>> >>, <<>>, NoId)>>
                 ELSE <<>>
           hw == IF Pending = <<>>
                 THEN IF open THEN <<OAIMessage("user", w, <<>>, NoId)>>
                      ELSE <<[role |-> "user", content |-> <<Text(w)>>]>>
                 ELSE IF open
                      THEN Map(LAMBDA r : OAIMessage("tool", r.content, <<>>, r.id), results)
                      ELSE <<[role |-> "user", content |-> results]>>
<1>1. CASE open
  <2> DEFINE f == <<"system", turn + 1>>
             instruction == IF instruct THEN <<f>> ELSE <<>>
             k == Map(LAMBDA g : OAIMessage("developer", <<g>>, <<>>, NoId), instruction)
  <2>1. k = hi
    <3>1. CASE instruct
      BY <1>1, <3>1 DEF Map
    <3>2. CASE ~instruct
      BY <1>1, <3>2 DEF Map
    <3>3. QED
      BY <3>1, <3>2
  <2>2. history' = (history \o k) \o hw
    <3>1. CASE Pending = <<>>
      BY <1>1, <3>1 DEF Ask, Speak
    <3>2. CASE Pending # <<>>
      BY <1>1, <3>2 DEF Ask, Speak
    <3>3. QED
      BY <3>1, <3>2
  <2> HIDE DEF k, hi, hw
  <2>3. QED
    BY <2>1, <2>2 DEF hi, hw
<1>2. CASE ~open
  <2> DEFINE m == [role |-> "user", content |-> IF Pending = <<>> THEN <<Text(w)>> ELSE results]
  <2>1. history' = Append(history, m)
    BY <1>2 DEF Ask, Speak
  <2>2. hi = <<>> /\ hw = <<m>>
    BY <1>2
  <2>3. history \in Seq(IRMessages)
    BY <1>2 DEF ViewInv, Repeats
  <2> HIDE DEF m, hi, hw
  <2>4. ASSUME Sent(hw) PROVE history' = (history \o hi) \o hw
    <3>1. <<m>> \in Seq(IRMessages)
      BY <1>2, <2>2, <2>4 DEF Sent
    <3>2. history \o <<>> = history /\ history \o <<m>> = Append(history, m)
      BY <2>3, <3>1, ConcatEmptySeq, AppendIsConcat
    <3>3. QED
      BY <2>1, <2>2, <3>2
  <2>5. QED
    BY <2>4 DEF hi, hw
<1>3. QED
  BY <1>1, <1>2

\* It answers the calls it was told of, where its format lets it.
LEMMA AddedTies ==
    ASSUME ViewInv, NEW instruct \in BOOLEAN, Ask(instruct), NEW u \in Tied, Numbered(Pending)
    PROVE  \E t : /\ Meets(u, t, Named(Pending)) /\ (Pending = <<>> => Mute(t))
                  /\ HistoryTies(u, history') = HistoryTies(u, history) \o t
<1> DEFINE open == client.format = "openai"
           w == << <<"ask", turn + 1>> >>
           results == [i \in DOMAIN Pending |-> ToolResult(Pending[i].id, <<Outcome(i)>>)]
           hi == IF open /\ instruct
                 THEN <<OAIMessage("developer", << <<"system", turn + 1>> >>, <<>>, NoId)>>
                 ELSE <<>>
           hw == IF Pending = <<>>
                 THEN IF open THEN <<OAIMessage("user", w, <<>>, NoId)>>
                      ELSE <<[role |-> "user", content |-> <<Text(w)>>]>>
                 ELSE IF open
                      THEN Map(LAMBDA r : OAIMessage("tool", r.content, <<>>, r.id), results)
                      ELSE <<[role |-> "user", content |-> results]>>
           t == HistoryTies(u, hw)
<1>1. turn \in Nat /\ turn + 1 \in Nat /\ Pending \in Seq(Uses)
  <2>1. turn \in Nat /\ Pending \in Seq(Uses)
    BY PendingType DEF ViewInv, Ask
  <2>2. QED
    BY <2>1
<1>2. Sent(history)
  BY DEF ViewInv, Repeats, Sent
<1>3. Sent(hw) => history' = (history \o hi) \o hw
  BY AddedMessages
<1>4. Sent(hi) /\ HistoryTies(u, hi) = <<>>
  <2>1. CASE open /\ instruct
    BY <1>1, <2>1, InstructionTie
  <2>2. CASE ~(open /\ instruct)
    <3>1. hi = <<>>
      BY <2>2
    <3>2. Sent(<<>>) /\ HistoryTies(u, <<>>) = <<>>
      BY EmptySeq, FMEmpty DEF Sent, HistoryTies
    <3>3. QED
      BY <3>1, <3>2
  <2>3. QED
    BY <2>1, <2>2
<1>5. Sent(hw) /\ Meets(u, t, Named(Pending)) /\ (Pending = <<>> => Mute(t))
  <2>1. CASE Pending = <<>>
    <3>1. hw = IF open THEN <<OAIMessage("user", w, <<>>, NoId)>>
               ELSE <<[role |-> "user", content |-> <<Text(w)>>]>>
      BY <2>1
    <3> HIDE DEF hw
    <3>2. Sent(hw) /\ HistoryTies(u, hw) = <<Quiet>>
      BY <1>1, <3>1, QuestionTie
    <3>3. Mute(t)
      BY <3>2, HeadTies DEF Heads
    <3>4. Named(Pending) = <<>>
      BY <2>1 DEF Named
    <3>5. Replies(t, Named(Pending))
      BY <3>3, <3>4, MuteReplies
    <3>6. QED
      BY <3>2, <3>3, <3>5 DEF Meets
  <2>2. CASE Pending # <<>> /\ open
    <3>1. hw = Map(LAMBDA r : OAIMessage("tool", r.content, <<>>, r.id), results)
      BY <2>2
    <3> HIDE DEF hw
    <3>2. Sent(hw) /\ Replies(t, Named(Pending))
      BY <1>1, <2>2, <3>1, ToolTies
    <3>3. QED
      BY <2>2, <3>2 DEF Meets
  <2>3. CASE Pending # <<>> /\ ~open
    <3>1. hw = <<[role |-> "user", content |-> results]>>
      BY <2>3
    <3> HIDE DEF hw
    <3>2. Sent(hw) /\ IF u \in OAIShaped THEN Mute(t) ELSE Replies(t, Named(Pending))
      BY <1>1, <2>3, <3>1, ResultTies
    <3>3. u \in OAIShaped => ~Answerable(u)
      BY <2>3 DEF Answerable
    <3>4. QED
      BY <2>3, <3>2, <3>3 DEF Meets
  <2>4. QED
    BY <2>1, <2>2, <2>3
<1> HIDE DEF hi, hw
<1>6. HistoryTies(u, history') = HistoryTies(u, history) \o t
  <2>1. /\ Sent(history \o hi) /\ HistoryTies(u, history) \in Seq(Ties)
        /\ HistoryTies(u, history \o hi) = HistoryTies(u, history) \o HistoryTies(u, hi)
    BY <1>2, <1>4, HistoryTiesJoin
  <2>2. HistoryTies(u, history \o hi) = HistoryTies(u, history)
    BY <1>4, <2>1, ConcatEmptySeq
  <2>3. HistoryTies(u, (history \o hi) \o hw) = HistoryTies(u, history \o hi) \o t
    BY <1>5, <2>1, HistoryTiesJoin
  <2>4. QED
    BY <1>3, <1>5, <2>2, <2>3
<1>7. QED
  BY <1>5, <1>6

LEMMA TiesPrimed ==
    ASSUME client' = client
    PROVE  /\ \A u : Answerable(u)' <=> Answerable(u)
           /\ \A u, s : InOrder(u, s)' <=> InOrder(u, s)
           /\ \A u : HistoryTies(u, history)' = HistoryTies(u, history')
<1>1. \A u : Answerable(u)' <=> Answerable(u)
  BY DEF Answerable
<1>2. \A u, s : InOrder(u, s)' <=> InOrder(u, s)
  BY <1>1 DEF InOrder
<1>3. \A u : HistoryTies(u, history)' = HistoryTies(u, history')
  BY DEF HistoryTies
<1>4. QED
  BY <1>1, <1>2, <1>3

LEMMA TieInit == Init => TieInv
<1>1. ASSUME Init PROVE phase = "client" /\ turn = 0 /\ history = <<>> /\ ~(turn > 0)
  BY <1>1 DEF Init
<1>2. QED
  BY <1>1, ViewInit DEF TieInv

LEMMA AskTies ==
    ASSUME TieInv, NEW instruct \in BOOLEAN, Ask(instruct)
    PROVE  TieInv'
<1>1. ViewInv' /\ ViewInv /\ CoreInv
  BY AskView DEF TieInv, ViewInv
<1>2. phase = "client" /\ phase' = "routing" /\ client' = client /\ turn' = turn + 1
  BY DEF Ask
<1>3. turn \in Nat /\ Pending \in Seq(Uses) /\ Pending = IF turn = 0 THEN <<>> ELSE ToldCalls
  BY <1>1, <1>2, PendingType, PendingCalls
<1>4. Numbered(Pending)
  <2>1. CASE turn = 0
    BY <1>3, <2>1 DEF Numbered, Named, Differ
  <2>2. CASE turn # 0
    BY <1>2, <1>3, <2>2 DEF TieInv
  <2>3. QED
    BY <2>1, <2>2
<1>5. ASSUME NEW u \in Tied, NEW q \in Heads
      PROVE  InOrder(u, q \o HistoryTies(u, history'))
  <2>1. PICK t : /\ Meets(u, t, Named(Pending)) /\ (Pending = <<>> => Mute(t))
                 /\ HistoryTies(u, history') = HistoryTies(u, history) \o t
    BY <1>1, <1>4, AddedTies
  <2>2. CASE turn = 0
    <3>1. Mute(t) /\ t \in Seq(Ties)
      BY <1>3, <2>1, <2>2 DEF Mute
    <3>2. HistoryTies(u, history) = <<>>
      BY <2>2, FMEmpty DEF TieInv, HistoryTies
    <3>3. HistoryTies(u, history') = t
      BY <2>1, <3>1, <3>2, ConcatEmptySeq
    <3>4. QED
      BY <3>1, <3>3, FirstInOrder
  <2>3. CASE turn # 0
    <3> DEFINE ids == Named(Pending)
    <3>1. turn > 0 /\ Pending = ToldCalls
      BY <1>3, <2>3
    <3>2. PICK s \in Seq(Ties) : /\ HistoryTies(u, history) = Append(s, Asking(ids))
                                 /\ \A p \in Heads : InOrder(u, p \o s)
      BY <1>2, <3>1 DEF TieInv
    <3>3. ids \in Seq(Ids) /\ Differ(ids)
      BY <1>3, <1>4, NamedType DEF Numbered
    <3> HIDE DEF ids
    <3>4. InOrder(u, q \o (Append(s, Asking(ids)) \o t))
      BY <2>1, <3>2, <3>3, TurnInOrder DEF ids
    <3>5. QED
      BY <2>1, <3>2, <3>4
  <2>4. QED
    BY <2>2, <2>3
<1>6. turn' # 0 /\ phase' # "client"
  BY <1>2, <1>3
<1>7. QED
  BY <1>1, <1>2, <1>5, <1>6, TiesPrimed DEF TieInv

\* The upstream's answer, which the client repeats.
LEMMA AnswersTies ==
    ASSUME TieInv, NEW a \in Sayable(shown.by), Answers(a)
    PROVE  TieInv'
<1> DEFINE k == Streamed(Kept(a.by, a))
           m == ToldMessage(a.text, k)
<1>1. ViewInv' /\ ViewInv /\ CoreInv
  BY AnswersView DEF TieInv, ViewInv
<1>2. /\ shown.by \in Adapters /\ turn \in Nat /\ turn >= 1 /\ ClientType /\ Sent(history)
      /\ client' = client /\ answer' = a /\ turn' = turn /\ phase = "asked" /\ phase' = "client"
  <2>1. Sent(history)
    BY <1>1 DEF ViewInv, Repeats, Sent
  <2>2. QED
    BY <1>1, <2>1, AskedUpstream DEF Answers, CoreInv
<1>3. a \in Sayings /\ a.text \in Seq(Fragments) /\ k \in Seq(Uses) /\ Numbered(k)
  BY <1>2, SayableType, KeptTold, AnswerNumbers DEF Sayings, AnswerRecord
<1>4. ToldCalls' = k
  BY <1>2 DEF ToldCalls, Streamed
<1>5. history' = Append(history, told'.message)
  BY DEF Answers
<1>6. told'.message = m
  <2>1. turn' > 0
    BY <1>2
  <2>2. AnswerTold'
    BY <1>1, <1>2, <2>1 DEF ViewInv, CoreInv, Told
  <2>3. told'.message = ToldMessage(answer.text, Streamed(Kept(answer.by, answer)))'
    BY <2>2 DEF AnswerTold
  <2>4. QED
    BY <1>2, <2>3 DEF ToldMessage, Streamed
<1> HIDE DEF k, m
<1>7. ASSUME NEW u \in Tied
      PROVE  \E s \in Seq(Ties) : /\ HistoryTies(u, history') = Append(s, Asking(Named(k)))
                                  /\ \A q \in Heads : InOrder(u, q \o s)
  <2> DEFINE s == HistoryTies(u, history)
             x == Asking(Named(k))
  <2>1. \A q \in Heads : InOrder(u, q \o s)
    BY <1>2 DEF TieInv
  <2>2. Sent(<<m>>) /\ HistoryTies(u, <<m>>) = <<x>>
    BY <1>2, <1>3, AnswerTie DEF m
  <2>3. s \in Seq(Ties) /\ HistoryTies(u, history \o <<m>>) = s \o <<x>>
    <3>1. \A h : Sent(h) => /\ HistoryTies(u, h) \in Seq(Ties)
                            /\ HistoryTies(u, h \o <<m>>) = HistoryTies(u, h) \o HistoryTies(u, <<m>>)
      BY <2>2, HistoryTiesJoin
    <3>2. QED
      BY <1>2, <2>2, <3>1
  <2>4. history \o <<m>> = history'
    <3>1. CASE client.format = "openai"
      <4>1. history \in Seq(OAIMessages) /\ m \in OAIMessages
        BY <1>2, <2>2, <3>1 DEF Sent
      <4>2. QED
        BY <1>5, <1>6, <4>1, AppendIsConcat
    <3>2. CASE client.format # "openai"
      <4>1. history \in Seq(IRMessages) /\ m \in IRMessages
        BY <1>2, <2>2, <3>2 DEF Sent
      <4>2. QED
        BY <1>5, <1>6, <4>1, AppendIsConcat
    <3>3. QED
      BY <3>1, <3>2
  <2>5. x \in Ties
    BY <1>3, NamedType, EmptySeq DEF Asking, Ties
  <2> HIDE DEF s, x
  <2>6. s \o <<x>> = Append(s, x)
    BY <2>3, <2>5, AppendIsConcat
  <2>7. QED
    BY <2>1, <2>3, <2>4, <2>6 DEF x
<1>8. turn' # 0
  BY <1>2
<1>9. QED
  BY <1>1, <1>2, <1>3, <1>4, <1>7, <1>8, TiesPrimed DEF TieInv

\* A step between them leaves the messages as they are.
LEMMA SilentTies ==
    ASSUME TieInv, ViewInv', UNCHANGED <<client, history, turn, answer>>,
           (phase' = "client") <=> (phase = "client")
    PROVE  TieInv'
<1>1. ToldCalls' = ToldCalls
  BY DEF ToldCalls, Streamed
<1>2. Numbered(ToldCalls)' <=> Numbered(ToldCalls)
  BY <1>1 DEF Numbered
<1>3. \A u, s : InOrder(u, s)' <=> InOrder(u, s)
  BY TiesPrimed
<1>4. \A u : HistoryTies(u, history)' = HistoryTies(u, history)
  BY TiesPrimed
<1>5. QED
  BY <1>1, <1>2, <1>3, <1>4 DEF TieInv

LEMMA TieNext == TieInv /\ [Next]_vars => TieInv'
<1>1. SUFFICES ASSUME TieInv, [Next]_vars PROVE TieInv'
  OBVIOUS
<1>2. ViewInv /\ ViewInv'
  BY <1>1, ViewNext DEF TieInv
<1>3. ASSUME NEW instruct \in BOOLEAN, Ask(instruct) PROVE TieInv'
  BY <1>1, <1>3, AskTies
<1>4. ASSUME NEW a \in Sayable(shown.by), Answers(a) PROVE TieInv'
  BY <1>1, <1>4, AnswersTies
<1>5. CASE Resend
  BY <1>1, <1>2, <1>5, SilentTies DEF Resend
<1>6. CASE Unusable
  BY <1>1, <1>2, <1>6, SilentTies DEF Unusable, AttemptFails
<1>7. ASSUME NEW u \in Adapters, Send(u) PROVE TieInv'
  BY <1>1, <1>2, <1>7, SilentTies DEF Send
<1>8. CASE Unanswered
  BY <1>1, <1>2, <1>8, SilentTies DEF Unanswered, AttemptFails
<1>9. ASSUME NEW status \in Statuses, Refused(status) PROVE TieInv'
  BY <1>1, <1>2, <1>9, SilentTies DEF Refused, AttemptFails
<1>10. CASE AnswersInEvents
  BY <1>1, <1>2, <1>10, SilentTies DEF AnswersInEvents, InEvents, AttemptFails
<1>11. CASE UNCHANGED vars
  BY <1>1, <1>2, <1>11, SilentTies DEF vars
<1>12. QED
  BY <1>1, <1>3, <1>4, <1>5, <1>6, <1>7, <1>8, <1>9, <1>10, <1>11 DEF Next

LEMMA TiesAreInOrder == TieInv => ResultsFollowTheirCalls
<1> DEFINE u == shown.by
           ms == shown.body.messages
           req == RequestOf(prompt, history)
           t == HistoryTies(u, history)
<1>1. SUFFICES ASSUME TieInv, phase = "asked", u \notin Agents \union {"ollama"}
               PROVE  ResultsFollowTheirCalls
  BY DEF ResultsFollowTheirCalls
<1>2. ViewInv /\ CoreInv /\ Repeats(prompt, history, spoken)
  BY <1>1 DEF TieInv, ViewInv
<1>3. u \in Tied
  BY <1>1, <1>2, AskedUpstream, Kinds DEF Tied
<1>4. req \in IRRequests
  BY <1>2, RepeatedRequest
<1>5. shown.body = Chat(u, req, NoAnswer).body
  BY <1>1, <1>2 DEF ViewInv
<1>6. FM(TieF(u), req.messages) = t
  <2>1. CASE client.format = "openai"
    <3>1. history \in Seq(OAIMessages)
      BY <1>2, <2>1 DEF Repeats
    <3>2. req.messages = FM(NormF, history)
      BY <2>1, <3>1, MessagesByOne DEF RequestOf, NormalizeOAIRequest
    <3>3. QED
      BY <2>1, <3>1, <3>2, SentAsNormalized DEF HistoryTies
  <2>2. CASE client.format # "openai"
    <3>1. history \in Seq(IRMessages)
      BY <1>2, <2>2 DEF Repeats
    <3>2. req.messages = history
      <4> DEFINE r == [model |-> "alias", stream |-> client.stream, system |-> prompt, messages |-> history]
      <4>1. req = r
        BY <2>2, <3>1, AnthropicAsSent DEF RequestOf
      <4>2. r.messages = history
        OBVIOUS
      <4> HIDE DEF req, r
      <4>3. QED
        BY <4>1, <4>2
    <3>3. QED
      BY <2>2, <3>2 DEF HistoryTies
  <2>3. QED
    BY <2>1, <2>2
<1> HIDE DEF req
<1>7. PICK q \in Heads : Map(TieOf, ms) = q \o t
  BY <1>3, <1>4, <1>5, <1>6, BodyTies DEF Heads
<1>8. InOrder(u, Map(TieOf, ms))
  <2>1. \A p \in Heads : InOrder(u, p \o t)
    BY <1>1, <1>3 DEF TieInv
  <2>2. QED
    BY <1>7, <2>1
<1>9. ResultsHaveCalls(Map(TieOf, ms)) /\ (Answerable(u) => CallsHaveResults(Map(TieOf, ms)))
  BY <1>8 DEF InOrder
<1> HIDE DEF ms, t
<1>10. LET asst == {i \in DOMAIN ms : ms[i].role = "assistant"}
           After(i) == {j \in DOMAIN ms : j > i /\ \A k \in asst : ~(i < k /\ k < j)} \ asst
           Answering(i, id) == {x \in After(i) \X (1..2) :
                                   /\ x[2] \in DOMAIN AnsweredIn(ms[x[1]])
                                   /\ AnsweredIn(ms[x[1]])[x[2]] = id}
           Calling(i, id) == {n \in DOMAIN CallsIn(ms[i]) : CallsIn(ms[i])[n].id = id}
       IN  /\ \A j \in DOMAIN ms : \A n \in DOMAIN AnsweredIn(ms[j]) :
                  \E i \in asst : j \in After(i)
                                  /\ Cardinality(Calling(i, AnsweredIn(ms[j])[n])) = 1
           /\ CallsHaveResults(Map(TieOf, ms)) =>
                  \A i \in asst : \A n \in DOMAIN CallsIn(ms[i]) :
                      Cardinality(Answering(i, CallsIn(ms[i])[n].id)) = 1
  BY <1>9, TiesOfBody
<1>11. QED
  BY <1>9, <1>10 DEF ResultsFollowTheirCalls, Answerable, ms

\* ResultsFollowTheirCalls for every pool of adapters and any number of turns:
\* in every body of a format with identifiers, whichever adapters gave the
\* answers before it, a result answers one call of the nearest assistant
\* message before it, and each call an upstream can be shown the result of is
\* answered once before the next assistant message.
THEOREM ConversationResultsFollowTheirCalls == Spec => []ResultsFollowTheirCalls
BY TieInit, TieNext, TiesAreInOrder, PTL DEF Spec
-----------------------------------------------------------------------------
(* Who is asked for a stream, and what fails a request.                     *)

AsAsked(req) == "stream" \in DOMAIN req /\ req.stream = client.stream
FlagInv ==
    /\ phase # "client" => AsAsked(request)
    /\ InEvents => client.stream
    /\ OnlyFaultsFailARequest

\* No upstream but an agent is sent another flag than the client's, or one at all.
LEMMA BodyFlag ==
    ASSUME NEW u \in Adapters \ Agents, NEW req, "stream" \in DOMAIN req, NEW a
    PROVE  Chat(u, req, a).body.stream => req.stream
<1> DEFINE r == Configured(u, req)
           body == Chat(u, req, a).body
<1>1. r.stream = req.stream
  BY DEF Configured
<1>2. CASE u \in OAIShaped
  <2>1. body = DenormalizeOAIRequest(r)
    BY <1>2 DEF OAIShaped, Chat, OpenAIChat, AzureChat, OAuthChat, WebChat
  <2> HIDE DEF body, r
  <2>2. body.stream = r.stream
    BY <2>1 DEF DenormalizeOAIRequest
  <2>3. QED
    BY <1>1, <2>2 DEF body
<1>3. CASE u \in AnthropicShaped
  <2>1. body = DenormalizeAnthropicRequest(r)
    BY <1>3 DEF AnthropicShaped, Chat, AnthropicChat, BedrockChat, VertexChat, OAuthChat, WebChat
  <2> HIDE DEF body, r
  <2>2. body.stream = r.stream
    BY <2>1 DEF DenormalizeAnthropicRequest
  <2>3. QED
    BY <1>1, <2>2 DEF body
<1>4. CASE u = "ollama"
  <2>1. body = marshalOllamaRequest(r)
    BY <1>4 DEF Chat, OllamaChat
  <2> HIDE DEF body, r
  <2>2. body.stream = FALSE
    BY <2>1 DEF marshalOllamaRequest
  <2>3. QED
    BY <2>2 DEF body
<1>5. QED
  BY <1>2, <1>3, <1>4, ConversationAssumption DEF ConversationAssumption

LEMMA NormalizedFlag == AsAsked(Normalized)
<1> DEFINE r == NormalizeOAIRequest(history')
           q == NormalizeAnthropicRequest([system |-> prompt', messages |-> history'])
<1>1. "stream" \in DOMAIN r /\ r.stream = client.stream
  BY DEF NormalizeOAIRequest
<1>2. "stream" \in DOMAIN q /\ q.stream = client.stream
  BY DEF NormalizeAnthropicRequest
<1>3. QED
  BY <1>1, <1>2 DEF AsAsked, Normalized

LEMMA FlagNext ==
    ASSUME FlagInv, [Next]_vars
    PROVE  FlagInv'
<1> USE DEF FlagInv, OnlyFaultsFailARequest, AsAsked
<1>1. ASSUME NEW instruct \in BOOLEAN, Ask(instruct)
      PROVE  FlagInv'
  <2>1. client' = client /\ phase' = "routing" /\ request' = Normalized
    BY <1>1 DEF Ask
  <2>2. QED
    BY <2>1, NormalizedFlag DEF InEvents
<1>2. CASE Resend
  BY <1>2 DEF Resend, InEvents
<1>3. CASE Unusable
  BY <1>3 DEF Unusable, AttemptFails, InEvents
<1>4. ASSUME NEW u \in Adapters, Send(u)
      PROVE  FlagInv'
  <2> DEFINE body == Chat(u, request, NoAnswer).body
  <2>1. /\ phase = "routing" /\ phase' = "asked" /\ UNCHANGED <<client, request>>
        /\ shown' = [by |-> u, body |-> body]
    BY <1>4 DEF Send
  <2>2. u \notin Agents => (body.stream => client.stream)
    BY <2>1, BodyFlag
  <2> HIDE DEF body
  <2>3. shown'.by = u /\ shown'.body = body
    BY <2>1
  <2>4. (InEvents => client.stream)'
    BY <2>1, <2>2, <2>3 DEF InEvents
  <2>5. QED
    BY <2>1, <2>4
<1>5. CASE Unanswered
  BY <1>5 DEF Unanswered, AttemptFails, InEvents
<1>6. ASSUME NEW status \in Statuses, Refused(status)
      PROVE  FlagInv'
  BY <1>6 DEF Refused, AttemptFails, InEvents
<1>7. CASE AnswersInEvents
  BY <1>7 DEF AnswersInEvents, AttemptFails, InEvents
<1>8. ASSUME NEW a \in Sayable(shown.by), Answers(a)
      PROVE  FlagInv'
  BY <1>8 DEF Answers, InEvents
<1>9. CASE UNCHANGED vars
  BY <1>9 DEF vars, InEvents
<1>10. QED
  BY <1>1, <1>2, <1>3, <1>4, <1>5, <1>6, <1>7, <1>8, <1>9 DEF Next

\* OnlyFaultsFailARequest for every pool of adapters, whichever of their upstreams
\* stream as asked: a client that asks for no stream is failed by faults alone.
THEOREM ConversationOnlyFaultsFailARequest == Spec => []OnlyFaultsFailARequest
<1>1. Init => FlagInv
  BY DEF Init, FlagInv, InEvents, OnlyFaultsFailARequest
<1>2. FlagInv => OnlyFaultsFailARequest
  BY DEF FlagInv
<1>3. QED
  BY FlagNext, <1>1, <1>2, PTL DEF Spec
=============================================================================
