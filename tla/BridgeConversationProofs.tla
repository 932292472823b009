---------------------- MODULE BridgeConversationProofs ----------------------
(***************************************************************************)
(* Proofs about BridgeConversation, for any number of users and streams:   *)
(* overlapping streams share an array only within one user, keep it in     *)
(* order, and a user who waits for each answer gets what Conversation      *)
(* promises.                                                               *)
(***************************************************************************)
EXTENDS BridgeConversation, SequenceTheorems, TLAPS

\* The array r is within reach of u: through the map, or through a request
\* that keeps it.
Holds(u, r) == \/ store[u] = r
               \/ \E s \in Streams : pc[s] # "new" /\ user[s] = u /\ ref[s] = r

\* What a request that was not sent yet has, and one that was.
SentHasUser ==
    \A s \in Streams : IF pc[s] = "new" THEN user[s] = None /\ sent[s] = <<>>
                       ELSE user[s] \in Users /\ ref[s] # 0

\* An array is within reach of one user.
OneOwner ==
    \A u, v \in Users : \A r \in DOMAIN heap : Holds(u, r) /\ Holds(v, r) => u = v

\* No message twice and no answer before its question.
Ordered(a) ==
    \A j, k \in DOMAIN a : j < k =>
        /\ a[j] # a[k]
        /\ ~(a[j].role = "assistant" /\ a[k] = Question(a[j].of))

\* The messages of an array were sent (p is pc), and the answered requests are
\* over.
BornIn(a, p) ==
    \A k \in DOMAIN a : /\ a[k] \in Message /\ p[a[k].of] # "new"
                        /\ a[k].role = "assistant" => p[a[k].of] = "ended"

\* They are all of the user v (w is user).
OfUser(a, v, w) == \A k \in DOMAIN a : w[a[k].of] = v

HeapIsBorn == \A r \in DOMAIN heap : BornIn(heap[r], pc)

HeapIsOwn == \A u \in Users : \A r \in DOMAIN heap :
                 Holds(u, r) => OfUser(heap[r], u, user)

SentIsBorn == \A s \in Streams : \A k \in DOMAIN sent[s] : pc[sent[s][k].of] # "new"

\* A user who waits has one request open, on the array of the map.
PatientWaits ==
    \A s \in Streams : Open(s) /\ user[s] \in Patient =>
        /\ ref[s] = store[user[s]]
        /\ \A q \in Streams : Open(q) /\ user[q] = user[s] => q = s

BridgeInv == /\ TypeOK /\ SentHasUser /\ OneOwner /\ HeapIsBorn /\ HeapIsOwn
             /\ SentIsBorn /\ PatientWaits /\ ContextIsOwn /\ InOrderOnce

-----------------------------------------------------------------------------
\* truncateConversation keeps the end of the conversation.
LEMMA TruncateIsSuffix ==
    ASSUME NEW S, NEW a \in Seq(S)
    PROVE  /\ Truncate(a) \in Seq(S)
           /\ \E d \in Nat : /\ Len(Truncate(a)) + d = Len(a)
                             /\ \A k \in 1 .. Len(Truncate(a)) : Truncate(a)[k] = a[k + d]
           /\ Len(a) > 0 => Len(Truncate(a)) > 0
           /\ MaxHistoryTurns > 0 => Len(Truncate(a)) <= 2 * MaxHistoryTurns
<1> DEFINE n == 2 * MaxHistoryTurns
<1>1. n \in Nat /\ (n = 0 <=> MaxHistoryTurns = 0) /\ Len(a) \in Nat
  BY BridgeAssumption, LenProperties
<1>2. CASE n = 0 \/ Len(a) <= n
  <2>1. Truncate(a) = a
    BY <1>2 DEF Truncate
  <2>2. \A k \in 1 .. Len(a) : a[k] = a[k + 0]
    BY <1>1
  <2>3. Len(a) + 0 = Len(a) /\ 0 \in Nat
    BY <1>1
  <2>4. \E d \in Nat : Len(a) + d = Len(a) /\ \A k \in 1 .. Len(a) : a[k] = a[k + d]
    BY <2>2, <2>3
  <2>5. MaxHistoryTurns > 0 => Len(a) <= n
    BY <1>1, <1>2, BridgeAssumption
  <2>6. QED
    BY <2>1, <2>4, <2>5
<1>3. CASE ~(n = 0 \/ Len(a) <= n)
  <2> DEFINE m == Len(a) - n + 1
             t == SubSeq(a, m, Len(a))
             d == Len(a) - n
  <2>1. Truncate(a) = t
    BY <1>3 DEF Truncate
  <2>2. m \in Int /\ d \in Nat /\ m <= Len(a) /\ m > 0 /\ Len(a) - m + 1 = n /\ n > 0
    BY <1>1, <1>3
  <2>3. \A i \in m .. Len(a) : a[i] \in S
    BY <1>1, <2>2, ElementOfSeq
  <2>4. t \in Seq(S) /\ Len(t) = n /\ \A k \in 1 .. n : t[k] = a[m + k - 1]
    <3> HIDE DEF m, n
    <3>1. /\ SubSeq(a, m, Len(a)) \in Seq(S)
          /\ Len(SubSeq(a, m, Len(a))) = IF m <= Len(a) THEN Len(a) - m + 1 ELSE 0
          /\ \A k \in 1 .. (Len(a) - m + 1) : SubSeq(a, m, Len(a))[k] = a[m + k - 1]
      BY <1>1, <2>2, <2>3, SubSeqProperties
    <3>2. QED
      BY <2>2, <3>1
  <2>5. \A k \in 1 .. n : m + k - 1 = k + d
    BY <1>1
  <2>6. Len(t) + d = Len(a)
    BY <1>1, <2>4
  <2> HIDE DEF t, d, m
  <2>7. \A k \in 1 .. Len(t) : t[k] = a[k + d]
    BY <2>4, <2>5
  <2>8. \E e \in Nat : Len(t) + e = Len(a) /\ \A k \in 1 .. Len(t) : t[k] = a[k + e]
    BY <2>2, <2>6, <2>7
  <2>9. QED
    BY <2>1, <2>2, <2>4, <2>8
<1>4. QED
  BY <1>2, <1>3

\* What truncation keeps is as much in order, as much born and as much one
\* user's as the whole.
LEMMA TruncateKeeps ==
    ASSUME NEW a \in Seq(Message), NEW p, NEW v, NEW w
    PROVE  /\ Ordered(a) => Ordered(Truncate(a))
           /\ BornIn(a, p) => BornIn(Truncate(a), p)
           /\ OfUser(a, v, w) => OfUser(Truncate(a), v, w)
<1> DEFINE t == Truncate(a)
<1>1. t \in Seq(Message)
  BY TruncateIsSuffix
<1>2. PICK d \in Nat : Len(t) + d = Len(a) /\ \A k \in 1 .. Len(t) : t[k] = a[k + d]
  BY TruncateIsSuffix
<1>3. /\ DOMAIN a = 1 .. Len(a) /\ DOMAIN t = 1 .. Len(t)
      /\ Len(a) \in Nat /\ Len(t) \in Nat
  BY <1>1, LenProperties
<1> HIDE DEF t
<1>4. \A k \in DOMAIN t : k \in Nat /\ k + d \in DOMAIN a /\ t[k] = a[k + d]
  BY <1>2, <1>3
<1>5. \A j, k \in DOMAIN t : j < k => j + d < k + d
  BY <1>2, <1>4
<1>6. Ordered(a) => Ordered(t)
  BY <1>4, <1>5 DEF Ordered
<1>7. BornIn(a, p) => BornIn(t, p)
  BY <1>4 DEF BornIn
<1>8. OfUser(a, v, w) => OfUser(t, v, w)
  BY <1>4 DEF OfUser
<1>9. QED
  BY <1>6, <1>7, <1>8 DEF t

\* A message at the end of an array.
LEMMA AppendMessage ==
    ASSUME NEW a \in Seq(Message), NEW m \in Message
    PROVE  /\ Append(a, m) \in Seq(Message) /\ Len(Append(a, m)) = Len(a) + 1
           /\ Len(a) \in Nat
           /\ Append(a, m)[Len(a) + 1] = m
           /\ \A k \in DOMAIN Append(a, m) : \/ (k \in DOMAIN a /\ Append(a, m)[k] = a[k])
                                             \/ (k = Len(a) + 1 /\ Append(a, m)[k] = m)
           /\ DOMAIN a = 1 .. Len(a)
<1>1. /\ Append(a, m) \in Seq(Message) /\ Len(Append(a, m)) = Len(a) + 1
      /\ Len(a) \in Nat /\ DOMAIN a = 1 .. Len(a)
      /\ Append(a, m)[Len(a) + 1] = m
      /\ \A k \in 1 .. Len(a) : Append(a, m)[k] = a[k]
  OBVIOUS
<1>2. DOMAIN Append(a, m) = 1 .. (Len(a) + 1)
  BY <1>1
<1>3. QED
  BY <1>1, <1>2

LEMMA AppendOrdered ==
    ASSUME NEW a \in Seq(Message), NEW m \in Message, Ordered(a),
           \A k \in DOMAIN a : /\ a[k] # m
                               /\ ~(a[k].role = "assistant" /\ m = Question(a[k].of))
    PROVE  Ordered(Append(a, m))
<1> DEFINE b == Append(a, m)
<1>1. /\ Len(a) \in Nat /\ DOMAIN a = 1 .. Len(a)
      /\ \A k \in DOMAIN b : \/ (k \in DOMAIN a /\ b[k] = a[k])
                             \/ (k = Len(a) + 1 /\ b[k] = m)
  BY AppendMessage
<1> HIDE DEF b
<1>2. SUFFICES ASSUME NEW j \in DOMAIN b, NEW k \in DOMAIN b, j < k
               PROVE  /\ b[j] # b[k]
                      /\ ~(b[j].role = "assistant" /\ b[k] = Question(b[j].of))
  BY DEF Ordered, b
<1>3. j \in DOMAIN a /\ b[j] = a[j]
  BY <1>1, <1>2
<1>4. QED
  BY <1>1, <1>2, <1>3 DEF Ordered

-----------------------------------------------------------------------------
\* What a step does to the arrays: those it writes are sound and within reach
\* of u only, and nobody but u comes within reach of another array, the array r.
LEMMA HeapStep ==
    ASSUME BridgeInv, NEW u \in Users, NEW r,
           r \in DOMAIN heap => Holds(u, r),
           \A v \in Users : \A x \in DOMAIN heap' : Holds(v, x)' =>
               (x \in DOMAIN heap /\ Holds(v, x)) \/ (v = u /\ x = r),
           \A q \in Streams : pc[q] # "new" =>
               /\ user'[q] = user[q] /\ pc'[q] # "new"
               /\ pc[q] = "ended" => pc'[q] = "ended",
           \A x \in DOMAIN heap' :
               \/ x \in DOMAIN heap /\ heap'[x] = heap[x]
               \/ /\ Ordered(heap'[x]) /\ BornIn(heap'[x], pc') /\ OfUser(heap'[x], u, user')
                  /\ \A v \in Users : Holds(v, x)' => v = u
    PROVE  OneOwner' /\ HeapIsBorn' /\ HeapIsOwn' /\ InOrderOnce'
<1>1. OneOwner /\ HeapIsBorn /\ HeapIsOwn /\ InOrderOnce
  BY DEF BridgeInv
<1>2. OneOwner'
  BY <1>1 DEF OneOwner
<1>3. \A x \in DOMAIN heap : BornIn(heap[x], pc')
  <2>1. SUFFICES ASSUME NEW x \in DOMAIN heap PROVE BornIn(heap[x], pc')
    OBVIOUS
  <2>2. BornIn(heap[x], pc)
    BY <1>1 DEF HeapIsBorn
  <2>3. \A k \in DOMAIN heap[x] : heap[x][k].of \in Streams
    BY <2>2 DEF BornIn, Message
  <2>4. QED
    BY <2>2, <2>3 DEF BornIn
<1>4. HeapIsBorn'
  <2>1. \A x \in DOMAIN heap' : BornIn(heap'[x], pc')
    BY <1>3
  <2>2. QED
    BY <2>1 DEF HeapIsBorn
<1>5. ASSUME NEW v \in Users, NEW x \in DOMAIN heap', Holds(v, x)'
      PROVE  OfUser(heap'[x], v, user')
  <2>1. CASE x \in DOMAIN heap /\ heap'[x] = heap[x]
    <3>1. Holds(v, x)
      BY <1>5, <2>1
    <3>2. OfUser(heap[x], v, user) /\ BornIn(heap[x], pc)
      BY <1>1, <2>1, <3>1 DEF HeapIsOwn, HeapIsBorn
    <3>3. QED
      BY <2>1, <3>2 DEF OfUser, BornIn, Message
  <2>2. CASE OfUser(heap'[x], u, user') /\ \A w \in Users : Holds(w, x)' => w = u
    <3>1. v = u
      BY <1>5, <2>2
    <3>2. QED
      BY <2>2, <3>1
  <2>3. QED
    BY <2>1, <2>2
<1>6. HeapIsOwn'
  BY <1>5 DEF HeapIsOwn
<1>7. InOrderOnce'
  <2>1. \A x \in DOMAIN heap' : Ordered(heap'[x])
    BY <1>1 DEF InOrderOnce, Ordered
  <2>2. QED
    BY <2>1 DEF InOrderOnce, Ordered
<1>8. QED
  BY <1>2, <1>4, <1>6, <1>7

\* What was sent stays what it was in the steps that send nothing.
LEMMA SentStays ==
    ASSUME BridgeInv, UNCHANGED <<sent, user, ref>>,
           \A q \in Streams : pc'[q] = "new" <=> pc[q] = "new"
    PROVE  SentHasUser' /\ SentIsBorn' /\ ContextIsOwn'
<1>1. SentHasUser'
  BY DEF BridgeInv, SentHasUser
<1>2. \A q \in Streams : \A k \in DOMAIN sent[q] : sent[q][k].of \in Streams
  <2>1. SUFFICES ASSUME NEW q \in Streams, NEW k \in DOMAIN sent[q]
                 PROVE  sent[q][k].of \in Streams
    OBVIOUS
  <2>2. sent[q] \in Seq(Message)
    BY DEF BridgeInv, TypeOK
  <2>3. sent[q][k] \in Message
    BY <2>2
  <2>4. QED
    BY <2>3 DEF Message
<1>3. SentIsBorn'
  BY <1>2 DEF BridgeInv, SentIsBorn
<1>4. ContextIsOwn'
  BY DEF BridgeInv, ContextIsOwn
<1>5. QED
  BY <1>1, <1>3, <1>4

\* An array that is added to the heap.
LEMMA NewArray ==
    ASSUME TypeOK, NEW h \in Seq(Seq(Message)), Len(h) = Len(heap),
           NEW a \in Seq(Message), heap' = Append(h, a)
    PROVE  /\ heap' \in Seq(Seq(Message)) /\ Len(heap') = Len(heap) + 1
           /\ Len(heap) \in Nat
           /\ DOMAIN heap = 1 .. Len(heap) /\ DOMAIN heap' = 1 .. (Len(heap) + 1)
           /\ heap'[Len(heap) + 1] = a
           /\ \A x \in DOMAIN heap : heap'[x] = h[x]
           /\ \A x \in DOMAIN heap' : x \in DOMAIN heap \/ x = Len(heap) + 1
           /\ Len(heap) + 1 \notin DOMAIN heap
           /\ \A x \in 0 .. Len(heap) : x \in 0 .. Len(heap') /\ x # Len(heap) + 1
           /\ Len(heap') \in 0 .. Len(heap') /\ Len(heap') # 0
           /\ 0 \in 0 .. Len(heap')
<1>1. /\ heap' \in Seq(Seq(Message)) /\ Len(heap') = Len(heap) + 1
      /\ heap \in Seq(Seq(Message)) /\ Len(heap) \in Nat
      /\ heap'[Len(h) + 1] = a /\ \A x \in 1 .. Len(h) : heap'[x] = h[x]
  BY DEF TypeOK
<1>2. DOMAIN heap = 1 .. Len(heap) /\ DOMAIN heap' = 1 .. (Len(heap) + 1)
  BY <1>1
<1>3. QED
  BY <1>1, <1>2

\* An empty conversation for a user who has none or drops it.
LEMMA EmptyArrayStep ==
    ASSUME BridgeInv, NEW u \in Users,
           heap' = Append(heap, <<>>), store' = [store EXCEPT ![u] = Len(heap')],
           UNCHANGED <<pc, user, ref, sent>>
    PROVE  /\ OneOwner' /\ HeapIsBorn' /\ HeapIsOwn' /\ InOrderOnce'
           /\ SentHasUser' /\ SentIsBorn' /\ ContextIsOwn'
           /\ heap' \in Seq(Seq(Message))
           /\ store' \in [Users -> 0..Len(heap')] /\ ref' \in [Streams -> 0..Len(heap')]
<1>1. TypeOK
  BY DEF BridgeInv
<1>2. /\ heap \in Seq(Seq(Message)) /\ <<>> \in Seq(Message)
      /\ DOMAIN <<>> = {}
  BY <1>1 DEF TypeOK
<1>3. /\ heap' \in Seq(Seq(Message)) /\ Len(heap') = Len(heap) + 1
      /\ heap'[Len(heap) + 1] = <<>>
      /\ \A x \in DOMAIN heap : heap'[x] = heap[x]
      /\ \A x \in DOMAIN heap' : x \in DOMAIN heap \/ x = Len(heap) + 1
      /\ Len(heap) + 1 \notin DOMAIN heap
      /\ \A x \in 0 .. Len(heap) : x \in 0 .. Len(heap') /\ x # Len(heap) + 1
      /\ Len(heap') \in 0 .. Len(heap')
  BY <1>1, <1>2, NewArray
<1>4. store' \in [Users -> 0..Len(heap')] /\ ref' \in [Streams -> 0..Len(heap')]
  BY <1>1, <1>3 DEF TypeOK
<1>5. \A v \in Users : \A x \in DOMAIN heap' : Holds(v, x)' =>
         (x \in DOMAIN heap /\ Holds(v, x)) \/ (v = u /\ x = Len(heap) + 1)
  <2>1. SUFFICES ASSUME NEW v \in Users, NEW x \in DOMAIN heap', Holds(v, x)'
                 PROVE  (x \in DOMAIN heap /\ Holds(v, x)) \/ (v = u /\ x = Len(heap) + 1)
    OBVIOUS
  <2>2. CASE store'[v] = x
    <3>1. CASE v = u
      BY <1>1, <1>3, <2>2, <3>1 DEF TypeOK
    <3>2. CASE v # u
      <4>1. store[v] = x /\ store[v] \in 0 .. Len(heap)
        BY <1>1, <2>2, <3>2 DEF TypeOK
      <4>2. QED
        BY <1>3, <2>1, <4>1 DEF Holds
    <3>3. QED
      BY <3>1, <3>2
  <2>3. CASE \E s \in Streams : pc[s] # "new" /\ user[s] = v /\ ref[s] = x
    <3>1. x \in 0 .. Len(heap)
      BY <1>1, <2>3 DEF TypeOK
    <3>2. QED
      BY <1>3, <2>1, <2>3, <3>1 DEF Holds
  <2>4. QED
    BY <2>1, <2>2, <2>3 DEF Holds
<1>6. Ordered(<<>>) /\ BornIn(<<>>, pc') /\ OfUser(<<>>, u, user')
  BY <1>2 DEF Ordered, BornIn, OfUser
<1>7. OneOwner' /\ HeapIsBorn' /\ HeapIsOwn' /\ InOrderOnce'
  <2>1. \A v \in Users : \A x \in DOMAIN heap' :
            Holds(v, x)' /\ x \notin DOMAIN heap => v = u
    BY <1>5
  <2>2. \A x \in DOMAIN heap' :
            \/ x \in DOMAIN heap /\ heap'[x] = heap[x]
            \/ /\ Ordered(heap'[x]) /\ BornIn(heap'[x], pc') /\ OfUser(heap'[x], u, user')
               /\ \A v \in Users : Holds(v, x)' => v = u
    BY <1>3, <1>6, <2>1
  <2>3. QED
    BY <1>3, <1>5, <2>2, HeapStep
<1>8. SentHasUser' /\ SentIsBorn' /\ ContextIsOwn'
  BY SentStays
<1>9. QED
  BY <1>3, <1>4, <1>7, <1>8

LEMMA StartEmptyStep ==
    ASSUME BridgeInv, NEW u \in Users, StartEmpty(u)
    PROVE  BridgeInv'
<1>1. /\ store[u] = 0 /\ heap' = Append(heap, <<>>) /\ store' = [store EXCEPT ![u] = Len(heap')]
      /\ UNCHANGED <<pc, user, ref, sent, text, resets, born>>
  BY DEF StartEmpty
<1>2. TypeOK /\ SentHasUser /\ PatientWaits
  BY DEF BridgeInv
<1>3. /\ OneOwner' /\ HeapIsBorn' /\ HeapIsOwn' /\ InOrderOnce'
      /\ SentHasUser' /\ SentIsBorn' /\ ContextIsOwn'
      /\ heap' \in Seq(Seq(Message))
      /\ store' \in [Users -> 0..Len(heap')] /\ ref' \in [Streams -> 0..Len(heap')]
  BY <1>1, EmptyArrayStep
<1>4. TypeOK'
  BY <1>1, <1>2, <1>3 DEF TypeOK
<1>5. PatientWaits'
  <2>1. \A s \in Streams : Open(s) /\ user[s] \in Patient => user[s] # u
    BY <1>1, <1>2 DEF PatientWaits, SentHasUser, Open
  <2>2. \A s \in Streams : Open(s)' <=> Open(s)
    BY <1>1 DEF Open
  <2>3. \A v \in Users : v # u => store'[v] = store[v]
    BY <1>1, <1>2 DEF TypeOK
  <2>4. QED
    BY <1>1, <1>2, <2>1, <2>2, <2>3, BridgeAssumption DEF PatientWaits
<1>6. QED
  BY <1>3, <1>4, <1>5 DEF BridgeInv

LEMMA ResetStep ==
    ASSUME BridgeInv, NEW u \in Users, Reset(u)
    PROVE  BridgeInv'
<1>1. /\ heap' = Append(heap, <<>>) /\ store' = [store EXCEPT ![u] = Len(heap')]
      /\ UNCHANGED <<pc, user, ref, sent, text, born>>
      /\ MayCall(u) /\ resets[u] < MaxResets /\ resets' = [resets EXCEPT ![u] = @ + 1]
  BY DEF Reset
<1>2. TypeOK /\ SentHasUser /\ PatientWaits
  BY DEF BridgeInv
<1>3. /\ OneOwner' /\ HeapIsBorn' /\ HeapIsOwn' /\ InOrderOnce'
      /\ SentHasUser' /\ SentIsBorn' /\ ContextIsOwn'
      /\ heap' \in Seq(Seq(Message))
      /\ store' \in [Users -> 0..Len(heap')] /\ ref' \in [Streams -> 0..Len(heap')]
  BY <1>1, EmptyArrayStep
<1>4. TypeOK'
  <2>1. resets[u] + 1 \in 0 .. MaxResets
    BY <1>1, <1>2, BridgeAssumption DEF TypeOK
  <2>2. resets' \in [Users -> 0 .. MaxResets]
    BY <1>1, <1>2, <2>1 DEF TypeOK
  <2>3. QED
    BY <1>1, <1>2, <1>3, <2>2 DEF TypeOK
<1>5. PatientWaits'
  <2>1. \A s \in Streams : Open(s) /\ user[s] \in Patient => user[s] # u
    BY <1>1 DEF MayCall, OpenOf
  <2>2. \A s \in Streams : Open(s)' <=> Open(s)
    BY <1>1 DEF Open
  <2>3. \A v \in Users : v # u => store'[v] = store[v]
    BY <1>1, <1>2 DEF TypeOK
  <2>4. QED
    BY <1>1, <1>2, <2>1, <2>2, <2>3, BridgeAssumption DEF PatientWaits
<1>6. QED
  BY <1>3, <1>4, <1>5 DEF BridgeInv

\* A stream moves on without touching the conversations.
LEMMA QuietStep ==
    ASSUME BridgeInv, NEW s \in Streams, Respond(s) \/ Chunk(s) \/ Break(s)
    PROVE  BridgeInv'
<1>1. TypeOK
  BY DEF BridgeInv
<1>2. UNCHANGED <<heap, store, user, ref, sent, resets, born>>
  BY DEF Respond, Chunk, Break
<1>3. /\ pc' \in [Streams -> Pc] /\ text' \in [Streams -> BOOLEAN]
      /\ \A q \in Streams : /\ pc'[q] = "new" <=> pc[q] = "new"
                            /\ pc[q] = "ended" <=> pc'[q] = "ended"
                            /\ pc'[q] \in {"waiting", "streaming"} =>
                                  pc[q] \in {"waiting", "streaming"}
  BY <1>1 DEF Respond, Chunk, Break, TypeOK, Pc, Open
<1>4. TypeOK'
  BY <1>1, <1>2, <1>3 DEF TypeOK
<1>5. SentHasUser' /\ SentIsBorn' /\ ContextIsOwn'
  BY <1>2, <1>3, SentStays
<1>6. \A v, x : Holds(v, x)' <=> Holds(v, x)
  BY <1>2, <1>3 DEF Holds
<1>7. OneOwner' /\ HeapIsOwn'
  BY <1>2, <1>6 DEF BridgeInv, OneOwner, HeapIsOwn
<1>8. HeapIsBorn'
  BY <1>2, <1>3 DEF BridgeInv, HeapIsBorn, BornIn, Message
<1>9. PatientWaits'
  BY <1>2, <1>3 DEF BridgeInv, PatientWaits, Open
<1>10. InOrderOnce'
  BY <1>2 DEF BridgeInv, InOrderOnce
<1>11. QED
  BY <1>4, <1>5, <1>7, <1>8, <1>9, <1>10 DEF BridgeInv

-----------------------------------------------------------------------------
\* The end of a stream: its array gets the answer, and the user's conversation
\* becomes a truncated copy of it.
LEMMA EndStep ==
    ASSUME BridgeInv, NEW s \in Streams, End(s)
    PROVE  BridgeInv'
<1> DEFINE u == user[s]
           r == ref[s]
           array == IF text[s] THEN Append(heap[r], Reply(s)) ELSE heap[r]
           h == [heap EXCEPT ![r] = array]
<1>1. /\ pc[s] = "streaming" /\ pc' = [pc EXCEPT ![s] = "ended"]
      /\ heap' = Append(h, Truncate(array))
      /\ store' = [store EXCEPT ![u] = Len(heap')]
      /\ UNCHANGED <<user, ref, sent, text, resets, born>>
  BY DEF End
<1>2. TypeOK /\ SentHasUser /\ PatientWaits /\ OneOwner
  BY DEF BridgeInv
<1>3. u \in Users /\ r # 0 /\ r \in 0 .. Len(heap)
  BY <1>1, <1>2 DEF SentHasUser, TypeOK
<1>4. heap \in Seq(Seq(Message)) /\ Len(heap) \in Nat /\ DOMAIN heap = 1 .. Len(heap)
  BY <1>2 DEF TypeOK
<1>5. r \in DOMAIN heap /\ Holds(u, r)
  BY <1>1, <1>3, <1>4 DEF Holds
<1>6. /\ heap[r] \in Seq(Message) /\ Ordered(heap[r]) /\ BornIn(heap[r], pc)
      /\ OfUser(heap[r], u, user)
  <2>1. heap[r] \in Seq(Message)
    BY <1>4, <1>5
  <2>2. QED
    BY <1>3, <1>5, <2>1 DEF BridgeInv, InOrderOnce, Ordered, HeapIsBorn, HeapIsOwn
<1>7. /\ pc' \in [Streams -> Pc] /\ pc'[s] = "ended"
      /\ \A q \in Streams : /\ pc'[q] = "new" <=> pc[q] = "new"
                            /\ pc[q] = "ended" => pc'[q] = "ended"
                            /\ pc'[q] \in {"waiting", "streaming"} =>
                                  pc[q] \in {"waiting", "streaming"} /\ q # s
  BY <1>1, <1>2 DEF TypeOK, Pc
<1>8. BornIn(heap[r], pc')
  BY <1>6, <1>7 DEF BornIn, Message
<1>9. /\ array \in Seq(Message) /\ Ordered(array) /\ BornIn(array, pc')
      /\ OfUser(array, u, user')
  <2>1. CASE ~text[s]
    BY <1>1, <1>6, <1>8, <2>1 DEF OfUser
  <2>2. CASE text[s]
    <3> DEFINE a == heap[r]
               m == Reply(s)
    <3>1. m \in Message /\ m.of = s /\ m.role = "assistant"
      BY DEF Reply, Message
    <3>2. /\ \A k \in DOMAIN a : a[k] # m
          /\ \A k \in DOMAIN a : m # Question(a[k].of)
      BY <1>1, <1>6, <3>1 DEF BornIn, Question
    <3> HIDE DEF m
    <3>3. Append(a, m) \in Seq(Message)
          /\ \A k \in DOMAIN Append(a, m) : \/ (k \in DOMAIN a /\ Append(a, m)[k] = a[k])
                                            \/ (k = Len(a) + 1 /\ Append(a, m)[k] = m)
      BY <1>6, <3>1, AppendMessage
    <3>4. Ordered(Append(a, m))
      BY <1>6, <3>1, <3>2, AppendOrdered
    <3>5. BornIn(Append(a, m), pc')
      BY <1>7, <1>8, <3>1, <3>3 DEF BornIn
    <3>6. OfUser(Append(a, m), u, user')
      BY <1>1, <1>6, <3>1, <3>3 DEF OfUser
    <3>7. array = Append(a, m)
      BY <2>2 DEF m
    <3>8. QED
      BY <3>3, <3>4, <3>5, <3>6, <3>7
  <2>3. QED
    BY <2>1, <2>2
<1> HIDE DEF array
<1>10. /\ Truncate(array) \in Seq(Message) /\ Ordered(Truncate(array))
       /\ BornIn(Truncate(array), pc') /\ OfUser(Truncate(array), u, user')
  BY <1>9, TruncateIsSuffix, TruncateKeeps
<1>11. /\ h \in Seq(Seq(Message)) /\ Len(h) = Len(heap)
       /\ h[r] = array /\ \A x \in DOMAIN heap : x # r => h[x] = heap[x]
  BY <1>4, <1>5, <1>9, ExceptSeq
<1>12. /\ heap' \in Seq(Seq(Message)) /\ Len(heap') = Len(heap) + 1
       /\ heap'[Len(heap) + 1] = Truncate(array)
       /\ \A x \in DOMAIN heap : heap'[x] = h[x]
       /\ \A x \in DOMAIN heap' : x \in DOMAIN heap \/ x = Len(heap) + 1
       /\ Len(heap) + 1 \notin DOMAIN heap
       /\ \A x \in 0 .. Len(heap) : x \in 0 .. Len(heap') /\ x # Len(heap) + 1
       /\ Len(heap') \in 0 .. Len(heap')
  <2> HIDE DEF h
  <2>1. QED
    BY <1>1, <1>2, <1>10, <1>11, NewArray
<1> HIDE DEF h
<1>13. TypeOK'
  <2>1. store' \in [Users -> 0 .. Len(heap')] /\ ref' \in [Streams -> 0 .. Len(heap')]
    BY <1>1, <1>2, <1>12 DEF TypeOK
  <2>2. QED
    BY <1>1, <1>2, <1>7, <1>12, <2>1 DEF TypeOK
<1>14. \A v \in Users : \A x \in DOMAIN heap' : Holds(v, x)' =>
          (x \in DOMAIN heap /\ Holds(v, x)) \/ (v = u /\ x = Len(heap) + 1)
  <2>1. SUFFICES ASSUME NEW v \in Users, NEW x \in DOMAIN heap', Holds(v, x)'
                 PROVE  (x \in DOMAIN heap /\ Holds(v, x)) \/ (v = u /\ x = Len(heap) + 1)
    OBVIOUS
  <2>2. CASE store'[v] = x
    <3>1. CASE v = u
      BY <1>1, <1>2, <1>12, <2>2, <3>1 DEF TypeOK
    <3>2. CASE v # u
      <4>1. store[v] = x /\ store[v] \in 0 .. Len(heap)
        BY <1>1, <1>2, <2>2, <3>2 DEF TypeOK
      <4>2. QED
        BY <1>12, <2>1, <4>1 DEF Holds
    <3>3. QED
      BY <3>1, <3>2
  <2>3. CASE \E q \in Streams : pc'[q] # "new" /\ user[q] = v /\ ref[q] = x
    <3>1. Holds(v, x)
      BY <1>7, <2>3 DEF Holds
    <3>2. x \in 0 .. Len(heap)
      BY <1>2, <2>3 DEF TypeOK
    <3>3. QED
      BY <1>12, <2>1, <3>1, <3>2
  <2>4. QED
    BY <1>1, <2>1, <2>2, <2>3 DEF Holds
<1>15. \A v \in Users : \A x \in DOMAIN heap' :
           Holds(v, x)' /\ (x = r \/ x \notin DOMAIN heap) => v = u
  BY <1>2, <1>3, <1>5, <1>14 DEF OneOwner
<1>16. OneOwner' /\ HeapIsBorn' /\ HeapIsOwn' /\ InOrderOnce'
  <2>1. \A x \in DOMAIN heap' :
            \/ x \in DOMAIN heap /\ heap'[x] = heap[x]
            \/ /\ Ordered(heap'[x]) /\ BornIn(heap'[x], pc') /\ OfUser(heap'[x], u, user')
               /\ \A v \in Users : Holds(v, x)' => v = u
    BY <1>9, <1>10, <1>11, <1>12, <1>15
  <2>2. \A q \in Streams : pc[q] # "new" =>
            /\ user'[q] = user[q] /\ pc'[q] # "new"
            /\ pc[q] = "ended" => pc'[q] = "ended"
    BY <1>1, <1>7
  <2> HIDE DEF u
  <2>3. QED
    BY <1>3, <1>12, <1>14, <2>1, <2>2, HeapStep
<1>17. SentHasUser' /\ SentIsBorn' /\ ContextIsOwn'
  BY <1>1, <1>7, SentStays
<1>18. PatientWaits'
  <2>1. \A q \in Streams : Open(q)' => Open(q) /\ q # s
    BY <1>7 DEF Open
  <2>2. \A q \in Streams : Open(q)' /\ user[q] \in Patient => user[q] # u
    BY <1>1, <1>2, <2>1 DEF PatientWaits, Open
  <2>3. \A v \in Users : v # u => store'[v] = store[v]
    BY <1>1, <1>2 DEF TypeOK
  <2>4. QED
    BY <1>1, <1>2, <2>1, <2>2, <2>3, BridgeAssumption DEF PatientWaits
<1>19. QED
  BY <1>13, <1>16, <1>17, <1>18 DEF BridgeInv

-----------------------------------------------------------------------------
\* What a new request finds, and what it does to the arrays.
LEMMA StartEffect ==
    ASSUME BridgeInv, NEW s \in Streams, NEW u \in Users, Start(s, u)
    PROVE  \E r, base :
             /\ base \in Seq(Message) /\ Ordered(base) /\ BornIn(base, pc)
             /\ OfUser(base, u, user)
             /\ base = Talk(u)
             /\ r \in DOMAIN heap' /\ r # 0 /\ r \in 0 .. Len(heap')
             /\ r \in DOMAIN heap => Holds(u, r)
             /\ heap' \in Seq(Seq(Message)) /\ heap'[r] = Append(base, Question(s))
             /\ \A x \in DOMAIN heap' : x # r => x \in DOMAIN heap /\ heap'[x] = heap[x]
             /\ \A x \in DOMAIN heap : x \in DOMAIN heap'
             /\ \A x \in 0 .. Len(heap) : x \in 0 .. Len(heap')
             /\ \A x \in 0 .. Len(heap) : x # 0 => x \in DOMAIN heap
             /\ store' = [store EXCEPT ![u] = r] /\ ref' = [ref EXCEPT ![s] = r]
             /\ sent' = [sent EXCEPT ![s] = Truncate(heap'[r])]
             /\ store[u] # 0 => store[u] = r
<1>1. TypeOK
  BY DEF BridgeInv
<1>2. /\ heap \in Seq(Seq(Message)) /\ Len(heap) \in Nat /\ DOMAIN heap = 1 .. Len(heap)
      /\ \A x \in 0 .. Len(heap) : x # 0 => x \in DOMAIN heap
  BY <1>1 DEF TypeOK
<1>3. Question(s) \in Message
  BY DEF Question, Message
<1>4. CASE store[u] # 0
  <2> DEFINE r == store[u]
             base == heap[r]
             array == Append(base, Question(s))
  <2>1. /\ heap' = [heap EXCEPT ![r] = array]
        /\ store' = [store EXCEPT ![u] = r] /\ ref' = [ref EXCEPT ![s] = r]
        /\ sent' = [sent EXCEPT ![s] = Truncate(array)]
    BY <1>4 DEF Start
  <2>2. r \in DOMAIN heap /\ r \in 0 .. Len(heap) /\ Holds(u, r)
    BY <1>1, <1>2, <1>4 DEF TypeOK, Holds
  <2>3. base \in Seq(Message)
    BY <1>2, <2>2
  <2>4. Ordered(base) /\ BornIn(base, pc) /\ OfUser(base, u, user) /\ base = Talk(u)
    BY <1>4, <2>2 DEF BridgeInv, InOrderOnce, Ordered, HeapIsBorn, HeapIsOwn, Talk
  <2>5. array \in Seq(Message)
    BY <1>3, <2>3, AppendMessage
  <2> HIDE DEF array
  <2>6. /\ heap' \in Seq(Seq(Message)) /\ Len(heap') = Len(heap) /\ heap'[r] = array
        /\ \A x \in 1 .. Len(heap) : x # r => heap'[x] = heap[x]
    BY <1>2, <2>1, <2>2, <2>5, ExceptSeq
  <2>7. DOMAIN heap' = DOMAIN heap
    BY <2>1
  <2> HIDE DEF r, base
  <2>8. QED
    BY <1>2, <1>4, <2>1, <2>2, <2>3, <2>4, <2>6, <2>7 DEF array, r
<1>5. CASE store[u] = 0
  <2> DEFINE r == Len(heap) + 1
             base == <<>>
             array == Append(base, Question(s))
  <2>1. /\ heap' = Append(heap, array)
        /\ store' = [store EXCEPT ![u] = r] /\ ref' = [ref EXCEPT ![s] = r]
        /\ sent' = [sent EXCEPT ![s] = Truncate(array)]
    BY <1>5 DEF Start
  <2>2. base \in Seq(Message) /\ DOMAIN base = {}
    OBVIOUS
  <2>3. Ordered(base) /\ BornIn(base, pc) /\ OfUser(base, u, user) /\ base = Talk(u)
    BY <1>5, <2>2 DEF Ordered, BornIn, OfUser, Talk
  <2> HIDE DEF base
  <2>4. array \in Seq(Message)
    BY <1>3, <2>2, AppendMessage
  <2> HIDE DEF array
  <2>5. /\ heap' \in Seq(Seq(Message)) /\ Len(heap') = Len(heap) + 1
        /\ heap'[r] = array
        /\ \A x \in DOMAIN heap : heap'[x] = heap[x]
        /\ \A x \in DOMAIN heap' : x \in DOMAIN heap \/ x = r
        /\ r \notin DOMAIN heap
        /\ \A x \in 0 .. Len(heap) : x \in 0 .. Len(heap') /\ x # r
        /\ Len(heap') \in 0 .. Len(heap')
        /\ DOMAIN heap' = 1 .. r
    BY <1>1, <1>2, <2>1, <2>4, NewArray
  <2>6. r # 0 /\ r \in DOMAIN heap' /\ \A x \in DOMAIN heap : x \in DOMAIN heap'
    BY <1>2, <2>5
  <2>7. r = Len(heap')
    BY <2>5
  <2> HIDE DEF r
  <2>8. QED
    BY <1>2, <1>5, <2>1, <2>2, <2>3, <2>5, <2>6, <2>7 DEF array
<1>6. QED
  BY <1>4, <1>5

LEMMA StartStep ==
    ASSUME BridgeInv, NEW s \in Streams, NEW u \in Users, Start(s, u)
    PROVE  BridgeInv'
<1> DEFINE m == Question(s)
<1>1. /\ pc[s] = "new" /\ MayCall(u)
      /\ pc' = [pc EXCEPT ![s] = "waiting"] /\ user' = [user EXCEPT ![s] = u]
      /\ born' = [born EXCEPT ![s] = resets[u]]
      /\ UNCHANGED <<text, resets>>
  BY DEF Start
<1>2. TypeOK /\ SentHasUser /\ PatientWaits /\ OneOwner /\ SentIsBorn /\ ContextIsOwn
  BY DEF BridgeInv
<1>3. PICK r, base :
        /\ base \in Seq(Message) /\ Ordered(base) /\ BornIn(base, pc)
        /\ OfUser(base, u, user)
        /\ r \in DOMAIN heap' /\ r # 0 /\ r \in 0 .. Len(heap')
        /\ r \in DOMAIN heap => Holds(u, r)
        /\ heap' \in Seq(Seq(Message)) /\ heap'[r] = Append(base, m)
        /\ \A x \in DOMAIN heap' : x # r => x \in DOMAIN heap /\ heap'[x] = heap[x]
        /\ \A x \in DOMAIN heap : x \in DOMAIN heap'
        /\ \A x \in 0 .. Len(heap) : x \in 0 .. Len(heap')
        /\ \A x \in 0 .. Len(heap) : x # 0 => x \in DOMAIN heap
        /\ store' = [store EXCEPT ![u] = r] /\ ref' = [ref EXCEPT ![s] = r]
        /\ sent' = [sent EXCEPT ![s] = Truncate(heap'[r])]
        /\ store[u] # 0 => store[u] = r
  BY StartEffect
<1>4. /\ pc' \in [Streams -> Pc] /\ pc'[s] = "waiting" /\ user'[s] = u
      /\ \A q \in Streams : q # s => pc'[q] = pc[q] /\ user'[q] = user[q]
  BY <1>1, <1>2 DEF TypeOK, Pc
<1>5. /\ store'[u] = r /\ \A v \in Users : v # u => store'[v] = store[v]
      /\ ref'[s] = r /\ \A q \in Streams : q # s => ref'[q] = ref[q]
      /\ sent'[s] = Truncate(heap'[r]) /\ \A q \in Streams : q # s => sent'[q] = sent[q]
  BY <1>2, <1>3 DEF TypeOK
<1>6. m \in Message /\ m.of = s /\ m.role = "user"
  BY DEF Question, Message
<1> DEFINE a == Append(base, m)
<1>7. /\ a \in Seq(Message) /\ Len(a) = Len(base) + 1 /\ Len(base) \in Nat
      /\ a[Len(base) + 1] = m
      /\ \A k \in DOMAIN a : \/ (k \in DOMAIN base /\ a[k] = base[k])
                             \/ (k = Len(base) + 1 /\ a[k] = m)
  <2> HIDE DEF m
  <2>1. QED
    BY <1>3, <1>6, AppendMessage
<1>8. \A k \in DOMAIN base : base[k] \in Message /\ base[k].of \in Streams /\ base[k].of # s
  BY <1>1, <1>3 DEF BornIn, Message
<1>9. Ordered(a)
  <2>1. \A k \in DOMAIN base : base[k] # m /\ m # Question(base[k].of)
    BY <1>6, <1>8 DEF Question
  <2> HIDE DEF m
  <2>2. QED
    BY <1>3, <1>6, <2>1, AppendOrdered
<1> HIDE DEF m
<1>10. BornIn(a, pc') /\ OfUser(a, u, user')
  <2> HIDE DEF a
  <2>1. \A k \in DOMAIN base : /\ pc'[base[k].of] = pc[base[k].of]
                               /\ user'[base[k].of] = u
    BY <1>3, <1>4, <1>8 DEF OfUser
  <2>2. \A k \in DOMAIN base : /\ pc[base[k].of] # "new"
                               /\ base[k].role = "assistant" => pc[base[k].of] = "ended"
    BY <1>3 DEF BornIn
  <2>3. pc'[m.of] # "new" /\ m.role # "assistant" /\ user'[m.of] = u
    BY <1>4, <1>6
  <2>4. SUFFICES ASSUME NEW k \in DOMAIN a
                 PROVE  /\ a[k] \in Message /\ pc'[a[k].of] # "new"
                        /\ a[k].role = "assistant" => pc'[a[k].of] = "ended"
                        /\ user'[a[k].of] = u
    <3>1. BornIn(a, pc') <=> \A k \in DOMAIN a :
              /\ a[k] \in Message /\ pc'[a[k].of] # "new"
              /\ a[k].role = "assistant" => pc'[a[k].of] = "ended"
      BY DEF BornIn
    <3>2. OfUser(a, u, user') <=> \A k \in DOMAIN a : user'[a[k].of] = u
      BY DEF OfUser
    <3>3. QED
      BY <3>1, <3>2
  <2>5. CASE k \in DOMAIN base /\ a[k] = base[k]
    BY <1>8, <2>1, <2>2, <2>5
  <2>6. CASE a[k] = m
    BY <1>6, <2>3, <2>6
  <2>7. QED
    BY <1>7, <2>5, <2>6
<1>11. heap'[r] = a
  BY <1>3
<1> HIDE DEF a
<1>12. TypeOK'
  <2>1. store' \in [Users -> 0 .. Len(heap')] /\ ref' \in [Streams -> 0 .. Len(heap')]
    BY <1>2, <1>3 DEF TypeOK
  <2>2. sent' \in [Streams -> Seq(Message)]
    <3>1. Truncate(a) \in Seq(Message)
      BY <1>7, TruncateIsSuffix
    <3>2. QED
      BY <1>2, <1>3, <1>11, <3>1 DEF TypeOK
  <2>3. user' \in [Streams -> Users \cup {None}] /\ born' \in [Streams -> 0 .. MaxResets]
    BY <1>1, <1>2 DEF TypeOK
  <2>4. QED
    BY <1>1, <1>2, <1>3, <1>4, <2>1, <2>2, <2>3 DEF TypeOK
<1>13. \A v \in Users : \A x \in DOMAIN heap' : Holds(v, x)' =>
          (x \in DOMAIN heap /\ Holds(v, x)) \/ (v = u /\ x = r)
  <2>1. SUFFICES ASSUME NEW v \in Users, NEW x \in DOMAIN heap', Holds(v, x)',
                        ~(v = u /\ x = r)
                 PROVE  x \in DOMAIN heap /\ Holds(v, x)
    OBVIOUS
  <2>2. Holds(v, x) /\ x \in 0 .. Len(heap)
    <3>1. CASE store'[v] = x
      <4>1. v # u /\ store[v] = x
        BY <1>5, <2>1, <3>1
      <4>2. QED
        BY <1>2, <4>1 DEF Holds, TypeOK
    <3>2. CASE \E q \in Streams : pc'[q] # "new" /\ user'[q] = v /\ ref'[q] = x
      <4>1. PICK q \in Streams : pc'[q] # "new" /\ user'[q] = v /\ ref'[q] = x
        BY <3>2
      <4>2. q # s
        BY <1>4, <1>5, <2>1, <4>1
      <4>3. pc[q] # "new" /\ user[q] = v /\ ref[q] = x
        BY <1>4, <1>5, <4>1, <4>2
      <4>4. QED
        BY <1>2, <4>3 DEF Holds, TypeOK
    <3>3. QED
      BY <2>1, <3>1, <3>2 DEF Holds
  <2>3. x # 0
    BY <1>3, <2>1
  <2>4. QED
    BY <1>3, <2>2, <2>3
<1>14. OneOwner' /\ HeapIsBorn' /\ HeapIsOwn' /\ InOrderOnce'
  <2>1. \A v \in Users : Holds(v, r)' => v = u
    BY <1>2, <1>3, <1>13 DEF OneOwner
  <2>2. \A x \in DOMAIN heap' :
            \/ x \in DOMAIN heap /\ heap'[x] = heap[x]
            \/ /\ Ordered(heap'[x]) /\ BornIn(heap'[x], pc') /\ OfUser(heap'[x], u, user')
               /\ \A v \in Users : Holds(v, x)' => v = u
    BY <1>3, <1>9, <1>10, <1>11, <2>1
  <2>3. \A q \in Streams : pc[q] # "new" =>
            /\ user'[q] = user[q] /\ pc'[q] # "new"
            /\ pc[q] = "ended" => pc'[q] = "ended"
    BY <1>1, <1>4
  <2>4. QED
    BY <1>3, <1>13, <2>2, <2>3, HeapStep
<1>15. SentHasUser'
  <2>1. SUFFICES ASSUME NEW q \in Streams
                 PROVE  IF pc'[q] = "new" THEN user'[q] = None /\ sent'[q] = <<>>
                        ELSE user'[q] \in Users /\ ref'[q] # 0
    BY DEF SentHasUser
  <2>2. CASE q = s
    BY <1>3, <1>4, <1>5, <2>2
  <2>3. CASE q # s
    <3>1. /\ pc'[q] = pc[q] /\ user'[q] = user[q]
          /\ ref'[q] = ref[q] /\ sent'[q] = sent[q]
      BY <1>4, <1>5, <2>3
    <3>2. QED
      BY <1>2, <3>1 DEF SentHasUser
  <2>4. QED
    BY <2>2, <2>3
<1>16. /\ sent'[s] \in Seq(Message) /\ BornIn(sent'[s], pc') /\ OfUser(sent'[s], u, user')
       /\ Len(sent'[s]) > 0 /\ sent'[s][Len(sent'[s])] = m
       /\ MaxHistoryTurns > 0 => Len(sent'[s]) <= 2 * MaxHistoryTurns
  <2> DEFINE t == Truncate(a)
  <2>1. /\ t \in Seq(Message) /\ (Len(a) > 0 => Len(t) > 0)
        /\ MaxHistoryTurns > 0 => Len(t) <= 2 * MaxHistoryTurns
    BY <1>7, TruncateIsSuffix
  <2>2. PICK d \in Nat : Len(t) + d = Len(a) /\ \A k \in 1 .. Len(t) : t[k] = a[k + d]
    BY <1>7, TruncateIsSuffix
  <2>3. BornIn(t, pc') /\ OfUser(t, u, user')
    BY <1>7, <1>10, TruncateKeeps
  <2> HIDE DEF t
  <2>4. Len(t) \in Nat /\ Len(t) > 0 /\ Len(t) \in 1 .. Len(t)
    BY <1>7, <2>1, LenProperties
  <2>5. t[Len(t)] = m
    BY <1>7, <2>2, <2>4
  <2>6. sent'[s] = t
    BY <1>5, <1>11 DEF t
  <2>7. QED
    BY <2>1, <2>3, <2>4, <2>5, <2>6
<1>17. \A q \in Streams : q # s => \A k \in DOMAIN sent[q] :
           sent[q][k].of \in Streams /\ pc[sent[q][k].of] # "new" /\ sent[q][k].of # s
  <2>1. SUFFICES ASSUME NEW q \in Streams, NEW k \in DOMAIN sent[q]
                 PROVE  sent[q][k].of \in Streams
    BY <1>1, <1>2 DEF SentIsBorn
  <2>2. sent[q] \in Seq(Message)
    BY <1>2 DEF TypeOK
  <2>3. sent[q][k] \in Message
    BY <2>2
  <2>4. QED
    BY <2>3 DEF Message
<1>18. SentIsBorn'
  <2>1. \A q \in Streams : \A k \in DOMAIN sent'[q] : pc'[sent'[q][k].of] # "new"
    BY <1>4, <1>5, <1>16, <1>17 DEF BornIn
  <2>2. QED
    BY <2>1 DEF SentIsBorn
<1>19. ContextIsOwn'
  <2>1. SUFFICES ASSUME NEW q \in Streams, pc'[q] # "new"
                 PROVE  /\ Len(sent'[q]) > 0 /\ sent'[q][Len(sent'[q])] = Question(q)
                        /\ MaxHistoryTurns > 0 => Len(sent'[q]) <= 2 * MaxHistoryTurns
                        /\ \A k \in DOMAIN sent'[q] : user'[sent'[q][k].of] = user'[q]
    BY DEF ContextIsOwn
  <2>2. CASE q = s
    BY <1>4, <1>16, <2>2 DEF OfUser, m
  <2>3. CASE q # s
    BY <1>2, <1>4, <1>5, <1>17, <2>1, <2>3 DEF ContextIsOwn
  <2>4. QED
    BY <2>2, <2>3
<1>20. PatientWaits'
  <2>1. SUFFICES ASSUME NEW p \in Streams, Open(p)', user'[p] \in Patient
                 PROVE  /\ ref'[p] = store'[user'[p]]
                        /\ \A q \in Streams : Open(q)' /\ user'[q] = user'[p] => q = p
    BY DEF PatientWaits
  <2>2. \A q \in Streams : q # s => (Open(q)' <=> Open(q))
    BY <1>4 DEF Open
  <2>3. u \in Patient => \A q \in Streams : Open(q) => user[q] # u
    BY <1>1 DEF MayCall, OpenOf
  <2>4. CASE p = s
    BY <1>4, <1>5, <2>1, <2>2, <2>3, <2>4
  <2>5. CASE p # s
    <3>1. Open(p) /\ user[p] \in Patient /\ user[p] # u /\ user'[p] = user[p]
      BY <1>4, <2>1, <2>2, <2>3, <2>5
    <3>2. user[p] \in Users
      BY <3>1, BridgeAssumption
    <3>3. ref'[p] = store'[user'[p]]
      BY <1>2, <1>5, <2>5, <3>1, <3>2 DEF PatientWaits
    <3>4. ASSUME NEW q \in Streams, Open(q)', user'[q] = user'[p] PROVE q = p
      <4>1. q # s
        BY <1>4, <3>1, <3>4
      <4>2. QED
        BY <1>2, <1>4, <2>2, <3>1, <3>4, <4>1 DEF PatientWaits
    <3>5. QED
      BY <3>3, <3>4
  <2>6. QED
    BY <2>4, <2>5
<1>21. QED
  BY <1>12, <1>14, <1>15, <1>18, <1>19, <1>20 DEF BridgeInv

-----------------------------------------------------------------------------
\* The invariant holds initially and every step keeps it.
LEMMA BridgeInit == Init => BridgeInv
<1> SUFFICES ASSUME Init PROVE BridgeInv
  OBVIOUS
<1>1. /\ <<>> \in Seq(Message) /\ <<>> \in Seq(Seq(Message)) /\ DOMAIN <<>> = {}
      /\ Len(<<>>) = 0 /\ 0 \in 0 .. 0 /\ 0 \in 0 .. MaxResets
  BY BridgeAssumption
<1>2. TypeOK
  BY <1>1 DEF Init, TypeOK, Pc
<1>3. SentHasUser /\ PatientWaits /\ ContextIsOwn
  BY DEF Init, SentHasUser, PatientWaits, ContextIsOwn, Open
<1>4. OneOwner /\ HeapIsBorn /\ HeapIsOwn /\ InOrderOnce
  BY <1>1 DEF Init, OneOwner, HeapIsBorn, HeapIsOwn, InOrderOnce
<1>5. SentIsBorn
  BY <1>1 DEF Init, SentIsBorn
<1>6. QED
  BY <1>2, <1>3, <1>4, <1>5 DEF BridgeInv

LEMMA BridgeNext == BridgeInv /\ [Next]_vars => BridgeInv'
<1> SUFFICES ASSUME BridgeInv, [Next]_vars PROVE BridgeInv'
  OBVIOUS
<1>1. ASSUME NEW u \in Users, StartEmpty(u) PROVE BridgeInv'
  BY <1>1, StartEmptyStep
<1>2. ASSUME NEW u \in Users, Reset(u) PROVE BridgeInv'
  BY <1>2, ResetStep
<1>3. ASSUME NEW s \in Streams, Respond(s) \/ Chunk(s) \/ Break(s) PROVE BridgeInv'
  BY <1>3, QuietStep
<1>4. ASSUME NEW s \in Streams, End(s) PROVE BridgeInv'
  BY <1>4, EndStep
<1>5. ASSUME NEW s \in Streams, NEW u \in Users, Start(s, u) PROVE BridgeInv'
  BY <1>5, StartStep
<1>6. CASE UNCHANGED vars
  BY <1>6 DEF vars, BridgeInv, TypeOK, SentHasUser, OneOwner, Holds, HeapIsBorn, BornIn,
              HeapIsOwn, OfUser, SentIsBorn, PatientWaits, Open, ContextIsOwn, InOrderOnce
<1>7. QED
  BY <1>1, <1>2, <1>3, <1>4, <1>5, <1>6 DEF Next

THEOREM BridgeInvariance == Spec => []BridgeInv
<1>1. QED
  BY BridgeInit, BridgeNext, PTL DEF Spec

\* Every variable keeps its type, and references stay valid.
THEOREM TypeCorrect == Spec => []TypeOK
<1>1. BridgeInv => TypeOK
  BY DEF BridgeInv
<1>2. QED
  BY <1>1, BridgeInvariance, PTL

\* Whatever streams overlap, what is sent ends with the request's own question
\* and holds messages of its own user only.
THEOREM UsersStayApart == Spec => []ContextIsOwn
<1>1. BridgeInv => ContextIsOwn
  BY DEF BridgeInv
<1>2. QED
  BY <1>1, BridgeInvariance, PTL

\* However the streams of a user overlap, no message is kept twice and no
\* answer comes before its question.
THEOREM KeptInOrder == Spec => []InOrderOnce
<1>1. BridgeInv => InOrderOnce
  BY DEF BridgeInv
<1>2. QED
  BY <1>1, BridgeInvariance, PTL

-----------------------------------------------------------------------------
\* The conversation as Conversation sees it (the refinement mapping of Promise).
TalkBar    == [u \in Patient |-> Talk(u)]
Some(S)    == CHOOSE s \in S : TRUE
OpenBar    == [u \in Patient |-> IF OpenOf(u) = {} THEN None ELSE Some(OpenOf(u))]
ContextBar == [s \in Streams |-> IF user[s] \in Patient THEN sent[s] ELSE <<>>]

\* The element of a set that has one.
LEMMA SomeOfOne == \A s : Some({s}) = s
  BY DEF Some

\* With one turn and more, what truncateConversation keeps are the recent turns.
LEMMA TruncateIsRecent ==
    ASSUME MaxHistoryTurns > 0, NEW a
    PROVE  Truncate(a) = Promise!Recent(a)
<1>1. 2 * MaxHistoryTurns # 0
  BY BridgeAssumption
<1>2. QED
  BY <1>1 DEF Truncate, Promise!Recent

\* A conversation nobody writes to.
LEMMA TalkStays ==
    ASSUME BridgeInv, NEW u \in Users, NEW r, Holds(u, r),
           NEW v \in Users, v # u, store'[v] = store[v],
           \A x \in DOMAIN heap : x # r => heap'[x] = heap[x]
    PROVE  Talk(v)' = Talk(v)
<1>1. CASE store[v] = 0
  BY <1>1 DEF Talk
<1>2. CASE store[v] # 0
  <2>1. store[v] \in DOMAIN heap
    <3>1. store[v] \in 0 .. Len(heap) /\ Len(heap) \in Nat /\ DOMAIN heap = 1 .. Len(heap)
      BY DEF BridgeInv, TypeOK
    <3>2. QED
      BY <1>2, <3>1
  <2>2. Holds(v, store[v])
    BY DEF Holds
  <2>3. store[v] # r
    BY <2>1, <2>2 DEF BridgeInv, OneOwner
  <2>4. QED
    BY <1>2, <2>1, <2>3 DEF Talk
<1>3. QED
  BY <1>1, <1>2

\* The open request of a user who waits.
LEMMA OneOpen ==
    ASSUME BridgeInv, NEW s \in Streams, Open(s), user[s] \in Patient
    PROVE  OpenOf(user[s]) = {s} /\ OpenBar[user[s]] = s
<1>1. OpenOf(user[s]) = {s}
  BY DEF BridgeInv, PatientWaits, OpenOf
<1>2. Some(OpenOf(user[s])) = s /\ OpenOf(user[s]) # {}
  BY <1>1, SomeOfOne
<1>3. QED
  BY <1>1, <1>2 DEF OpenBar

\* Steps Conversation does not see.
LEMMA Unseen ==
    ASSUME \A u \in Patient : Talk(u)' = Talk(u) /\ OpenOf(u)' = OpenOf(u),
           ContextBar' = ContextBar
    PROVE  UNCHANGED Promise!vars
<1>1. TalkBar' = TalkBar /\ OpenBar' = OpenBar
  BY DEF TalkBar, OpenBar
<1>2. QED
  BY <1>1 DEF Promise!vars, TalkBar, OpenBar, Some, ContextBar

LEMMA StartMaps ==
    ASSUME BridgeInv, MaxHistoryTurns > 0, NEW s \in Streams, NEW u \in Users, Start(s, u)
    PROVE  [Promise!Next]_(Promise!vars)
<1>1. /\ pc[s] = "new" /\ MayCall(u)
      /\ pc' = [pc EXCEPT ![s] = "waiting"] /\ user' = [user EXCEPT ![s] = u]
  BY DEF Start
<1>2. TypeOK /\ SentHasUser /\ Patient \subseteq Users /\ None \notin Users
  BY BridgeAssumption DEF BridgeInv
<1>3. PICK r, base :
        /\ base \in Seq(Message) /\ Ordered(base) /\ BornIn(base, pc)
        /\ OfUser(base, u, user)
        /\ base = Talk(u)
        /\ r \in DOMAIN heap' /\ r # 0 /\ r \in 0 .. Len(heap')
        /\ r \in DOMAIN heap => Holds(u, r)
        /\ heap' \in Seq(Seq(Message)) /\ heap'[r] = Append(base, Question(s))
        /\ \A x \in DOMAIN heap' : x # r => x \in DOMAIN heap /\ heap'[x] = heap[x]
        /\ \A x \in DOMAIN heap : x \in DOMAIN heap'
        /\ \A x \in 0 .. Len(heap) : x \in 0 .. Len(heap')
        /\ \A x \in 0 .. Len(heap) : x # 0 => x \in DOMAIN heap
        /\ store' = [store EXCEPT ![u] = r] /\ ref' = [ref EXCEPT ![s] = r]
        /\ sent' = [sent EXCEPT ![s] = Truncate(heap'[r])]
        /\ store[u] # 0 => store[u] = r
  BY StartEffect
<1>4. /\ user[s] = None /\ sent[s] = <<>> /\ user'[s] = u /\ pc'[s] = "waiting"
      /\ \A q \in Streams : q # s => pc'[q] = pc[q] /\ user'[q] = user[q]
      /\ \A q \in Streams : q # s => sent'[q] = sent[q]
      /\ sent'[s] = Truncate(heap'[r])
      /\ store'[u] = r /\ \A v \in Users : v # u => store'[v] = store[v]
  BY <1>1, <1>2, <1>3 DEF TypeOK, SentHasUser
<1>5. /\ Talk(u)' = Append(Talk(u), Question(s))
      /\ Talk(u)' = heap'[r]
  BY <1>3, <1>4 DEF Talk
<1>6. ASSUME NEW v \in Users, v # u PROVE Talk(v)' = Talk(v)
  <2>1. CASE r \in DOMAIN heap
    <3>1. \A x \in DOMAIN heap : x # r => heap'[x] = heap[x]
      BY <1>3
    <3>2. QED
      BY <1>3, <1>4, <1>6, <2>1, <3>1, TalkStays
  <2>2. CASE r \notin DOMAIN heap
    <3>1. store'[v] = store[v] /\ store[v] \in 0 .. Len(heap)
      BY <1>2, <1>4, <1>6 DEF TypeOK
    <3>2. store[v] # 0 => heap'[store[v]] = heap[store[v]]
      BY <1>3, <2>2, <3>1
    <3>3. QED
      BY <3>1, <3>2 DEF Talk
  <2>3. QED
    BY <2>1, <2>2
<1>7. \A v \in Users : v # u => OpenOf(v)' = OpenOf(v)
  BY <1>1, <1>2, <1>4 DEF OpenOf, Open
<1>8. CASE u \notin Patient
  <2>1. \A v \in Patient : Talk(v)' = Talk(v) /\ OpenOf(v)' = OpenOf(v)
    BY <1>2, <1>6, <1>7, <1>8
  <2>2. ContextBar' = ContextBar
    BY <1>2, <1>4, <1>8 DEF ContextBar
  <2>3. QED
    BY <2>1, <2>2, Unseen
<1>9. CASE u \in Patient
  <2>1. OpenOf(u) = {}
    BY <1>1, <1>9 DEF MayCall
  <2>2. OpenOf(u)' = {s}
    BY <1>4, <2>1 DEF OpenOf, Open
  <2>3. OpenBar[u] = None
    BY <1>9, <2>1 DEF OpenBar
  <2>4. OpenBar' = [OpenBar EXCEPT ![u] = s]
    <3>1. Some(OpenOf(u)') = s /\ OpenOf(u)' # {}
      BY <2>2, SomeOfOne
    <3>2. QED
      BY <1>2, <1>7, <1>9, <3>1 DEF OpenBar
  <2>5. TalkBar' = [TalkBar EXCEPT ![u] = Append(TalkBar[u], Question(s))]
        /\ TalkBar'[u] = heap'[r]
    BY <1>2, <1>5, <1>6, <1>9 DEF TalkBar
  <2>6. ContextBar[s] = <<>>
    BY <1>2, <1>4 DEF ContextBar
  <2>7. ContextBar' = [ContextBar EXCEPT ![s] = Promise!Recent(TalkBar'[u])]
    <3>1. sent'[s] = Promise!Recent(TalkBar'[u])
      BY <1>4, <2>5, TruncateIsRecent
    <3>2. QED
      BY <1>4, <1>9, <3>1 DEF ContextBar
  <2>8. Promise!Ask(u, s)
    BY <2>3, <2>4, <2>5, <2>6, <2>7
       DEF Promise!Ask, Promise!Question, Question, TalkBar, OpenBar, Some, ContextBar
  <2>9. QED
    BY <1>9, <2>8 DEF Promise!Next
<1>10. QED
  BY <1>8, <1>9

LEMMA EndMaps ==
    ASSUME BridgeInv, MaxHistoryTurns > 0, NEW s \in Streams, End(s)
    PROVE  [Promise!Next]_(Promise!vars)
<1> DEFINE u == user[s]
           r == ref[s]
           array == IF text[s] THEN Append(heap[r], Reply(s)) ELSE heap[r]
           h == [heap EXCEPT ![r] = array]
<1>1. /\ pc[s] = "streaming" /\ pc' = [pc EXCEPT ![s] = "ended"]
      /\ heap' = Append(h, Truncate(array))
      /\ store' = [store EXCEPT ![u] = Len(heap')]
      /\ UNCHANGED <<user, ref, sent, text>>
  BY DEF End
<1>2. TypeOK /\ SentHasUser /\ PatientWaits /\ Patient \subseteq Users /\ None \notin Streams
  BY BridgeAssumption DEF BridgeInv
<1>3. /\ u \in Users /\ r # 0 /\ r \in 0 .. Len(heap) /\ Holds(u, r) /\ Open(s)
      /\ heap \in Seq(Seq(Message)) /\ Len(heap) \in Nat /\ DOMAIN heap = 1 .. Len(heap)
  BY <1>1, <1>2 DEF SentHasUser, TypeOK, Holds, Open
<1>4. r \in DOMAIN heap /\ heap[r] \in Seq(Message)
  BY <1>3
<1>5. array \in Seq(Message)
  <2>1. Reply(s) \in Message
    BY DEF Reply, Message
  <2>2. QED
    BY <1>4, <2>1, AppendMessage
<1> HIDE DEF array
<1>6. /\ h \in Seq(Seq(Message)) /\ Len(h) = Len(heap)
      /\ \A x \in DOMAIN heap : x # r => h[x] = heap[x]
  BY <1>3, <1>4, <1>5, ExceptSeq
<1>7. Truncate(array) \in Seq(Message)
  BY <1>5, TruncateIsSuffix
<1>8. /\ Len(heap') = Len(heap) + 1 /\ Len(heap') # 0
      /\ heap'[Len(heap) + 1] = Truncate(array)
      /\ \A x \in DOMAIN heap : heap'[x] = h[x]
  <2> HIDE DEF h
  <2>1. QED
    BY <1>1, <1>2, <1>6, <1>7, NewArray
<1> HIDE DEF h
<1>9. /\ store'[u] = Len(heap') /\ \A v \in Users : v # u => store'[v] = store[v]
      /\ \A q \in Streams : (pc'[q] \in {"waiting", "streaming"}) <=>
                               (q # s /\ pc[q] \in {"waiting", "streaming"})
  BY <1>1, <1>2, <1>3 DEF TypeOK
<1>10. ASSUME NEW v \in Users, v # u PROVE Talk(v)' = Talk(v) /\ OpenOf(v)' = OpenOf(v)
  <2>1. \A x \in DOMAIN heap : x # r => heap'[x] = heap[x]
    BY <1>6, <1>8
  <2>2. Talk(v)' = Talk(v)
    <3> HIDE DEF u, r
    <3>1. QED
      BY <1>3, <1>9, <1>10, <2>1, TalkStays
  <2>3. OpenOf(v)' = OpenOf(v)
    BY <1>1, <1>9, <1>10 DEF OpenOf, Open
  <2>4. QED
    BY <2>2, <2>3
<1>11. ContextBar' = ContextBar
  BY <1>1 DEF ContextBar
<1>12. CASE u \notin Patient
  <2>1. \A v \in Patient : Talk(v)' = Talk(v) /\ OpenOf(v)' = OpenOf(v)
    BY <1>2, <1>10, <1>12
  <2>2. QED
    BY <1>11, <2>1, Unseen
<1>13. CASE u \in Patient
  <2>1. OpenOf(u) = {s} /\ OpenBar[u] = s /\ r = store[u]
    BY <1>2, <1>3, <1>13, OneOpen DEF PatientWaits
  <2>2. OpenBar[u] # None
    BY <1>2, <2>1
  <2>3. OpenBar' = [OpenBar EXCEPT ![u] = None]
    <3>1. \A v \in Patient : v = u => OpenOf(v)' = {}
      BY <1>1, <1>9, <2>1 DEF OpenOf, Open
    <3>2. \A v \in Patient : v # u => OpenOf(v)' = OpenOf(v)
      BY <1>2, <1>10
    <3>3. QED
      BY <3>1, <3>2 DEF OpenBar
  <2>4. heap[r] = TalkBar[u]
    BY <1>3, <1>13, <2>1 DEF TalkBar, Talk
  <2>5. TalkBar' = [TalkBar EXCEPT ![u] = Promise!Recent(array)]
    <3>1. Truncate(array) = Promise!Recent(array)
      BY TruncateIsRecent
    <3>2. \A v \in Patient : v = u => Talk(v)' = Promise!Recent(array)
      BY <1>8, <1>9, <3>1 DEF Talk
    <3>3. \A v \in Patient : v # u => Talk(v)' = Talk(v)
      BY <1>2, <1>10
    <3>4. QED
      BY <3>2, <3>3 DEF TalkBar
  <2>6. array = IF text[s] THEN Append(TalkBar[u], Reply(OpenBar[u])) ELSE TalkBar[u]
    BY <2>1, <2>4 DEF array
  <2>7. \/ TalkBar' = [TalkBar EXCEPT ![u] =
                           Promise!Recent(Append(TalkBar[u], Promise!Reply(OpenBar[u])))]
        \/ TalkBar' = [TalkBar EXCEPT ![u] = Promise!Recent(TalkBar[u])]
    BY <2>5, <2>6 DEF Promise!Reply, Reply
  <2>8. Promise!Answer(u)
    BY <1>11, <2>2, <2>3, <2>7
       DEF Promise!Answer, Promise!Close, TalkBar, OpenBar, Some, ContextBar
  <2>9. QED
    BY <1>13, <2>8 DEF Promise!Next
<1>14. QED
  BY <1>12, <1>13

LEMMA BreakMaps ==
    ASSUME BridgeInv, NEW s \in Streams, Break(s)
    PROVE  [Promise!Next]_(Promise!vars)
<1> DEFINE u == user[s]
<1>1. /\ Open(s) /\ pc' = [pc EXCEPT ![s] = "failed"]
      /\ UNCHANGED <<heap, store, user, ref, sent, text>>
  BY DEF Break
<1>2. TypeOK /\ SentHasUser /\ Patient \subseteq Users /\ None \notin Streams
  BY BridgeAssumption DEF BridgeInv
<1>3. \A q \in Streams : Open(q)' <=> (q # s /\ Open(q))
  BY <1>1, <1>2 DEF TypeOK, Open
<1>4. ContextBar' = ContextBar /\ \A v \in Patient : Talk(v)' = Talk(v)
  BY <1>1 DEF ContextBar, Talk
<1>5. \A v \in Patient : v # u => OpenOf(v)' = OpenOf(v)
  BY <1>1, <1>3 DEF OpenOf
<1>6. CASE u \notin Patient
  <2>1. \A v \in Patient : Talk(v)' = Talk(v) /\ OpenOf(v)' = OpenOf(v)
    BY <1>4, <1>5, <1>6
  <2>2. QED
    BY <1>4, <2>1, Unseen
<1>7. CASE u \in Patient
  <2>1. OpenOf(u) = {s} /\ OpenBar[u] = s
    BY <1>1, <1>7, OneOpen
  <2>2. OpenBar[u] # None
    BY <1>2, <2>1
  <2>3. OpenBar' = [OpenBar EXCEPT ![u] = None]
    <3>1. \A v \in Patient : v = u => OpenOf(v)' = {}
      BY <1>1, <1>3, <2>1 DEF OpenOf
    <3>2. QED
      BY <1>5, <3>1 DEF OpenBar
  <2>4. TalkBar' = TalkBar
    BY <1>4 DEF TalkBar
  <2>5. Promise!Fail(u)
    BY <1>4, <2>2, <2>3, <2>4
       DEF Promise!Fail, Promise!Close, TalkBar, OpenBar, Some, ContextBar
  <2>6. QED
    BY <1>7, <2>5 DEF Promise!Next
<1>8. QED
  BY <1>6, <1>7

LEMMA EmptyMaps ==
    ASSUME BridgeInv, NEW u \in Users, StartEmpty(u) \/ Reset(u)
    PROVE  [Promise!Next]_(Promise!vars)
<1>1. /\ heap' = Append(heap, <<>>) /\ store' = [store EXCEPT ![u] = Len(heap')]
      /\ UNCHANGED <<pc, user, ref, sent, text>>
      /\ store[u] = 0 \/ MayCall(u)
  BY DEF StartEmpty, Reset
<1>2. /\ TypeOK /\ Patient \subseteq Users
      /\ heap \in Seq(Seq(Message)) /\ <<>> \in Seq(Message)
      /\ Len(heap) \in Nat /\ DOMAIN heap = 1 .. Len(heap)
  BY BridgeAssumption DEF BridgeInv, TypeOK
<1>3. /\ Len(heap') = Len(heap) + 1 /\ Len(heap') # 0
      /\ heap'[Len(heap) + 1] = <<>>
      /\ \A x \in DOMAIN heap : heap'[x] = heap[x]
  BY <1>1, <1>2, NewArray
<1>4. ContextBar' = ContextBar /\ \A v \in Patient : OpenOf(v)' = OpenOf(v)
  BY <1>1 DEF ContextBar, OpenOf, Open
<1>5. store'[u] = Len(heap') /\ \A v \in Users : v # u => store'[v] = store[v]
  BY <1>1, <1>2 DEF TypeOK
<1>6. Talk(u)' = <<>>
  BY <1>3, <1>5 DEF Talk
<1>7. \A v \in Users : v # u => Talk(v)' = Talk(v)
  <2>1. SUFFICES ASSUME NEW v \in Users, v # u PROVE Talk(v)' = Talk(v)
    OBVIOUS
  <2>2. store'[v] = store[v] /\ store[v] \in 0 .. Len(heap)
    BY <1>2, <1>5, <2>1 DEF TypeOK
  <2>3. store[v] # 0 => store[v] \in DOMAIN heap
    BY <1>2, <2>2
  <2>4. QED
    BY <1>3, <2>2, <2>3 DEF Talk
<1>8. CASE u \notin Patient \/ store[u] = 0
  <2>1. store[u] = 0 => Talk(u)' = Talk(u)
    BY <1>6 DEF Talk
  <2>2. \A v \in Patient : Talk(v)' = Talk(v)
    BY <1>2, <1>7, <1>8, <2>1
  <2>3. QED
    BY <1>4, <2>2, Unseen
<1>9. CASE u \in Patient /\ MayCall(u)
  <2>1. OpenBar' = OpenBar /\ OpenBar[u] = None
    BY <1>4, <1>9 DEF OpenBar, MayCall
  <2>2. TalkBar' = [TalkBar EXCEPT ![u] = <<>>]
    BY <1>2, <1>6, <1>7 DEF TalkBar
  <2>3. Promise!Reset(u)
    BY <1>4, <2>1, <2>2 DEF Promise!Reset, TalkBar, OpenBar, Some, ContextBar
  <2>4. QED
    BY <1>9, <2>3 DEF Promise!Next
<1>10. QED
  BY <1>1, <1>8, <1>9

LEMMA QuietMaps ==
    ASSUME BridgeInv, NEW s \in Streams, Respond(s) \/ Chunk(s)
    PROVE  UNCHANGED Promise!vars
<1>1. /\ UNCHANGED <<heap, store, user, sent>>
      /\ \A q \in Streams : (pc'[q] \in {"waiting", "streaming"}) <=>
                              (pc[q] \in {"waiting", "streaming"})
  BY DEF BridgeInv, TypeOK, Respond, Chunk, Pc
<1>2. \A v \in Patient : Talk(v)' = Talk(v) /\ OpenOf(v)' = OpenOf(v)
  BY <1>1 DEF Talk, OpenOf, Open
<1>3. ContextBar' = ContextBar
  BY <1>1 DEF ContextBar
<1>4. QED
  BY <1>2, <1>3, Unseen

\* To any number of users who wait for each answer, among any number who do
\* not, the bridge is the Conversation README.md promises, when the history has
\* one turn or more (slice(-0) would keep all of it).
THEOREM PromiseIsKept ==
    ASSUME MaxHistoryTurns > 0
    PROVE  Spec => PromiseKept
<1>1. Init => Promise!Init
  <2>1. SUFFICES ASSUME Init PROVE Promise!Init
    OBVIOUS
  <2>2. None \notin Patient
    BY BridgeAssumption
  <2>3. \A u \in Patient : Talk(u) = <<>> /\ OpenOf(u) = {}
    BY <2>1, BridgeAssumption DEF Init, Talk, OpenOf, Open
  <2>4. TalkBar = [u \in Patient |-> <<>>] /\ OpenBar = [u \in Patient |-> None]
    BY <2>3 DEF TalkBar, OpenBar
  <2>5. ContextBar = [s \in Streams |-> <<>>]
    BY <2>1, <2>2 DEF Init, ContextBar
  <2>6. QED
    BY <2>4, <2>5 DEF Promise!Init, TalkBar, OpenBar, Some, ContextBar
<1>2. BridgeInv /\ [Next]_vars => [Promise!Next]_(Promise!vars)
  <2>1. SUFFICES ASSUME BridgeInv, [Next]_vars PROVE [Promise!Next]_(Promise!vars)
    OBVIOUS
  <2>2. ASSUME NEW u \in Users, StartEmpty(u) \/ Reset(u)
        PROVE  [Promise!Next]_(Promise!vars)
    BY <2>1, <2>2, EmptyMaps
  <2>3. ASSUME NEW s \in Streams, Respond(s) \/ Chunk(s) PROVE UNCHANGED Promise!vars
    BY <2>1, <2>3, QuietMaps
  <2>4. ASSUME NEW s \in Streams, Break(s) PROVE [Promise!Next]_(Promise!vars)
    BY <2>1, <2>4, BreakMaps
  <2>5. ASSUME NEW s \in Streams, End(s) PROVE [Promise!Next]_(Promise!vars)
    BY <2>1, <2>5, EndMaps
  <2>6. ASSUME NEW s \in Streams, NEW u \in Users, Start(s, u)
        PROVE  [Promise!Next]_(Promise!vars)
    BY <2>1, <2>6, StartMaps
  <2>7. CASE UNCHANGED vars
    <3>1. \A v \in Patient : Talk(v)' = Talk(v) /\ OpenOf(v)' = OpenOf(v)
      BY <2>7 DEF vars, Talk, OpenOf, Open
    <3>2. ContextBar' = ContextBar
      BY <2>7 DEF vars, ContextBar
    <3>3. QED
      BY <3>1, <3>2, Unseen
  <2>8. QED
    BY <2>1, <2>2, <2>3, <2>4, <2>5, <2>6, <2>7 DEF Next
<1>3. QED
  BY <1>1, <1>2, BridgeInvariance, PTL DEF Spec, PromiseKept, Promise!Spec
=============================================================================
