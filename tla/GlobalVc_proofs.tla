---------------------------- MODULE GlobalVc_proofs ----------------------------
(* Proof that the buffers of a global vc are accounted for, for every number of  *)
(* buffers, vcs and threads, when the vcs refuse rather than overwrite and no    *)
(* sender of sendMessage() gives up: those two are the cases in which the code   *)
(* loses or reuses a buffer.  From these accounts, that it then keeps the        *)
(* promises of BufferOwnership and delivers the same messages in the same order  *)
(* to every reader; and what remains true of every other vc.                     *)
EXTENDS GlobalVc, FiniteSetTheorems, SequenceTheorems, TLAPS

NothingIsLost == Refusing = Vc /\ Copying \cap Impatient = {}

-------------------------------------------------------------------------------
(* The users of a buffer, counted by kind. *)

Uses(S, P, Q, R) == Cardinality(S) + Cardinality(P) + Cardinality(Q) + Cardinality(R)
Users(b) == Uses(SenderOwners(b), PushOwners(b), QueueOwners(b), ReadOwners(b))

Named(S, P, Q, R) ==
       {<<"sender", s>> : s \in S} \cup {<<"push", s>>   : s \in P}
  \cup {<<"queue", v>>  : v \in Q} \cup {<<"reader", r>> : r \in R}

(* Every kind is finite.                                                         *)
LEMMA UsesProperties ==
  ASSUME NEW S \in SUBSET Senders, NEW P \in SUBSET Senders, NEW Q \in SUBSET Vc, NEW R \in SUBSET Receivers
  PROVE  /\ IsFiniteSet(S) /\ IsFiniteSet(P) /\ IsFiniteSet(Q) /\ IsFiniteSet(R)
         /\ Cardinality(S) \in Nat /\ Cardinality(P) \in Nat /\ Cardinality(Q) \in Nat /\ Cardinality(R) \in Nat
         /\ Uses(S, P, Q, R) \in Nat
<1>1. IsFiniteSet(Vc)
  <2>1. 0 \in Int /\ NumberOfVcs - 1 \in Int
    BY SizesAssumption
  <2> QED
    BY <2>1, FS_Interval DEF Vc
<1>2. IsFiniteSet(S) /\ IsFiniteSet(P) /\ IsFiniteSet(Q) /\ IsFiniteSet(R)
  BY <1>1, ThreadsAssumption, FS_Subset
<1>3. /\ Cardinality(S) \in Nat /\ Cardinality(P) \in Nat /\ Cardinality(Q) \in Nat /\ Cardinality(R) \in Nat
  BY <1>2, FS_CardinalityType
<1> QED
  BY <1>2, <1>3 DEF Uses

LEMMA UsesZero ==
  ASSUME NEW S \in SUBSET Senders, NEW P \in SUBSET Senders, NEW Q \in SUBSET Vc, NEW R \in SUBSET Receivers
  PROVE  Uses(S, P, Q, R) = 0 <=> S = {} /\ P = {} /\ Q = {} /\ R = {}
<1> DEFINE a == Cardinality(S)
           b == Cardinality(P)
           c == Cardinality(Q)
           d == Cardinality(R)
<1>1. /\ a = 0 <=> S = {}
      /\ b = 0 <=> P = {}
      /\ c = 0 <=> Q = {}
      /\ d = 0 <=> R = {}
  BY UsesProperties, FS_EmptySet
<1>2. /\ Uses(S, P, Q, R) = a + b + c + d
      /\ a \in Nat /\ b \in Nat /\ c \in Nat /\ d \in Nat
  BY UsesProperties DEF Uses
<1> HIDE DEF a, b, c, d
<1> QED
  BY <1>1, <1>2

(* One user more or less counts, and so does one that passes its use on.         *)
LEMMA SenderAdded ==
  ASSUME NEW S \in SUBSET Senders, NEW P \in SUBSET Senders, NEW Q \in SUBSET Vc, NEW R \in SUBSET Receivers,
         NEW s \in Senders, s \notin S
  PROVE  Uses(S \cup {s}, P, Q, R) = Uses(S, P, Q, R) + 1
<1> DEFINE a == Cardinality(S)
           b == Cardinality(P)
           c == Cardinality(Q)
           d == Cardinality(R)
<1>1. IsFiniteSet(S) /\ IsFiniteSet(P) /\ IsFiniteSet(Q) /\ IsFiniteSet(R)
  BY UsesProperties
<1>2. /\ Uses(S, P, Q, R) = a + b + c + d
      /\ a \in Nat /\ b \in Nat /\ c \in Nat /\ d \in Nat
  BY UsesProperties DEF Uses
<1>3. Cardinality(S \cup {s}) = a + 1
  BY <1>1, FS_AddElement, FS_RemoveElement
<1>4. Uses(S \cup {s}, P, Q, R) = (a + 1) + b + c + d
  BY <1>3, Zenon DEF Uses
<1> HIDE DEF a, b, c, d
<1> QED
  BY <1>2, <1>4

LEMMA SenderRemoved ==
  ASSUME NEW S \in SUBSET Senders, NEW P \in SUBSET Senders, NEW Q \in SUBSET Vc, NEW R \in SUBSET Receivers,
         NEW s \in S
  PROVE  Uses(S \ {s}, P, Q, R) = Uses(S, P, Q, R) - 1
<1> DEFINE a == Cardinality(S)
           b == Cardinality(P)
           c == Cardinality(Q)
           d == Cardinality(R)
<1>1. IsFiniteSet(S) /\ IsFiniteSet(P) /\ IsFiniteSet(Q) /\ IsFiniteSet(R)
  BY UsesProperties
<1>2. /\ Uses(S, P, Q, R) = a + b + c + d
      /\ a \in Nat /\ b \in Nat /\ c \in Nat /\ d \in Nat
  BY UsesProperties DEF Uses
<1>3. Cardinality(S \ {s}) = a - 1
  BY <1>1, FS_AddElement, FS_RemoveElement
<1>4. Uses(S \ {s}, P, Q, R) = (a - 1) + b + c + d
  BY <1>3, Zenon DEF Uses
<1> HIDE DEF a, b, c, d
<1> QED
  BY <1>2, <1>4

LEMMA PusherAdded ==
  ASSUME NEW S \in SUBSET Senders, NEW P \in SUBSET Senders, NEW Q \in SUBSET Vc, NEW R \in SUBSET Receivers,
         NEW s \in Senders, s \notin P
  PROVE  Uses(S, P \cup {s}, Q, R) = Uses(S, P, Q, R) + 1
<1> DEFINE a == Cardinality(S)
           b == Cardinality(P)
           c == Cardinality(Q)
           d == Cardinality(R)
<1>1. IsFiniteSet(S) /\ IsFiniteSet(P) /\ IsFiniteSet(Q) /\ IsFiniteSet(R)
  BY UsesProperties
<1>2. /\ Uses(S, P, Q, R) = a + b + c + d
      /\ a \in Nat /\ b \in Nat /\ c \in Nat /\ d \in Nat
  BY UsesProperties DEF Uses
<1>3. Cardinality(P \cup {s}) = b + 1
  BY <1>1, FS_AddElement, FS_RemoveElement
<1>4. Uses(S, P \cup {s}, Q, R) = a + (b + 1) + c + d
  BY <1>3, Zenon DEF Uses
<1> HIDE DEF a, b, c, d
<1> QED
  BY <1>2, <1>4

LEMMA PusherPassesOn ==
  ASSUME NEW S \in SUBSET Senders, NEW P \in SUBSET Senders, NEW Q \in SUBSET Vc, NEW R \in SUBSET Receivers,
         NEW s \in P, NEW v \in Vc, v \notin Q
  PROVE  Uses(S, P \ {s}, Q \cup {v}, R) = Uses(S, P, Q, R)
<1> DEFINE a == Cardinality(S)
           b == Cardinality(P)
           c == Cardinality(Q)
           d == Cardinality(R)
<1>1. IsFiniteSet(S) /\ IsFiniteSet(P) /\ IsFiniteSet(Q) /\ IsFiniteSet(R)
  BY UsesProperties
<1>2. /\ Uses(S, P, Q, R) = a + b + c + d
      /\ a \in Nat /\ b \in Nat /\ c \in Nat /\ d \in Nat
  BY UsesProperties DEF Uses
<1>3. Cardinality(P \ {s}) = b - 1
  BY <1>1, FS_AddElement, FS_RemoveElement
<1>4. Cardinality(Q \cup {v}) = c + 1
  BY <1>1, FS_AddElement, FS_RemoveElement
<1>5. Uses(S, P \ {s}, Q \cup {v}, R) = a + (b - 1) + (c + 1) + d
  BY <1>3, <1>4, Zenon DEF Uses
<1> HIDE DEF a, b, c, d
<1> QED
  BY <1>2, <1>5

LEMMA QueuePassesOn ==
  ASSUME NEW S \in SUBSET Senders, NEW P \in SUBSET Senders, NEW Q \in SUBSET Vc, NEW R \in SUBSET Receivers,
         NEW v \in Q, NEW r \in Receivers, r \notin R
  PROVE  Uses(S, P, Q \ {v}, R \cup {r}) = Uses(S, P, Q, R)
<1> DEFINE a == Cardinality(S)
           b == Cardinality(P)
           c == Cardinality(Q)
           d == Cardinality(R)
<1>1. IsFiniteSet(S) /\ IsFiniteSet(P) /\ IsFiniteSet(Q) /\ IsFiniteSet(R)
  BY UsesProperties
<1>2. /\ Uses(S, P, Q, R) = a + b + c + d
      /\ a \in Nat /\ b \in Nat /\ c \in Nat /\ d \in Nat
  BY UsesProperties DEF Uses
<1>3. Cardinality(Q \ {v}) = c - 1
  BY <1>1, FS_AddElement, FS_RemoveElement
<1>4. Cardinality(R \cup {r}) = d + 1
  BY <1>1, FS_AddElement, FS_RemoveElement
<1>5. Uses(S, P, Q \ {v}, R \cup {r}) = a + b + (c - 1) + (d + 1)
  BY <1>3, <1>4, Zenon DEF Uses
<1> HIDE DEF a, b, c, d
<1> QED
  BY <1>2, <1>5

LEMMA ReaderRemoved ==
  ASSUME NEW S \in SUBSET Senders, NEW P \in SUBSET Senders, NEW Q \in SUBSET Vc, NEW R \in SUBSET Receivers,
         NEW r \in R
  PROVE  Uses(S, P, Q, R \ {r}) = Uses(S, P, Q, R) - 1
<1> DEFINE a == Cardinality(S)
           b == Cardinality(P)
           c == Cardinality(Q)
           d == Cardinality(R)
<1>1. IsFiniteSet(S) /\ IsFiniteSet(P) /\ IsFiniteSet(Q) /\ IsFiniteSet(R)
  BY UsesProperties
<1>2. /\ Uses(S, P, Q, R) = a + b + c + d
      /\ a \in Nat /\ b \in Nat /\ c \in Nat /\ d \in Nat
  BY UsesProperties DEF Uses
<1>3. Cardinality(R \ {r}) = d - 1
  BY <1>1, FS_AddElement, FS_RemoveElement
<1>4. Uses(S, P, Q, R \ {r}) = a + b + c + (d - 1)
  BY <1>3, Zenon DEF Uses
<1> HIDE DEF a, b, c, d
<1> QED
  BY <1>2, <1>4

LEMMA DisjointUnion ==
  ASSUME NEW A, NEW B, IsFiniteSet(A), IsFiniteSet(B), A \cap B = {}
  PROVE  IsFiniteSet(A \cup B) /\ Cardinality(A \cup B) = Cardinality(A) + Cardinality(B)
<1>1. /\ IsFiniteSet(A \cup B)
      /\ Cardinality(A \cup B) = Cardinality(A) + Cardinality(B) - Cardinality(A \cap B)
  BY FS_Union
<1>2. Cardinality(A) \in Nat /\ Cardinality(B) \in Nat /\ Cardinality(A \cap B) = 0
  BY FS_CardinalityType, FS_EmptySet
<1> QED
  BY <1>1, <1>2

(* As many as the owners, who are the users with the kind written to them. *)
LEMMA NamedProperties ==
  ASSUME NEW S \in SUBSET Senders, NEW P \in SUBSET Senders, NEW Q \in SUBSET Vc, NEW R \in SUBSET Receivers
  PROVE  Cardinality(Named(S, P, Q, R)) = Uses(S, P, Q, R)
<1>1. IsFiniteSet(S) /\ IsFiniteSet(P) /\ IsFiniteSet(Q) /\ IsFiniteSet(R)
  BY UsesProperties
<1>2. ASSUME NEW k, NEW T, IsFiniteSet(T)
      PROVE  /\ IsFiniteSet({<<k, e>> : e \in T})
             /\ Cardinality({<<k, e>> : e \in T}) = Cardinality(T)
  <2> DEFINE f == [e \in T |-> <<k, e>>]
             N == {<<k, e>> : e \in T}
  <2>1. f \in [T -> N] /\ \A a, b \in T : f[a] = f[b] => a = b
    OBVIOUS
  <2>2. \A n \in N : \E a \in T : f[a] = n
    OBVIOUS
  <2> HIDE DEF f, N
  <2>3. f \in Bijection(T, N)
    BY <2>1, <2>2 DEF Bijection, Injection, IsInjective, Surjection
  <2> QED
    BY <1>2, <2>3, FS_Bijection DEF ExistsBijection, N
<1> DEFINE A == {<<"sender", s>> : s \in S}
           B == {<<"push", s>>   : s \in P}
           C == {<<"queue", v>>  : v \in Q}
           D == {<<"reader", r>> : r \in R}
<1>3. /\ A \cap B = {} /\ (A \cup B) \cap C = {} /\ (A \cup B \cup C) \cap D = {}
  OBVIOUS
<1>4. /\ IsFiniteSet(A) /\ Cardinality(A) = Cardinality(S) /\ IsFiniteSet(B) /\ Cardinality(B) = Cardinality(P)
      /\ IsFiniteSet(C) /\ Cardinality(C) = Cardinality(Q) /\ IsFiniteSet(D) /\ Cardinality(D) = Cardinality(R)
  BY <1>1, <1>2
<1>5. Named(S, P, Q, R) = A \cup B \cup C \cup D
  BY DEF Named
<1> HIDE DEF A, B, C, D
<1>6. IsFiniteSet(A \cup B) /\ Cardinality(A \cup B) = Cardinality(A) + Cardinality(B)
  BY <1>3, <1>4, DisjointUnion
<1>7. /\ IsFiniteSet(A \cup B \cup C)
      /\ Cardinality(A \cup B \cup C) = Cardinality(A \cup B) + Cardinality(C)
  BY <1>3, <1>4, <1>6, DisjointUnion
<1>8. Cardinality(A \cup B \cup C \cup D) = Cardinality(A \cup B \cup C) + Cardinality(D)
  BY <1>3, <1>4, <1>7, DisjointUnion
<1> QED
  BY <1>4, <1>5, <1>6, <1>7, <1>8 DEF Uses

-------------------------------------------------------------------------------
(* Queues of buffers. *)

Distinct(q) == \A i, j \in 1 .. Len(q) : q[i] = q[j] => i = j

(* What is left is the queue without the element taken. *)
Splits(q, e, rest) ==
  /\ e \in Buffer /\ rest \in Seq(Buffer) /\ Len(rest) = Len(q) - 1
  /\ Distinct(q) => Distinct(rest)
  /\ Elements(q) = Elements(rest) \cup {e}
  /\ Distinct(q) => e \notin Elements(rest)

LEMMA AppendAdds ==
  ASSUME NEW q \in Seq(Buffer), NEW e \in Buffer
  PROVE  /\ Elements(q) \subseteq Buffer
         /\ Append(q, e) \in Seq(Buffer) /\ Len(Append(q, e)) = Len(q) + 1
         /\ Elements(Append(q, e)) = Elements(q) \cup {e}
         /\ Distinct(q) /\ e \notin Elements(q) => Distinct(Append(q, e))
<1>1. Len(q) \in Nat /\ \A i \in 1 .. Len(q) : q[i] \in Buffer
  OBVIOUS
<1>2. /\ Append(q, e) \in Seq(Buffer) /\ Len(Append(q, e)) = Len(q) + 1
      /\ Append(q, e)[Len(q) + 1] = e
      /\ \A i \in 1 .. Len(q) : Append(q, e)[i] = q[i]
  OBVIOUS
<1>3. \A i \in 1 .. Len(q) + 1 : i \in 1 .. Len(q) \/ i = Len(q) + 1
  BY <1>1
<1>4. \A i \in 1 .. Len(q) : i \in 1 .. Len(q) + 1
  BY <1>1
<1>5. Elements(Append(q, e)) = Elements(q) \cup {e}
  BY <1>1, <1>2, <1>3, <1>4 DEF Elements
<1>6. Distinct(q) /\ e \notin Elements(q) => Distinct(Append(q, e))
  BY <1>1, <1>2, <1>3 DEF Distinct, Elements
<1>7. Elements(q) \subseteq Buffer
  BY <1>1 DEF Elements
<1> QED
  BY <1>2, <1>5, <1>6, <1>7

LEMMA TailSplits ==
  ASSUME NEW q \in Seq(Buffer), q /= <<>>
  PROVE  Splits(q, Head(q), Tail(q))
<1>1. /\ Len(q) \in Nat /\ Len(q) >= 1 /\ \A i \in 1 .. Len(q) : q[i] \in Buffer
      /\ Head(q) = q[1] /\ Tail(q) \in Seq(Buffer) /\ Len(Tail(q)) = Len(q) - 1
      /\ \A i \in 1 .. Len(q) - 1 : Tail(q)[i] = q[i + 1]
  OBVIOUS
<1>2. /\ \A i \in 1 .. Len(q) - 1 : i + 1 \in 1 .. Len(q) /\ i + 1 /= 1
      /\ \A i \in 1 .. Len(q) : i = 1 \/ (i - 1 \in 1 .. Len(q) - 1 /\ (i - 1) + 1 = i)
      /\ \A i, j \in 1 .. Len(q) - 1 : i + 1 = j + 1 => i = j
      /\ 1 \in 1 .. Len(q)
  BY <1>1
<1>3. Elements(q) = Elements(Tail(q)) \cup {Head(q)}
  <2>1. ASSUME NEW e \in Elements(q) PROVE e \in Elements(Tail(q)) \cup {Head(q)}
    <3>1. PICK i \in 1 .. Len(q) : e = q[i]
      BY <2>1 DEF Elements
    <3>2. i /= 1 => i - 1 \in 1 .. Len(Tail(q)) /\ Tail(q)[i - 1] = e
      BY <1>1, <1>2, <3>1
    <3> QED
      BY <1>1, <3>1, <3>2 DEF Elements
  <2>2. ASSUME NEW e \in Elements(Tail(q)) \cup {Head(q)} PROVE e \in Elements(q)
    BY <1>1, <1>2, <2>2 DEF Elements
  <2> QED
    BY <2>1, <2>2
<1>4. Distinct(q) => Distinct(Tail(q)) /\ Head(q) \notin Elements(Tail(q))
  BY <1>1, <1>2 DEF Distinct, Elements
<1> QED
  BY <1>1, <1>2, <1>3, <1>4 DEF Splits

LEMMA FrontSplits ==
  ASSUME NEW q \in Seq(Buffer), q /= <<>>
  PROVE  Splits(q, q[Len(q)], SubSeq(q, 1, Len(q) - 1))
<1> DEFINE f == SubSeq(q, 1, Len(q) - 1)
<1> DEFINE n == Len(q) - 1
<1>0. /\ Len(q) \in Nat /\ Len(q) >= 1 /\ \A i \in 1 .. Len(q) : q[i] \in Buffer
      /\ n \in Int /\ n >= 0 /\ \A i \in 1 .. n : q[i] \in Buffer
  OBVIOUS
<1> HIDE DEF n
<1>1. /\ Len(q) \in Nat /\ Len(q) >= 1 /\ \A i \in 1 .. Len(q) : q[i] \in Buffer
      /\ f \in Seq(Buffer) /\ Len(f) = Len(q) - 1
      /\ \A i \in 1 .. Len(q) - 1 : f[i] = q[i]
  <2>1. /\ SubSeq(q, 1, n) \in Seq(Buffer)
        /\ Len(SubSeq(q, 1, n)) = n
        /\ \A i \in 1 .. n : SubSeq(q, 1, n)[i] = q[i]
    BY <1>0, SubSeqProperties
  <2> QED
    BY <1>0, <2>1 DEF n
<1> HIDE DEF f
<1>2. /\ \A i \in 1 .. Len(q) - 1 : i \in 1 .. Len(q) /\ i /= Len(q)
      /\ \A i \in 1 .. Len(q) : i = Len(q) \/ i \in 1 .. Len(q) - 1
      /\ Len(q) \in 1 .. Len(q)
  BY <1>1
<1>3. Elements(q) = Elements(f) \cup {q[Len(q)]}
  BY <1>1, <1>2 DEF Elements
<1>4. Distinct(q) => Distinct(f) /\ q[Len(q)] \notin Elements(f)
  BY <1>1, <1>2 DEF Distinct, Elements
<1> QED
  BY <1>1, <1>2, <1>3, <1>4 DEF Splits, f

LEMMA TakenSplits ==
  ASSUME NEW v \in Vc, NEW q \in Seq(Buffer), q /= <<>>
  PROVE  Splits(q, Taken(v, q), Left(v, q))
  BY TailSplits, FrontSplits DEF Taken, Left

-------------------------------------------------------------------------------
(* The inductive invariant. *)

\* Where a sender holds a buffer, and where it holds the action semaphore.
HoldingPc == SenderPc \cup {"setCount"}
ActionPc  == {"waitCells", "push", "enqueue", "store", "leave"}

PcOk ==
  /\ \A s \in Senders : pc[s] \in SenderStates \ {"undo"}
  /\ \A r \in Receivers : pc[r] \in ReceiverStates

AccountOk ==
  /\ Distinct(FreeBuffersQueue)
  /\ \A b \in Buffer :
       /\ UsageCount[b] = Users(b)
       /\ b \in Elements(FreeBuffersQueue) <=> Users(b) = 0 /\ ~BeingClaimed(b)
       /\ BeingClaimed(b) => Users(b) = 0

QueuesOk == \A v \in Vc : Distinct(queue[v])

ActionOk ==
  \A s \in Senders : pc[s] \in ActionPc =>
    ActionSemaphore = 0 /\ \A t \in Senders : pc[t] \in ActionPc => t = s

\* Nobody else has the buffer before it is pushed, and the vcs still to come neither
\* have it nor are full.
SendingOk ==
  \A s \in Senders :
    /\ pc[s] \in {"enqueue", "store"} => slot[s] \in Vc
    /\ pc[s] \in {"locked", "filled", "waitCells"} => \A v \in Vc : buf[s] \notin Elements(queue[v])
    /\ pc[s] = "waitCells" => \A v \in Vc : v < slot[s] => Len(queue[v]) < QueueSize[v]
    /\ pc[s] \in {"push", "enqueue", "store"} =>
         \A v \in Vc : v >= slot[s] => Len(queue[v]) < QueueSize[v] /\ buf[s] \notin Elements(queue[v])

\* No queue has more than it can hold.
LengthsOk == \A v \in Vc : Len(queue[v]) <= QueueSize[v]

HoldersDiffer ==
  \A s, t \in Senders : pc[s] \in HoldingPc /\ pc[t] \in HoldingPc /\ buf[s] = buf[t] => s = t

IInv ==
  /\ TypeOK /\ PcOk /\ AccountOk /\ SemaphoreCountsMessages /\ QueuesOk /\ LengthsOk
  /\ ActionOk /\ SendingOk /\ HoldersDiffer

(* Who can be a user. *)
LEMMA UserTypes ==
  ASSUME NEW b
  PROVE  /\ SenderOwners(b) \in SUBSET Senders /\ PushOwners(b) \in SUBSET Senders
         /\ QueueOwners(b) \in SUBSET Vc /\ ReadOwners(b) \in SUBSET Receivers
         /\ SenderOwners(b)' \in SUBSET Senders /\ PushOwners(b)' \in SUBSET Senders
         /\ QueueOwners(b)' \in SUBSET Vc /\ ReadOwners(b)' \in SUBSET Receivers
         /\ Users(b) \in Nat /\ Users(b)' \in Nat
<1>1. /\ SenderOwners(b) \in SUBSET Senders /\ PushOwners(b) \in SUBSET Senders
      /\ QueueOwners(b) \in SUBSET Vc /\ ReadOwners(b) \in SUBSET Receivers
  BY DEF SenderOwners, PushOwners, QueueOwners, ReadOwners
<1>2. /\ SenderOwners(b)' \in SUBSET Senders /\ PushOwners(b)' \in SUBSET Senders
      /\ QueueOwners(b)' \in SUBSET Vc /\ ReadOwners(b)' \in SUBSET Receivers
  BY DEF SenderOwners, PushOwners, QueueOwners, ReadOwners
<1>3. Users(b) \in Nat
  BY <1>1, UsesProperties DEF Users
<1>4. Users(b)' \in Nat
  BY <1>2, UsesProperties DEF Users
<1> QED
  BY <1>1, <1>2, <1>3, <1>4

(* One user more or less, or one that passes its use on to another. *)
LEMMA UserCounts ==
  ASSUME NEW b
  PROVE  /\ Users(b) = 0 <=> /\ SenderOwners(b) = {} /\ PushOwners(b) = {}
                              /\ QueueOwners(b) = {} /\ ReadOwners(b) = {}
         /\ \A s \in Senders :
              /\ s \notin SenderOwners(b) /\ SenderOwners(b)' = SenderOwners(b) \cup {s}
              /\ PushOwners(b)' = PushOwners(b) /\ QueueOwners(b)' = QueueOwners(b) /\ ReadOwners(b)' = ReadOwners(b)
              => Users(b)' = Users(b) + 1
         /\ \A s \in SenderOwners(b) :
              /\ SenderOwners(b)' = SenderOwners(b) \ {s}
              /\ PushOwners(b)' = PushOwners(b) /\ QueueOwners(b)' = QueueOwners(b) /\ ReadOwners(b)' = ReadOwners(b)
              => Users(b)' = Users(b) - 1
         /\ \A s \in Senders :
              /\ s \notin PushOwners(b) /\ PushOwners(b)' = PushOwners(b) \cup {s}
              /\ SenderOwners(b)' = SenderOwners(b) /\ QueueOwners(b)' = QueueOwners(b) /\ ReadOwners(b)' = ReadOwners(b)
              => Users(b)' = Users(b) + 1
         /\ \A s \in PushOwners(b) : \A v \in Vc :
              /\ v \notin QueueOwners(b)
              /\ PushOwners(b)' = PushOwners(b) \ {s} /\ QueueOwners(b)' = QueueOwners(b) \cup {v}
              /\ SenderOwners(b)' = SenderOwners(b) /\ ReadOwners(b)' = ReadOwners(b)
              => Users(b)' = Users(b)
         /\ \A v \in QueueOwners(b) : \A r \in Receivers :
              /\ r \notin ReadOwners(b)
              /\ QueueOwners(b)' = QueueOwners(b) \ {v} /\ ReadOwners(b)' = ReadOwners(b) \cup {r}
              /\ SenderOwners(b)' = SenderOwners(b) /\ PushOwners(b)' = PushOwners(b)
              => Users(b)' = Users(b)
         /\ \A r \in ReadOwners(b) :
              /\ ReadOwners(b)' = ReadOwners(b) \ {r}
              /\ SenderOwners(b)' = SenderOwners(b) /\ PushOwners(b)' = PushOwners(b) /\ QueueOwners(b)' = QueueOwners(b)
              => Users(b)' = Users(b) - 1
<1>1. PICK S \in SUBSET Senders, P \in SUBSET Senders, Q \in SUBSET Vc, R \in SUBSET Receivers :
        /\ S = SenderOwners(b) /\ P = PushOwners(b) /\ Q = QueueOwners(b) /\ R = ReadOwners(b)
  BY UserTypes
<1>2. PICK T \in SUBSET Senders, O \in SUBSET Senders, V \in SUBSET Vc, D \in SUBSET Receivers :
        /\ T = SenderOwners(b)' /\ O = PushOwners(b)' /\ V = QueueOwners(b)' /\ D = ReadOwners(b)'
  BY UserTypes
<1>3. Users(b) = Uses(S, P, Q, R) /\ Users(b)' = Uses(T, O, V, D)
  BY <1>1, <1>2 DEF Users
<1>4. Uses(S, P, Q, R) = 0 <=> S = {} /\ P = {} /\ Q = {} /\ R = {}
  BY UsesZero
<1>5. \A s \in Senders : s \notin S => Uses(S \cup {s}, P, Q, R) = Uses(S, P, Q, R) + 1
  BY SenderAdded
<1>6. \A s \in S : Uses(S \ {s}, P, Q, R) = Uses(S, P, Q, R) - 1
  BY SenderRemoved
<1>7. \A s \in Senders : s \notin P => Uses(S, P \cup {s}, Q, R) = Uses(S, P, Q, R) + 1
  BY PusherAdded
<1>8. \A s \in P : \A v \in Vc : v \notin Q => Uses(S, P \ {s}, Q \cup {v}, R) = Uses(S, P, Q, R)
  BY PusherPassesOn
<1>9. \A v \in Q : \A r \in Receivers : r \notin R => Uses(S, P, Q \ {v}, R \cup {r}) = Uses(S, P, Q, R)
  BY QueuePassesOn
<1>10. \A r \in R : Uses(S, P, Q, R \ {r}) = Uses(S, P, Q, R) - 1
  BY ReaderRemoved
<1> QED
  BY <1>1, <1>2, <1>3, <1>4, <1>5, <1>6, <1>7, <1>8, <1>9, <1>10

(* All buffers are free at the start. *)
LEMMA InitEstablishesIInv == Init => IInv
<1> SUFFICES ASSUME Init PROVE IInv
  OBVIOUS
<1> USE SizesAssumption, ThreadsAssumption
<1>1. FreeBuffersQueue \in Seq(Buffer) /\ Distinct(FreeBuffersQueue) /\ Elements(FreeBuffersQueue) = Buffer
  <2>1. /\ FreeBuffersQueue = [i \in 1 .. NumberOfBuffers |-> i - 1] /\ Len(FreeBuffersQueue) = NumberOfBuffers
        /\ \A i \in 1 .. NumberOfBuffers : i - 1 \in Buffer
        /\ \A b \in Buffer : b + 1 \in 1 .. NumberOfBuffers /\ (b + 1) - 1 = b
    BY DEF Init, Buffer
  <2>2. FreeBuffersQueue \in Seq(Buffer)
    BY <2>1
  <2>3. \A i \in 1 .. NumberOfBuffers : FreeBuffersQueue[i] = i - 1
    BY <2>1
  <2>4. Elements(FreeBuffersQueue) = Buffer
    BY <2>1, <2>3 DEF Elements
  <2> QED
    BY <2>1, <2>2, <2>3, <2>4 DEF Distinct
<1>2. TypeOK /\ PcOk
  <2>1. 0 \in Buffer /\ 0 \in 0 .. NumberOfVcs
    BY DEF Buffer
  <2>2. TypeOK
    BY <1>1, <2>1 DEF Init, TypeOK, SenderStates, Thread
  <2>3. PcOk
    BY DEF Init, PcOk, SenderStates, ReceiverStates, SenderPc, Thread
  <2> QED
    BY <2>2, <2>3
<1>3. \A t \in Thread : pc[t] = "idle"
  BY DEF Init
<1>4. \A v \in Vc : queue[v] = <<>> /\ Elements(queue[v]) = {} /\ ReadSemaphore[v] = 0 /\ Len(queue[v]) = 0
  BY DEF Init, Elements
<1>5. \A b \in Buffer : Users(b) = 0 /\ ~BeingClaimed(b)
  <2> TAKE b \in Buffer
  <2>1. SenderOwners(b) = {} /\ PushOwners(b) = {} /\ QueueOwners(b) = {} /\ ReadOwners(b) = {}
    BY <1>3, <1>4 DEF SenderOwners, PushOwners, QueueOwners, ReadOwners, SenderPc, PushingPc, Thread
  <2>2. Users(b) = 0
    BY <2>1, FS_EmptySet DEF Users, Uses
  <2> QED
    BY <1>3, <2>2 DEF BeingClaimed, Thread
<1>6. AccountOk
  BY <1>1, <1>5 DEF AccountOk, Init
<1>7. SemaphoreCountsMessages
  <2> SUFFICES ASSUME NEW v \in Vc PROVE ReadSemaphore[v] + Cardinality(Waiting(v)) = Len(queue[v])
    BY DEF SemaphoreCountsMessages
  <2>1. Cardinality(Waiting(v)) = 0
    BY <1>3, FS_EmptySet DEF Waiting, Thread
  <2> QED
    BY <1>4, <2>1
<1>8. QueuesOk /\ LengthsOk
  BY <1>4 DEF QueuesOk, LengthsOk, Distinct
<1>9. ActionOk /\ SendingOk /\ HoldersDiffer
  BY <1>3 DEF ActionOk, SendingOk, HoldersDiffer, ActionPc, HoldingPc, SenderPc, Thread
<1> QED
  BY <1>2, <1>6, <1>7, <1>8, <1>9 DEF IInv

-------------------------------------------------------------------------------
(* What a step does to the accounts, said by what it does to the users. *)

\* Nobody becomes or ceases to be a user of b.
SameUsers(b) ==
  /\ SenderOwners(b)' = SenderOwners(b) /\ PushOwners(b)' = PushOwners(b)
  /\ QueueOwners(b)' = QueueOwners(b) /\ ReadOwners(b)' = ReadOwners(b)
  /\ BeingClaimed(b)' <=> BeingClaimed(b)

LEMMA SameUsersCount ==
  ASSUME NEW b, SameUsers(b)
  PROVE  Users(b)' = Users(b) /\ (BeingClaimed(b)' <=> BeingClaimed(b))
  BY DEF SameUsers, Users

LEMMA KeepingAccounts ==
  ASSUME AccountOk, UNCHANGED poolVars,
         \A b \in Buffer : Users(b)' = Users(b) /\ (BeingClaimed(b)' <=> BeingClaimed(b))
  PROVE  AccountOk'
<1>1. UsageCount' = UsageCount /\ FreeBuffersQueue' = FreeBuffersQueue
  BY DEF poolVars
<1>2. Elements(FreeBuffersQueue)' = Elements(FreeBuffersQueue)
  BY <1>1 DEF Elements
<1>3. Distinct(FreeBuffersQueue)' = Distinct(FreeBuffersQueue)
  BY <1>1 DEF Distinct
<1> QED
  BY <1>1, <1>2, <1>3 DEF AccountOk

(* The last user's release puts the buffer on the free list. *)
LEMMA ReleasingAccounts ==
  ASSUME TypeOK, AccountOk, NEW b \in Buffer, releaseBuffer(b),
         Users(b) > 0, Users(b)' = Users(b) - 1,
         \A c \in Buffer \ {b} : Users(c)' = Users(c),
         \A c \in Buffer : BeingClaimed(c)' <=> BeingClaimed(c)
  PROVE  AccountOk' /\ UsageCount' \in [Buffer -> Nat] /\ FreeBuffersQueue' \in Seq(Buffer)
<1>1. /\ UsageCount[b] = Users(b) /\ Users(b) \in Nat /\ ~BeingClaimed(b)
      /\ b \notin Elements(FreeBuffersQueue) /\ FreeBuffersQueue \in Seq(Buffer)
      /\ UsageCount \in [Buffer -> Nat] /\ Distinct(FreeBuffersQueue)
  BY UserTypes DEF AccountOk, TypeOK
<1>2. /\ UsageCount' = [UsageCount EXCEPT ![b] = @ - 1]
      /\ FreeBuffersQueue' = IF Users(b) = 1 THEN Append(FreeBuffersQueue, b) ELSE FreeBuffersQueue
  BY <1>1 DEF releaseBuffer
<1>3. UsageCount' \in [Buffer -> Nat]
  BY <1>1, <1>2
<1>4. CASE Users(b) = 1
  <2>1. /\ FreeBuffersQueue' \in Seq(Buffer) /\ Distinct(FreeBuffersQueue')
        /\ Elements(FreeBuffersQueue') = Elements(FreeBuffersQueue) \cup {b}
    BY <1>1, <1>2, <1>4, AppendAdds
  <2>2. AccountOk'
    BY <1>1, <1>2, <1>4, <2>1 DEF AccountOk
  <2> QED
    BY <1>3, <2>1, <2>2
<1>5. CASE Users(b) /= 1
  <2>1. FreeBuffersQueue' = FreeBuffersQueue
    BY <1>2, <1>5
  <2>2. Users(b)' /= 0
    BY <1>1, <1>5
  <2>3. AccountOk'
    BY <1>1, <1>2, <2>1, <2>2 DEF AccountOk
  <2> QED
    BY <1>1, <1>3, <2>1, <2>3
<1> QED
  BY <1>4, <1>5

-------------------------------------------------------------------------------
(* One lemma for each kind of step. *)

\* The steps of a sender that leave the buffers and the queues alone.
QuietStep(s) ==
  \/ ClaimTest(s) \/ Refused(s) \/ Fill(s) \/ SendEnter(s) \/ EnterTimeout(s)
  \/ WaitForFreeCells(s) \/ CellTimeout(s) \/ StartPushing(s) \/ SendLeave(s)

LEMMA QuietStepPreservesIInv ==
  ASSUME NothingIsLost, IInv, NEW s \in Senders, QuietStep(s)
  PROVE  IInv'
<1> USE DEF IInv
<1>1. /\ UNCHANGED <<UsageCount, FreeBuffersQueue, queue, ReadSemaphore, delivered, buf>>
      /\ pc \in [Thread -> SenderStates \cup ReceiverStates] /\ s \in Thread
      /\ \A t \in Senders \cup Receivers : t \in Thread
  BY DEF QuietStep, ClaimTest, Refused, Fill, SendEnter, EnterTimeout, WaitForFreeCells, CellTimeout,
         StartPushing, SendLeave, poolVars, queueVars, TypeOK, Thread
<1>2. PICK to \in SenderStates \ {"undo"} :
        /\ pc' = [pc EXCEPT ![s] = to]
        /\ to \in SenderPc <=> pc[s] \in SenderPc
        /\ to \notin PushingPc \cup {"setCount"} /\ pc[s] \notin PushingPc \cup {"setCount"}
        /\ to \in {"locked", "filled", "waitCells"} => pc[s] \in {"locked", "filled", "waitCells"}
  <2>1. s \in Impatient => AfterFailure(s) = "filled"
    BY DEF NothingIsLost, AfterFailure
  <2>2. pc[s] = "waitCells" => pc = [pc EXCEPT ![s] = "waitCells"]
    BY <1>1
  <2>3. CASE ClaimTest(s) \/ Refused(s) \/ Fill(s) \/ SendEnter(s) \/ StartPushing(s) \/ SendLeave(s)
    BY <2>3 DEF ClaimTest, Refused, Fill, SendEnter, StartPushing, SendLeave, Goto, SenderStates, SenderPc, PushingPc
  <2>4. CASE EnterTimeout(s) \/ CellTimeout(s)
    BY <2>1, <2>4 DEF EnterTimeout, CellTimeout, Goto, SenderStates, SenderPc, PushingPc
  <2>5. CASE WaitForFreeCells(s)
    BY <2>2, <2>5 DEF WaitForFreeCells, SenderStates, SenderPc, PushingPc
  <2> QED
    BY <2>3, <2>4, <2>5 DEF QuietStep
<1>3. \A t \in Thread \ {s} : pc'[t] = pc[t]
  BY <1>1, <1>2
<1>4. pc'[s] = to
  BY <1>1, <1>2
<1>5. \A b \in Buffer : SameUsers(b)
  <2> TAKE b \in Buffer
  <2>1. SenderOwners(b)' = SenderOwners(b) /\ PushOwners(b)' = PushOwners(b)
    BY <1>1, <1>2, <1>3, <1>4 DEF SenderOwners, PushOwners
  <2>2. QueueOwners(b)' = QueueOwners(b)
    BY <1>1 DEF QueueOwners, Elements
  <2>3. ReadOwners(b)' = ReadOwners(b)
    BY <1>1, <1>3, ThreadsAssumption DEF ReadOwners
  <2>4. BeingClaimed(b)' <=> BeingClaimed(b)
    BY <1>1, <1>2, <1>3, <1>4 DEF BeingClaimed
  <2> QED
    BY <2>1, <2>2, <2>3, <2>4 DEF SameUsers
<1>6. AccountOk'
  BY <1>1, <1>5, SameUsersCount, KeepingAccounts DEF poolVars
<1>7. TypeOK'
  <2>1. content' \in [Buffer -> Nat] /\ written' \in Nat
    BY DEF QuietStep, ClaimTest, Refused, Fill, SendEnter, EnterTimeout, WaitForFreeCells, CellTimeout,
           StartPushing, SendLeave, msgVars, TypeOK
  <2>2. ActionSemaphore' \in {0, 1} /\ slot' \in [Senders -> 0 .. NumberOfVcs]
    BY SizesAssumption DEF QuietStep, ClaimTest, Refused, Fill, SendEnter, EnterTimeout, WaitForFreeCells, CellTimeout,
           StartPushing, SendLeave, TypeOK
  <2> QED
    BY <1>1, <1>2, <2>1, <2>2 DEF TypeOK
<1>8. PcOk'
  BY <1>1, <1>2, <1>3, <1>4, ThreadsAssumption DEF PcOk
<1>9. SemaphoreCountsMessages' /\ QueuesOk' /\ LengthsOk'
  <2>1. \A v \in Vc : Waiting(v)' = Waiting(v)
    BY <1>1, <1>3, ThreadsAssumption DEF Waiting
  <2> QED
    BY <1>1, <2>1 DEF SemaphoreCountsMessages, QueuesOk, LengthsOk, Distinct
<1>10. ActionOk'
  <2>1. CASE ClaimTest(s) \/ Refused(s) \/ Fill(s) \/ EnterTimeout(s) \/ WaitForFreeCells(s) \/ StartPushing(s)
    <3>1. UNCHANGED ActionSemaphore /\ (pc'[s] \in ActionPc => pc[s] \in ActionPc)
      BY <1>1, <2>1 DEF ClaimTest, Refused, Fill, EnterTimeout, WaitForFreeCells, StartPushing, Goto, ActionPc, AfterFailure
    <3> QED
      BY <1>1, <1>3, <3>1 DEF ActionOk
  <2>2. CASE SendEnter(s)
    BY <1>1, <1>3, <2>2 DEF SendEnter, ActionOk, ActionPc
  <2>3. CASE CellTimeout(s) \/ SendLeave(s)
    <3>1. pc[s] \in ActionPc /\ pc'[s] \notin ActionPc
      BY <1>1, <2>3 DEF CellTimeout, SendLeave, Goto, ActionPc, AfterFailure
    <3> QED
      BY <1>1, <1>3, <3>1 DEF ActionOk
  <2> QED
    BY <2>1, <2>2, <2>3 DEF QuietStep
<1>11. SendingOk'
  <2>1. \A t \in Senders \ {s} : slot'[t] = slot[t]
    BY DEF QuietStep, ClaimTest, Refused, Fill, SendEnter, EnterTimeout, WaitForFreeCells, CellTimeout,
           StartPushing, SendLeave, TypeOK
  <2>2. \A v \in Vc : Elements(queue'[v]) = Elements(queue[v]) /\ Len(queue'[v]) = Len(queue[v])
    BY <1>1
  <2>3. pc'[s] = "waitCells" => \A v \in Vc : v < slot'[s] => Len(queue[v]) < QueueSize[v]
    <3> SUFFICES ASSUME pc'[s] = "waitCells", NEW v \in Vc, v < slot'[s]
                 PROVE  Len(queue[v]) < QueueSize[v]
      OBVIOUS
    <3>1. v \in Nat /\ slot[s] \in Nat
      BY DEF Vc, TypeOK
    <3>2. CASE SendEnter(s)
      BY <3>1, <3>2 DEF SendEnter, TypeOK
    <3>3. CASE WaitForFreeCells(s)
      <4>1. pc[s] = "waitCells" /\ slot'[s] = slot[s] + 1 /\ (slot[s] \in Vc => ~IsFull(slot[s]))
        BY <3>3 DEF WaitForFreeCells, NothingIsLost, TypeOK
      <4>2. CASE v < slot[s]
        BY <4>1, <4>2 DEF SendingOk
      <4>3. CASE v = slot[s]
        <5>1. Len(queue[v]) <= QueueSize[v] /\ Len(queue[v]) /= QueueSize[v]
          BY <4>1, <4>3 DEF LengthsOk, IsFull
        <5>2. Len(queue[v]) \in Nat /\ QueueSize[v] \in Nat
          BY SizesAssumption DEF TypeOK
        <5> QED
          BY <5>1, <5>2
      <4> QED
        BY <3>1, <4>1, <4>2, <4>3
    <3>4. ~SendEnter(s) /\ ~WaitForFreeCells(s) => FALSE
      BY <1>1 DEF QuietStep, ClaimTest, Refused, Fill, EnterTimeout, CellTimeout, StartPushing, SendLeave, Goto, AfterFailure
    <3> QED
      BY <3>2, <3>3, <3>4
  <2>4. pc'[s] \in {"push", "enqueue", "store"} =>
          \A v \in Vc : Len(queue[v]) < QueueSize[v] /\ buf[s] \notin Elements(queue[v])
    <3> SUFFICES ASSUME pc'[s] \in {"push", "enqueue", "store"}, NEW v \in Vc
                 PROVE  Len(queue[v]) < QueueSize[v] /\ buf[s] \notin Elements(queue[v])
      OBVIOUS
    <3>1. pc[s] = "waitCells" /\ slot[s] = NumberOfVcs
      BY <1>1 DEF QuietStep, ClaimTest, Refused, Fill, SendEnter, EnterTimeout, WaitForFreeCells, CellTimeout,
             StartPushing, SendLeave, Goto, AfterFailure
    <3>2. v < NumberOfVcs
      BY SizesAssumption DEF Vc
    <3> QED
      BY <3>1, <3>2 DEF SendingOk
  <2>5. to \notin {"enqueue", "store"}
    BY <1>2 DEF PushingPc
  <2> QED
    BY <1>1, <1>2, <1>3, <1>4, <2>1, <2>2, <2>3, <2>4, <2>5 DEF SendingOk
<1>12. HoldersDiffer'
  BY <1>1, <1>2, <1>3, <1>4 DEF HoldersDiffer, HoldingPc
<1> QED
  BY <1>6, <1>7, <1>8, <1>9, <1>10, <1>11, <1>12

(* The buffer taken from the free list has no user and no other sender claims it. *)
LEMMA ClaimPopPreservesIInv ==
  ASSUME IInv, NEW s \in Senders, ClaimPop(s)
  PROVE  IInv'
<1> USE DEF IInv
<1>1. PICK b \in Buffer :
        /\ FreeBuffersQueue \in Seq(Buffer) /\ Splits(FreeBuffersQueue, b, FreeBuffersQueue')
        /\ buf' = [buf EXCEPT ![s] = b]
  BY TailSplits DEF ClaimPop, TypeOK, Splits
<1>2. /\ pc[s] = "popFree" /\ pc' = [pc EXCEPT ![s] = "setCount"]
      /\ UNCHANGED <<UsageCount, queue, ReadSemaphore, delivered, content, written, ActionSemaphore, slot>>
      /\ pc \in [Thread -> SenderStates \cup ReceiverStates] /\ buf \in [Thread -> Buffer] /\ s \in Thread
      /\ \A t \in Senders \cup Receivers : t \in Thread
  BY DEF ClaimPop, Goto, queueVars, msgVars, TypeOK, Thread
<1>3. \A t \in Thread \ {s} : pc'[t] = pc[t] /\ buf'[t] = buf[t]
  BY <1>1, <1>2
<1>4. pc'[s] = "setCount" /\ buf'[s] = b
  BY <1>1, <1>2
<1>5. /\ b \in Elements(FreeBuffersQueue) /\ b \notin Elements(FreeBuffersQueue')
      /\ Elements(FreeBuffersQueue) = Elements(FreeBuffersQueue') \cup {b} /\ Distinct(FreeBuffersQueue')
      /\ FreeBuffersQueue' \in Seq(Buffer)
  BY <1>1 DEF Splits, AccountOk
<1>6. Users(b) = 0 /\ ~BeingClaimed(b)
  BY <1>5 DEF AccountOk
<1>7. \A c \in Buffer : Users(c)' = Users(c)
  <2> TAKE c \in Buffer
  <2>1. SenderOwners(c)' = SenderOwners(c) /\ PushOwners(c)' = PushOwners(c)
    BY <1>2, <1>3, <1>4 DEF SenderOwners, PushOwners, SenderPc, PushingPc
  <2>2. QueueOwners(c)' = QueueOwners(c) /\ ReadOwners(c)' = ReadOwners(c)
    BY <1>2, <1>3, ThreadsAssumption DEF QueueOwners, ReadOwners, Elements
  <2> QED
    BY <2>1, <2>2 DEF Users
<1>8. \A c \in Buffer : BeingClaimed(c)' <=> BeingClaimed(c) \/ c = b
  BY <1>2, <1>3, <1>4 DEF BeingClaimed
<1>9. AccountOk'
  BY <1>2, <1>5, <1>6, <1>7, <1>8 DEF AccountOk
<1>10. TypeOK'
  BY <1>1, <1>2, <1>5 DEF TypeOK, SenderStates
<1>11. PcOk' /\ QueuesOk' /\ LengthsOk'
  BY <1>2, <1>3, <1>4, ThreadsAssumption DEF PcOk, QueuesOk, LengthsOk, Distinct, SenderStates
<1>12. SemaphoreCountsMessages'
  <2>1. \A v \in Vc : Waiting(v)' = Waiting(v)
    BY <1>2, <1>3, ThreadsAssumption DEF Waiting
  <2> QED
    BY <1>2, <2>1 DEF SemaphoreCountsMessages
<1>13. ActionOk' /\ SendingOk'
  BY <1>2, <1>3, <1>4 DEF ActionOk, SendingOk, ActionPc, Elements
<1>14. HoldersDiffer'
  <2>1. \A t \in Senders : pc[t] \in HoldingPc => buf[t] /= b
    <3> SUFFICES ASSUME NEW t \in Senders, pc[t] \in HoldingPc, buf[t] = b PROVE FALSE
      OBVIOUS
    <3>1. pc[t] \notin SenderPc
      BY <1>6, UserCounts DEF SenderOwners
    <3> QED
      BY <1>6, <3>1 DEF HoldingPc, BeingClaimed
  <2> QED
    BY <1>2, <1>3, <1>4, <2>1 DEF HoldersDiffer, HoldingPc
<1> QED
  BY <1>9, <1>10, <1>11, <1>12, <1>13, <1>14

(* The sender that claims a buffer becomes its only user. *)
LEMMA ClaimSetPreservesIInv ==
  ASSUME IInv, NEW s \in Senders, ClaimSet(s)
  PROVE  IInv'
<1> USE DEF IInv
<1>1. PICK b \in Buffer : buf[s] = b
  BY DEF TypeOK, Thread
<1>2. /\ pc[s] = "setCount" /\ pc' = [pc EXCEPT ![s] = "locked"]
      /\ UsageCount' = [UsageCount EXCEPT ![b] = 1]
      /\ UNCHANGED <<FreeBuffersQueue, queue, ReadSemaphore, delivered, content, written, ActionSemaphore, buf, slot>>
      /\ pc \in [Thread -> SenderStates \cup ReceiverStates] /\ buf \in [Thread -> Buffer] /\ s \in Thread
      /\ \A t \in Senders \cup Receivers : t \in Thread
  BY <1>1 DEF ClaimSet, Goto, queueVars, msgVars, TypeOK, Thread
<1>3. \A t \in Thread \ {s} : pc'[t] = pc[t]
  BY <1>2
<1>4. pc'[s] = "locked"
  BY <1>2
<1>5. BeingClaimed(b) /\ Users(b) = 0 /\ b \notin Elements(FreeBuffersQueue)
  BY <1>1, <1>2 DEF BeingClaimed, AccountOk
<1>6. /\ SenderOwners(b) = {} /\ PushOwners(b) = {} /\ QueueOwners(b) = {} /\ ReadOwners(b) = {}
  BY <1>5, UserCounts
<1>7. \A t \in Senders : pc[t] = "setCount" /\ buf[t] = b => t = s
  BY <1>1, <1>2 DEF HoldersDiffer, HoldingPc
<1>8. Users(b)' = 1 /\ ~BeingClaimed(b)'
  <2>1. SenderOwners(b)' = SenderOwners(b) \cup {s} /\ PushOwners(b)' = PushOwners(b)
    BY <1>1, <1>2, <1>3, <1>4 DEF SenderOwners, PushOwners, SenderPc, PushingPc
  <2>2. QueueOwners(b)' = QueueOwners(b) /\ ReadOwners(b)' = ReadOwners(b)
    BY <1>2, <1>3, ThreadsAssumption DEF QueueOwners, ReadOwners, Elements
  <2>3. Users(b)' = Users(b) + 1
    BY <1>6, <2>1, <2>2, UserCounts
  <2>4. ~BeingClaimed(b)'
    BY <1>2, <1>3, <1>4, <1>7 DEF BeingClaimed
  <2> QED
    BY <1>5, <2>3, <2>4
<1>9. \A c \in Buffer \ {b} : Users(c)' = Users(c) /\ (BeingClaimed(c)' <=> BeingClaimed(c))
  <2> TAKE c \in Buffer \ {b}
  <2>1. SenderOwners(c)' = SenderOwners(c) /\ PushOwners(c)' = PushOwners(c)
    BY <1>1, <1>2, <1>3, <1>4 DEF SenderOwners, PushOwners, SenderPc, PushingPc
  <2>2. QueueOwners(c)' = QueueOwners(c) /\ ReadOwners(c)' = ReadOwners(c)
    BY <1>2, <1>3, ThreadsAssumption DEF QueueOwners, ReadOwners, Elements
  <2>3. BeingClaimed(c)' <=> BeingClaimed(c)
    BY <1>1, <1>2, <1>3, <1>4 DEF BeingClaimed
  <2> QED
    BY <2>1, <2>2, <2>3 DEF Users
<1>10. AccountOk'
  <2>1. UsageCount \in [Buffer -> Nat] /\ UsageCount'[b] = 1 /\ \A c \in Buffer \ {b} : UsageCount'[c] = UsageCount[c]
    BY <1>2 DEF TypeOK
  <2>2. Elements(FreeBuffersQueue)' = Elements(FreeBuffersQueue) /\ (Distinct(FreeBuffersQueue)' <=> Distinct(FreeBuffersQueue))
    BY <1>2 DEF Elements, Distinct
  <2> QED
    BY <1>5, <1>8, <1>9, <2>1, <2>2 DEF AccountOk
<1>11. TypeOK'
  BY <1>2 DEF TypeOK, SenderStates, SenderPc
<1>12. PcOk' /\ QueuesOk' /\ LengthsOk'
  BY <1>2, <1>3, <1>4, ThreadsAssumption DEF PcOk, QueuesOk, LengthsOk, Distinct, SenderStates, SenderPc
<1>13. SemaphoreCountsMessages'
  <2>1. \A v \in Vc : Waiting(v)' = Waiting(v)
    BY <1>2, <1>3, ThreadsAssumption DEF Waiting
  <2> QED
    BY <1>2, <2>1 DEF SemaphoreCountsMessages
<1>14. ActionOk'
  BY <1>2, <1>3, <1>4 DEF ActionOk, ActionPc
<1>15. SendingOk'
  <2>1. \A v \in Vc : buf[s] \notin Elements(queue[v])
    BY <1>1, <1>6 DEF QueueOwners
  <2> QED
    BY <1>2, <1>3, <1>4, <2>1 DEF SendingOk, Elements
<1>16. HoldersDiffer'
  BY <1>2, <1>3, <1>4 DEF HoldersDiffer, HoldingPc
<1> QED
  BY <1>10, <1>11, <1>12, <1>13, <1>14, <1>15, <1>16

(* A sender gives its buffer back: it has not sent it, or has pushed it everywhere. *)
LEMMA SenderReleasePreservesIInv ==
  ASSUME IInv, NEW s \in Senders, GiveUp(s) \/ SendRelease(s)
  PROVE  IInv'
<1> USE DEF IInv
<1>1. PICK b \in Buffer : buf[s] = b
  BY DEF TypeOK, Thread
<1>2. /\ releaseBuffer(b)
      /\ UNCHANGED <<queue, ReadSemaphore, delivered, content, written, ActionSemaphore, buf, slot>>
      /\ pc \in [Thread -> SenderStates \cup ReceiverStates] /\ buf \in [Thread -> Buffer] /\ s \in Thread
      /\ \A t \in Senders \cup Receivers : t \in Thread
  BY <1>1 DEF GiveUp, SendRelease, queueVars, msgVars, TypeOK, Thread
<1>3. PICK to \in {"idle", "leave"} :
        /\ pc' = [pc EXCEPT ![s] = to] /\ pc[s] \in {"filled", "push"}
        /\ to = "leave" => pc[s] \in ActionPc
  BY DEF GiveUp, SendRelease, Goto, ActionPc
<1>4. (\A t \in Thread \ {s} : pc'[t] = pc[t]) /\ pc'[s] = to
  BY <1>2, <1>3
<1>5. /\ SenderOwners(b)' = SenderOwners(b) \ {s} /\ s \in SenderOwners(b)
      /\ PushOwners(b)' = PushOwners(b) /\ QueueOwners(b)' = QueueOwners(b) /\ ReadOwners(b)' = ReadOwners(b)
  <2>1. /\ SenderOwners(b)' = SenderOwners(b) \ {s} /\ s \in SenderOwners(b) /\ PushOwners(b)' = PushOwners(b)
    BY <1>1, <1>2, <1>3, <1>4 DEF SenderOwners, PushOwners, SenderPc, PushingPc
  <2>2. QueueOwners(b)' = QueueOwners(b) /\ ReadOwners(b)' = ReadOwners(b)
    BY <1>2, <1>4, ThreadsAssumption DEF QueueOwners, ReadOwners, Elements
  <2> QED
    BY <2>1, <2>2
<1>6. Users(b)' = Users(b) - 1 /\ Users(b) > 0
  <2>1. Users(b)' = Users(b) - 1
    BY <1>5, UserCounts
  <2>2. Users(b) /= 0
    BY <1>5, UserCounts
  <2> QED
    BY <2>1, <2>2, UserTypes
<1>7. \A c \in Buffer \ {b} : Users(c)' = Users(c)
  <2> TAKE c \in Buffer \ {b}
  <2>1. SenderOwners(c)' = SenderOwners(c) /\ PushOwners(c)' = PushOwners(c)
    BY <1>1, <1>2, <1>3, <1>4 DEF SenderOwners, PushOwners, PushingPc
  <2>2. QueueOwners(c)' = QueueOwners(c) /\ ReadOwners(c)' = ReadOwners(c)
    BY <1>2, <1>4, ThreadsAssumption DEF QueueOwners, ReadOwners, Elements
  <2> QED
    BY <2>1, <2>2 DEF Users
<1>8. \A c \in Buffer : BeingClaimed(c)' <=> BeingClaimed(c)
  BY <1>2, <1>3, <1>4 DEF BeingClaimed
<1>9. AccountOk' /\ UsageCount' \in [Buffer -> Nat] /\ FreeBuffersQueue' \in Seq(Buffer)
  BY <1>2, <1>6, <1>7, <1>8, ReleasingAccounts
<1>10. TypeOK'
  BY <1>2, <1>3, <1>9 DEF TypeOK, SenderStates
<1>11. PcOk' /\ QueuesOk' /\ LengthsOk'
  BY <1>2, <1>3, <1>4, ThreadsAssumption DEF PcOk, QueuesOk, LengthsOk, Distinct, SenderStates
<1>12. SemaphoreCountsMessages'
  <2>1. \A v \in Vc : Waiting(v)' = Waiting(v)
    BY <1>2, <1>4, ThreadsAssumption DEF Waiting
  <2> QED
    BY <1>2, <2>1 DEF SemaphoreCountsMessages
<1>13. ActionOk' /\ HoldersDiffer'
  BY <1>2, <1>3, <1>4 DEF ActionOk, HoldersDiffer, ActionPc, HoldingPc, SenderPc
<1>14. SendingOk'
  BY <1>2, <1>3, <1>4 DEF SendingOk, Elements
<1> QED
  BY <1>9, <1>10, <1>11, <1>12, <1>13, <1>14

(* The reference handed to a queue is counted before the queue has it. *)
LEMMA PushClaimPreservesIInv ==
  ASSUME IInv, NEW s \in Senders, PushClaim(s)
  PROVE  IInv'
<1> USE DEF IInv
<1>1. PICK b \in Buffer : buf[s] = b
  BY DEF TypeOK, Thread
<1>2. /\ pc[s] = "push" /\ pc' = [pc EXCEPT ![s] = "enqueue"]
      /\ UsageCount' = [UsageCount EXCEPT ![b] = @ + 1]
      /\ UNCHANGED <<FreeBuffersQueue, queue, ReadSemaphore, delivered, content, written, ActionSemaphore, buf, slot>>
      /\ pc \in [Thread -> SenderStates \cup ReceiverStates] /\ buf \in [Thread -> Buffer] /\ s \in Thread
      /\ \A t \in Senders \cup Receivers : t \in Thread
  BY <1>1 DEF PushClaim, Goto, queueVars, msgVars, TypeOK, Thread
<1>3. (\A t \in Thread \ {s} : pc'[t] = pc[t]) /\ pc'[s] = "enqueue"
  BY <1>2
<1>4. Users(b)' = Users(b) + 1 /\ Users(b) /= 0
  <2>1. /\ SenderOwners(b)' = SenderOwners(b) /\ s \in SenderOwners(b)
        /\ s \notin PushOwners(b) /\ PushOwners(b)' = PushOwners(b) \cup {s}
    BY <1>1, <1>2, <1>3 DEF SenderOwners, PushOwners, SenderPc, PushingPc
  <2>2. QueueOwners(b)' = QueueOwners(b) /\ ReadOwners(b)' = ReadOwners(b)
    BY <1>2, <1>3, ThreadsAssumption DEF QueueOwners, ReadOwners, Elements
  <2> QED
    BY <2>1, <2>2, UserCounts
<1>5. \A c \in Buffer \ {b} : Users(c)' = Users(c)
  <2> TAKE c \in Buffer \ {b}
  <2>1. SenderOwners(c)' = SenderOwners(c) /\ PushOwners(c)' = PushOwners(c)
    BY <1>1, <1>2, <1>3 DEF SenderOwners, PushOwners, SenderPc, PushingPc
  <2>2. QueueOwners(c)' = QueueOwners(c) /\ ReadOwners(c)' = ReadOwners(c)
    BY <1>2, <1>3, ThreadsAssumption DEF QueueOwners, ReadOwners, Elements
  <2> QED
    BY <2>1, <2>2 DEF Users
<1>6. \A c \in Buffer : BeingClaimed(c)' <=> BeingClaimed(c)
  BY <1>2, <1>3 DEF BeingClaimed
<1>7. AccountOk'
  <2>1. /\ UsageCount \in [Buffer -> Nat] /\ UsageCount'[b] = UsageCount[b] + 1
        /\ \A c \in Buffer \ {b} : UsageCount'[c] = UsageCount[c]
    BY <1>2 DEF TypeOK
  <2>2. Elements(FreeBuffersQueue)' = Elements(FreeBuffersQueue) /\ (Distinct(FreeBuffersQueue)' <=> Distinct(FreeBuffersQueue))
    BY <1>2 DEF Elements, Distinct
  <2>3. Users(b)' /= 0 /\ ~BeingClaimed(b) /\ b \notin Elements(FreeBuffersQueue)
    BY <1>4, UserTypes DEF AccountOk
  <2> QED
    BY <1>4, <1>5, <1>6, <2>1, <2>2, <2>3 DEF AccountOk
<1>8. TypeOK'
  BY <1>2 DEF TypeOK, SenderStates, SenderPc
<1>9. PcOk' /\ QueuesOk' /\ LengthsOk'
  BY <1>2, <1>3, ThreadsAssumption DEF PcOk, QueuesOk, LengthsOk, Distinct, SenderStates, SenderPc
<1>10. SemaphoreCountsMessages'
  <2>1. \A v \in Vc : Waiting(v)' = Waiting(v)
    BY <1>2, <1>3, ThreadsAssumption DEF Waiting
  <2> QED
    BY <1>2, <2>1 DEF SemaphoreCountsMessages
<1>11. ActionOk' /\ HoldersDiffer'
  BY <1>2, <1>3 DEF ActionOk, HoldersDiffer, ActionPc, HoldingPc, SenderPc
<1>12. SendingOk'
  <2>1. slot[s] \in Vc
    BY SizesAssumption DEF PushClaim, TypeOK, Vc
  <2> QED
    BY <1>2, <1>3, <2>1 DEF SendingOk, Elements
<1> QED
  BY <1>7, <1>8, <1>9, <1>10, <1>11, <1>12

(* A queue that refuses has nothing overwritten. *)
LEMMA PushOverwritePreservesIInv ==
  ASSUME NothingIsLost, IInv, NEW s \in Senders, PushOverwrite(s)
  PROVE  IInv'
<1> USE DEF IInv
<1>1. slot[s] \in Refusing
  BY DEF PushOverwrite, Goto, SendingOk, NothingIsLost
<1>2. /\ pc[s] = "enqueue" /\ pc' = [pc EXCEPT ![s] = "store"]
      /\ UNCHANGED <<UsageCount, FreeBuffersQueue, queue, ReadSemaphore, delivered, content, written, ActionSemaphore, buf, slot>>
      /\ pc \in [Thread -> SenderStates \cup ReceiverStates] /\ s \in Thread
      /\ \A t \in Senders \cup Receivers : t \in Thread
  BY <1>1 DEF PushOverwrite, Goto, poolVars, queueVars, msgVars, TypeOK, Thread
<1>3. (\A t \in Thread \ {s} : pc'[t] = pc[t]) /\ pc'[s] = "store"
  BY <1>2
<1>4. \A c \in Buffer : SameUsers(c)
  <2> TAKE c \in Buffer
  <2>1. SenderOwners(c)' = SenderOwners(c) /\ PushOwners(c)' = PushOwners(c)
    BY <1>2, <1>3 DEF SenderOwners, PushOwners, SenderPc, PushingPc
  <2>2. QueueOwners(c)' = QueueOwners(c) /\ ReadOwners(c)' = ReadOwners(c)
    BY <1>2, <1>3, ThreadsAssumption DEF QueueOwners, ReadOwners, Elements
  <2>3. BeingClaimed(c)' <=> BeingClaimed(c)
    BY <1>2, <1>3 DEF BeingClaimed
  <2> QED
    BY <2>1, <2>2, <2>3 DEF SameUsers
<1>5. AccountOk'
  BY <1>2, <1>4, SameUsersCount, KeepingAccounts DEF poolVars
<1>6. TypeOK'
  BY <1>2 DEF TypeOK, SenderStates, SenderPc
<1>7. PcOk' /\ QueuesOk' /\ LengthsOk'
  BY <1>2, <1>3, ThreadsAssumption DEF PcOk, QueuesOk, LengthsOk, Distinct, SenderStates, SenderPc
<1>8. SemaphoreCountsMessages'
  <2>1. \A v \in Vc : Waiting(v)' = Waiting(v)
    BY <1>2, <1>3, ThreadsAssumption DEF Waiting
  <2> QED
    BY <1>2, <2>1 DEF SemaphoreCountsMessages
<1>9. ActionOk' /\ HoldersDiffer' /\ SendingOk'
  BY <1>2, <1>3 DEF ActionOk, HoldersDiffer, SendingOk, ActionPc, HoldingPc, SenderPc, Elements
<1> QED
  BY <1>5, <1>6, <1>7, <1>8, <1>9

(* The queue has room for the buffer and has not got it yet. *)
LEMMA RoomToStore ==
  ASSUME IInv, NEW s \in Senders, pc[s] = "store",
         NEW b \in Buffer, buf[s] = b, NEW v \in Vc, slot[s] = v
  PROVE  /\ Len(queue[v]) < QueueSize[v] /\ b \notin Elements(queue[v]) /\ v \in Nat /\ v < NumberOfVcs
         /\ queue[v] \in Seq(Buffer) /\ Len(queue[v]) \in Nat /\ QueueSize[v] \in Nat
         /\ ~IsFull(v)
<1>1. v \in Nat /\ v < NumberOfVcs /\ v >= v
  BY SizesAssumption DEF Vc
<1>2. Len(queue[v]) < QueueSize[v] /\ b \notin Elements(queue[v])
  BY <1>1 DEF IInv, SendingOk
<1>3. queue[v] \in Seq(Buffer) /\ QueueSize[v] \in Nat
  BY SizesAssumption DEF IInv, TypeOK
<1> QED
  BY <1>1, <1>2, <1>3 DEF IsFull

LEMMA PushStoreAppends ==
  ASSUME IInv, NEW v \in Vc, ~IsFull(v), NEW b \in Buffer, b \notin Elements(queue[v]),
         queue' = [queue EXCEPT ![v] = Append(@, b)]
  PROVE  /\ queue'[v] = Append(queue[v], b) /\ Len(queue'[v]) = Len(queue[v]) + 1
         /\ Elements(queue'[v]) = Elements(queue[v]) \cup {b} /\ Distinct(queue'[v])
         /\ \A u \in Vc \ {v} : queue'[u] = queue[u]
         /\ queue' \in [Vc -> Seq(Buffer)]
<1>1. queue'[v] = Append(queue[v], b) /\ \A u \in Vc \ {v} : queue'[u] = queue[u]
  BY DEF IInv, TypeOK
<1>2. /\ queue'[v] \in Seq(Buffer) /\ Len(queue'[v]) = Len(queue[v]) + 1
      /\ Elements(queue'[v]) = Elements(queue[v]) \cup {b} /\ Distinct(queue'[v])
  BY <1>1, AppendAdds DEF IInv, TypeOK, QueuesOk
<1>3. queue' \in [Vc -> Seq(Buffer)]
  BY <1>1, <1>2 DEF IInv, TypeOK
<1> QED
  BY <1>1, <1>2, <1>3

(* The reference passes to the queue. *)
LEMMA PushStorePreservesIInv ==
  ASSUME IInv, NEW s \in Senders, PushStore(s)
  PROVE  IInv'
<1>1. PICK b \in Buffer : buf[s] = b
  BY DEF IInv, TypeOK, Thread
<1>2. PICK v \in Vc : slot[s] = v
  BY DEF IInv, PushStore, Goto, SendingOk
<1>3. /\ Len(queue[v]) < QueueSize[v] /\ b \notin Elements(queue[v]) /\ v \in Nat /\ v < NumberOfVcs
      /\ queue[v] \in Seq(Buffer) /\ Len(queue[v]) \in Nat /\ QueueSize[v] \in Nat
      /\ ~IsFull(v)
  BY <1>1, <1>2, RoomToStore DEF PushStore, Goto
<1> USE DEF IInv
<1>4. /\ pc[s] = "store" /\ pc' = [pc EXCEPT ![s] = "push"]
      /\ queue' = [queue EXCEPT ![v] = Append(@, b)]
      /\ ReadSemaphore' = [ReadSemaphore EXCEPT ![v] = @ + 1]
      /\ slot' = [slot EXCEPT ![s] = v + 1]
      /\ UNCHANGED <<UsageCount, FreeBuffersQueue, delivered, content, written, ActionSemaphore, buf>>
      /\ pc \in [Thread -> SenderStates \cup ReceiverStates] /\ buf \in [Thread -> Buffer] /\ s \in Thread
      /\ \A t \in Senders \cup Receivers : t \in Thread
  <2>1. /\ queue' = [queue EXCEPT ![v] = Append(@, b)]
        /\ ReadSemaphore' = [ReadSemaphore EXCEPT ![v] = @ + 1]
        /\ slot' = [slot EXCEPT ![s] = v + 1]
    BY <1>1, <1>2, <1>3 DEF PushStore
  <2> QED
    BY <2>1 DEF PushStore, Goto, poolVars, msgVars, TypeOK, Thread
<1>5. (\A t \in Thread \ {s} : pc'[t] = pc[t]) /\ pc'[s] = "push"
  BY <1>4
<1>6. /\ queue'[v] \in Seq(Buffer) /\ Len(queue'[v]) = Len(queue[v]) + 1
      /\ Elements(queue'[v]) = Elements(queue[v]) \cup {b} /\ Distinct(queue'[v])
      /\ \A u \in Vc \ {v} : queue'[u] = queue[u]
      /\ queue' \in [Vc -> Seq(Buffer)]
  BY <1>3, <1>4, PushStoreAppends DEF IInv
<1>7. Users(b)' = Users(b)
  <2>1. /\ SenderOwners(b)' = SenderOwners(b)
        /\ s \in PushOwners(b) /\ PushOwners(b)' = PushOwners(b) \ {s}
    BY <1>1, <1>4, <1>5 DEF SenderOwners, PushOwners, SenderPc, PushingPc
  <2>2. v \notin QueueOwners(b) /\ QueueOwners(b)' = QueueOwners(b) \cup {v}
    <3>1. \A u \in Vc : b \in Elements(queue'[u]) <=> b \in Elements(queue[u]) \/ u = v
      BY <1>6
    <3> QED
      BY <1>3, <3>1 DEF QueueOwners
  <2>3. ReadOwners(b)' = ReadOwners(b)
    BY <1>4, <1>5, ThreadsAssumption DEF ReadOwners
  <2> QED
    BY <2>1, <2>2, <2>3, UserCounts
<1>8. \A c \in Buffer \ {b} : Users(c)' = Users(c)
  <2> TAKE c \in Buffer \ {b}
  <2>1. SenderOwners(c)' = SenderOwners(c) /\ PushOwners(c)' = PushOwners(c)
    BY <1>1, <1>4, <1>5 DEF SenderOwners, PushOwners, SenderPc
  <2>2. QueueOwners(c)' = QueueOwners(c)
    <3>1. \A u \in Vc : c \in Elements(queue'[u]) <=> c \in Elements(queue[u])
      BY <1>6
    <3> QED
      BY <3>1 DEF QueueOwners
  <2>3. ReadOwners(c)' = ReadOwners(c)
    BY <1>4, <1>5, ThreadsAssumption DEF ReadOwners
  <2> QED
    BY <2>1, <2>2, <2>3 DEF Users
<1>9. \A c \in Buffer : BeingClaimed(c)' <=> BeingClaimed(c)
  BY <1>4, <1>5 DEF BeingClaimed
<1>10. AccountOk'
  BY <1>4, <1>7, <1>8, <1>9, KeepingAccounts DEF poolVars
<1>11. TypeOK'
  <2>1. v + 1 \in 0 .. NumberOfVcs
    BY <1>3, SizesAssumption
  <2>2. slot \in [Senders -> 0 .. NumberOfVcs] /\ ReadSemaphore \in [Vc -> Nat]
    BY DEF TypeOK
  <2>3. slot' \in [Senders -> 0 .. NumberOfVcs]
    BY <1>4, <2>1, <2>2
  <2>4. ReadSemaphore' \in [Vc -> Nat]
    BY <1>4, <2>2
  <2> QED
    BY <1>4, <1>6, <2>3, <2>4 DEF TypeOK, SenderStates, SenderPc
<1>12. PcOk' /\ QueuesOk'
  BY <1>4, <1>5, <1>6, ThreadsAssumption DEF PcOk, QueuesOk, SenderStates, SenderPc
<1>13. LengthsOk'
  BY <1>3, <1>6 DEF LengthsOk
<1>14. SemaphoreCountsMessages'
  <2> SUFFICES ASSUME NEW u \in Vc
               PROVE  ReadSemaphore'[u] + Cardinality(Waiting(u)') = Len(queue'[u])
    BY DEF SemaphoreCountsMessages
  <2>1. Waiting(u)' = Waiting(u)
    BY <1>4, <1>5, ThreadsAssumption DEF Waiting
  <2>2. ReadSemaphore[u] + Cardinality(Waiting(u)) = Len(queue[u]) /\ ReadSemaphore[u] \in Nat
    BY DEF SemaphoreCountsMessages, TypeOK
  <2>3. Cardinality(Waiting(u)) \in Nat
    BY ThreadsAssumption, FS_Subset, FS_CardinalityType DEF Waiting
  <2>4. ReadSemaphore'[u] = IF u = v THEN ReadSemaphore[u] + 1 ELSE ReadSemaphore[u]
    BY <1>4 DEF TypeOK
  <2> QED
    BY <1>3, <1>6, <2>1, <2>2, <2>3, <2>4
<1>15. ActionOk' /\ HoldersDiffer'
  BY <1>4, <1>5 DEF ActionOk, HoldersDiffer, ActionPc, HoldingPc, SenderPc
<1>16. SendingOk'
  <2> SUFFICES ASSUME NEW t \in Senders
               PROVE  /\ pc'[t] \in {"enqueue", "store"} => slot'[t] \in Vc
                      /\ pc'[t] \in {"locked", "filled", "waitCells"} => \A u \in Vc : buf'[t] \notin Elements(queue'[u])
                      /\ pc'[t] = "waitCells" => \A u \in Vc : u < slot'[t] => Len(queue'[u]) < QueueSize[u]
                      /\ pc'[t] \in {"push", "enqueue", "store"} =>
                           \A u \in Vc : u >= slot'[t] => Len(queue'[u]) < QueueSize[u] /\ buf'[t] \notin Elements(queue'[u])
    BY DEF SendingOk
  <2>1. CASE t = s
    <3>1. \A u \in Vc : u >= v + 1 => u /= v /\ u >= v
      BY <1>3 DEF Vc
    <3>2. slot'[s] = v + 1
      BY <1>4 DEF TypeOK
    <3> QED
      BY <1>2, <1>4, <1>5, <1>6, <2>1, <3>1, <3>2 DEF SendingOk
  <2>2. CASE t /= s
    <3>1. pc'[t] = pc[t] /\ buf'[t] = buf[t] /\ slot'[t] = slot[t]
      BY <1>4, <1>5, <2>2 DEF TypeOK
    <3>2. pc[t] \notin ActionPc
      BY <1>4, <2>2 DEF ActionOk, ActionPc
    <3>3. pc[t] \in {"locked", "filled"} => buf[t] /= b
      BY <1>1, <1>4, <2>2 DEF HoldersDiffer, HoldingPc, SenderPc
    <3> QED
      BY <1>6, <3>1, <3>2, <3>3 DEF SendingOk, ActionPc
  <2> QED
    BY <2>1, <2>2
<1> QED
  BY <1>10, <1>11, <1>12, <1>13, <1>14, <1>15, <1>16

(* A receiver that passes the read semaphore has a message set aside for it. *)
LEMMA ReceiveWaitPreservesIInv ==
  ASSUME IInv, NEW r \in Receivers, ReceiveWait(r)
  PROVE  IInv'
<1> USE DEF IInv
<1>1. PICK v \in Vc : VcOf[r] = v
  BY ThreadsAssumption
<1>2. /\ pc[r] = "idle" /\ pc' = [pc EXCEPT ![r] = "pop"]
      /\ ReadSemaphore[v] > 0 /\ ReadSemaphore' = [ReadSemaphore EXCEPT ![v] = @ - 1]
      /\ UNCHANGED <<UsageCount, FreeBuffersQueue, queue, delivered, content, written, ActionSemaphore, buf, slot>>
      /\ pc \in [Thread -> SenderStates \cup ReceiverStates] /\ r \in Thread
      /\ \A t \in Senders \cup Receivers : t \in Thread
  BY <1>1 DEF ReceiveWait, Goto, poolVars, msgVars, TypeOK, Thread
<1>3. (\A t \in Thread \ {r} : pc'[t] = pc[t]) /\ pc'[r] = "pop"
  BY <1>2
<1>4. \A s \in Senders : pc'[s] = pc[s]
  BY <1>2, <1>3, ThreadsAssumption
<1>5. \A c \in Buffer : SameUsers(c)
  <2> TAKE c \in Buffer
  <2>1. SenderOwners(c)' = SenderOwners(c) /\ PushOwners(c)' = PushOwners(c)
    BY <1>2, <1>4 DEF SenderOwners, PushOwners
  <2>2. QueueOwners(c)' = QueueOwners(c) /\ ReadOwners(c)' = ReadOwners(c)
    BY <1>2, <1>3 DEF QueueOwners, ReadOwners, Elements
  <2>3. BeingClaimed(c)' <=> BeingClaimed(c)
    BY <1>2, <1>4 DEF BeingClaimed
  <2> QED
    BY <2>1, <2>2, <2>3 DEF SameUsers
<1>6. AccountOk'
  BY <1>2, <1>5, SameUsersCount, KeepingAccounts DEF poolVars
<1>7. TypeOK'
  <2>1. ReadSemaphore' \in [Vc -> Nat]
    BY <1>2 DEF TypeOK
  <2> QED
    BY <1>2, <2>1 DEF TypeOK, ReceiverStates
<1>8. PcOk' /\ QueuesOk' /\ LengthsOk'
  BY <1>2, <1>3, <1>4 DEF PcOk, QueuesOk, LengthsOk, Distinct, ReceiverStates
<1>9. SemaphoreCountsMessages'
  <2> SUFFICES ASSUME NEW u \in Vc
               PROVE  ReadSemaphore'[u] + Cardinality(Waiting(u)') = Len(queue'[u])
    BY DEF SemaphoreCountsMessages
  <2>1. ReadSemaphore[u] + Cardinality(Waiting(u)) = Len(queue[u]) /\ ReadSemaphore[u] \in Nat
    BY DEF SemaphoreCountsMessages, TypeOK
  <2>2. IsFiniteSet(Waiting(u)) /\ Cardinality(Waiting(u)) \in Nat
    BY ThreadsAssumption, FS_Subset, FS_CardinalityType DEF Waiting
  <2>3. CASE u = v
    <3>1. Waiting(u)' = Waiting(u) \cup {r} /\ r \notin Waiting(u)
      BY <1>1, <1>2, <1>3, <2>3 DEF Waiting
    <3>2. Cardinality(Waiting(u)') = Cardinality(Waiting(u)) + 1
      BY <2>2, <3>1, FS_AddElement
    <3>3. ReadSemaphore'[u] = ReadSemaphore[u] - 1 /\ queue'[u] = queue[u]
      BY <1>2, <2>3 DEF TypeOK
    <3> QED
      BY <2>1, <2>2, <3>2, <3>3
  <2>4. CASE u /= v
    <3>1. Waiting(u)' = Waiting(u)
      BY <1>1, <1>2, <1>3, <2>4 DEF Waiting
    <3>2. ReadSemaphore'[u] = ReadSemaphore[u] /\ queue'[u] = queue[u]
      BY <1>2, <2>4 DEF TypeOK
    <3> QED
      BY <2>1, <3>1, <3>2
  <2> QED
    BY <2>3, <2>4
<1>10. ActionOk' /\ SendingOk' /\ HoldersDiffer'
  BY <1>2, <1>4 DEF ActionOk, SendingOk, HoldersDiffer, Elements
<1> QED
  BY <1>6, <1>7, <1>8, <1>9, <1>10

(* Behind the semaphore there is a message. *)
LEMMA PoppedQueueHasMessage ==
  ASSUME IInv, NEW r \in Receivers, ReceivePop(r), NEW v \in Vc, VcOf[r] = v
  PROVE  queue[v] \in Seq(Buffer) /\ queue[v] /= <<>> /\ Distinct(queue[v]) /\ Len(queue[v]) \in Nat
<1> USE DEF IInv
<1>1. r \in Waiting(v)
  BY DEF ReceivePop, Goto, Waiting
<1>2. IsFiniteSet(Waiting(v)) /\ Cardinality(Waiting(v)) \in Nat
  BY ThreadsAssumption, FS_Subset, FS_CardinalityType DEF Waiting
<1>3. Cardinality(Waiting(v)) /= 0
  BY <1>1, <1>2, FS_EmptySet
<1>4. Len(queue[v]) /= 0
  BY <1>2, <1>3 DEF SemaphoreCountsMessages, TypeOK
<1> QED
  BY <1>4 DEF TypeOK, QueuesOk

(* It finds it in the queue, whose use of the buffer passes to it. *)
LEMMA ReceivePopPreservesIInv ==
  ASSUME IInv, NEW r \in Receivers, ReceivePop(r)
  PROVE  IInv'
<1> USE DEF IInv
<1>1. PICK v \in Vc : VcOf[r] = v
  BY ThreadsAssumption
<1>2. r \in Waiting(v) /\ \A u \in Vc : r \in Waiting(u) => u = v
  BY <1>1 DEF ReceivePop, Goto, Waiting
<1>3. \A u \in Vc : IsFiniteSet(Waiting(u)) /\ Cardinality(Waiting(u)) \in Nat
  BY ThreadsAssumption, FS_Subset, FS_CardinalityType DEF Waiting
<1>4. queue[v] \in Seq(Buffer) /\ queue[v] /= <<>> /\ Distinct(queue[v]) /\ Len(queue[v]) \in Nat
  BY <1>1, PoppedQueueHasMessage
<1>5. PICK b \in Buffer, rest \in Seq(Buffer) : b = Taken(v, queue[v]) /\ rest = Left(v, queue[v])
  BY <1>4, TakenSplits DEF Splits
<1>6. /\ Len(rest) = Len(queue[v]) - 1 /\ Distinct(rest)
      /\ Elements(queue[v]) = Elements(rest) \cup {b} /\ b \notin Elements(rest)
  BY <1>4, <1>5, TakenSplits DEF Splits
<1>7. /\ pc[r] = "pop" /\ pc' = [pc EXCEPT ![r] = "reading"]
      /\ buf' = [buf EXCEPT ![r] = b] /\ queue' = [queue EXCEPT ![v] = rest]
      /\ delivered' = [delivered EXCEPT ![v] = Append(@, content[b])]
      /\ UNCHANGED <<UsageCount, FreeBuffersQueue, ReadSemaphore, content, written, ActionSemaphore, slot>>
      /\ pc \in [Thread -> SenderStates \cup ReceiverStates] /\ buf \in [Thread -> Buffer] /\ r \in Thread
      /\ \A t \in Senders \cup Receivers : t \in Thread
  BY <1>1, <1>5 DEF ReceivePop, Goto, poolVars, msgVars, TypeOK, Thread
<1>8. /\ \A t \in Thread \ {r} : pc'[t] = pc[t] /\ buf'[t] = buf[t]
      /\ pc'[r] = "reading" /\ buf'[r] = b
  BY <1>7
<1>9. \A s \in Senders : pc'[s] = pc[s] /\ buf'[s] = buf[s]
  BY <1>7, <1>8, ThreadsAssumption
<1>10. /\ queue' \in [Vc -> Seq(Buffer)] /\ queue'[v] = rest /\ \A u \in Vc \ {v} : queue'[u] = queue[u]
  BY <1>7 DEF TypeOK
<1>11. \A u \in Vc : Elements(queue'[u]) \subseteq Elements(queue[u]) /\ Len(queue'[u]) <= Len(queue[u])
  <2> TAKE u \in Vc
  <2>1. Len(queue[u]) \in Nat
    BY DEF TypeOK
  <2>2. CASE u = v
    BY <1>4, <1>6, <1>10, <2>2
  <2>3. CASE u /= v
    BY <1>10, <2>1, <2>3
  <2> QED
    BY <2>2, <2>3
<1>12. Users(b)' = Users(b)
  <2>1. SenderOwners(b)' = SenderOwners(b) /\ PushOwners(b)' = PushOwners(b)
    BY <1>9 DEF SenderOwners, PushOwners
  <2>2. v \in QueueOwners(b) /\ QueueOwners(b)' = QueueOwners(b) \ {v}
    <3>1. \A u \in Vc : b \in Elements(queue'[u]) <=> b \in Elements(queue[u]) /\ u /= v
      BY <1>6, <1>10
    <3> QED
      BY <1>6, <3>1 DEF QueueOwners
  <2>3. r \notin ReadOwners(b) /\ ReadOwners(b)' = ReadOwners(b) \cup {r}
    BY <1>7, <1>8 DEF ReadOwners
  <2> QED
    BY <2>1, <2>2, <2>3, UserCounts
<1>13. \A c \in Buffer \ {b} : Users(c)' = Users(c)
  <2> TAKE c \in Buffer \ {b}
  <2>1. SenderOwners(c)' = SenderOwners(c) /\ PushOwners(c)' = PushOwners(c)
    BY <1>9 DEF SenderOwners, PushOwners
  <2>2. QueueOwners(c)' = QueueOwners(c)
    <3>1. \A u \in Vc : c \in Elements(queue'[u]) <=> c \in Elements(queue[u])
      BY <1>6, <1>10
    <3> QED
      BY <3>1 DEF QueueOwners
  <2>3. ReadOwners(c)' = ReadOwners(c)
    BY <1>7, <1>8 DEF ReadOwners
  <2> QED
    BY <2>1, <2>2, <2>3 DEF Users
<1>14. \A c \in Buffer : BeingClaimed(c)' <=> BeingClaimed(c)
  BY <1>9 DEF BeingClaimed
<1>15. AccountOk'
  BY <1>7, <1>12, <1>13, <1>14, KeepingAccounts DEF poolVars
<1>16. TypeOK'
  <2>1. delivered' \in [Vc -> Seq(Nat)]
    <3>1. delivered[v] \in Seq(Nat) /\ content[b] \in Nat
      BY DEF TypeOK
    <3>2. Append(delivered[v], content[b]) \in Seq(Nat)
      BY <3>1
    <3> QED
      BY <1>7, <3>2 DEF TypeOK
  <2> QED
    BY <1>7, <1>10, <2>1 DEF TypeOK, ReceiverStates
<1>17. PcOk' /\ QueuesOk'
  BY <1>6, <1>7, <1>8, <1>9, <1>10 DEF PcOk, QueuesOk, ReceiverStates
<1>18. LengthsOk'
  BY <1>10, <1>11, SizesAssumption DEF LengthsOk, TypeOK
<1>19. SemaphoreCountsMessages'
  <2> SUFFICES ASSUME NEW u \in Vc
               PROVE  ReadSemaphore'[u] + Cardinality(Waiting(u)') = Len(queue'[u])
    BY DEF SemaphoreCountsMessages
  <2>1. ReadSemaphore[u] + Cardinality(Waiting(u)) = Len(queue[u]) /\ ReadSemaphore[u] \in Nat /\ ReadSemaphore' = ReadSemaphore
    BY <1>7 DEF SemaphoreCountsMessages, TypeOK
  <2>2. CASE u = v
    <3>1. Waiting(u)' = Waiting(u) \ {r}
      BY <1>7, <1>8, <2>2 DEF Waiting
    <3>2. Cardinality(Waiting(u)') = Cardinality(Waiting(u)) - 1
      <4>1. IsFiniteSet(Waiting(u)) /\ r \in Waiting(u)
        BY <1>2, <1>3, <2>2
      <4>2. Cardinality(Waiting(u) \ {r}) = Cardinality(Waiting(u)) - 1
        BY <4>1, FS_RemoveElement
      <4> QED
        BY <3>1, <4>2
    <3>3. Len(queue'[v]) = Len(queue[v]) - 1
      BY <1>6, <1>10
    <3>4. Cardinality(Waiting(u)) \in Nat /\ Len(queue[v]) \in Nat
      BY <1>3, <1>4
    <3> QED
      BY <2>1, <2>2, <3>2, <3>3, <3>4
  <2>3. CASE u /= v
    <3>1. Waiting(u)' = Waiting(u)
      BY <1>1, <1>7, <1>8, <2>3 DEF Waiting
    <3> QED
      BY <1>10, <2>1, <2>3, <3>1
  <2> QED
    BY <2>2, <2>3
<1>20. ActionOk' /\ HoldersDiffer'
  BY <1>7, <1>9 DEF ActionOk, HoldersDiffer
<1>21. SendingOk'
  <2>1. \A u \in Vc : Len(queue'[u]) \in Nat /\ Len(queue[u]) \in Nat /\ QueueSize[u] \in Nat
    BY <1>10, SizesAssumption DEF TypeOK
  <2>2. \A u \in Vc : Len(queue[u]) < QueueSize[u] => Len(queue'[u]) < QueueSize[u]
    BY <1>11, <2>1
  <2> QED
    BY <1>7, <1>9, <1>11, <2>2 DEF SendingOk
<1> QED
  BY <1>15, <1>16, <1>17, <1>18, <1>19, <1>20, <1>21

(* A receiver gives its buffer back. *)
LEMMA ReceiveUnlockPreservesIInv ==
  ASSUME IInv, NEW r \in Receivers, ReceiveUnlock(r)
  PROVE  IInv'
<1> USE DEF IInv
<1>1. PICK b \in Buffer : buf[r] = b
  BY DEF TypeOK, Thread
<1>2. /\ releaseBuffer(b) /\ pc[r] = "reading" /\ pc' = [pc EXCEPT ![r] = "idle"]
      /\ UNCHANGED <<queue, ReadSemaphore, delivered, content, written, ActionSemaphore, buf, slot>>
      /\ pc \in [Thread -> SenderStates \cup ReceiverStates] /\ r \in Thread
      /\ \A t \in Senders \cup Receivers : t \in Thread
  BY <1>1 DEF ReceiveUnlock, Goto, queueVars, msgVars, TypeOK, Thread
<1>3. (\A t \in Thread \ {r} : pc'[t] = pc[t]) /\ pc'[r] = "idle"
  BY <1>2
<1>4. \A s \in Senders : pc'[s] = pc[s]
  BY <1>2, <1>3, ThreadsAssumption
<1>5. \A c \in Buffer : /\ SenderOwners(c)' = SenderOwners(c) /\ PushOwners(c)' = PushOwners(c)
                        /\ QueueOwners(c)' = QueueOwners(c)
  BY <1>2, <1>4 DEF SenderOwners, PushOwners, QueueOwners, Elements
<1>6. Users(b)' = Users(b) - 1 /\ Users(b) > 0
  <2>1. r \in ReadOwners(b) /\ ReadOwners(b)' = ReadOwners(b) \ {r}
    BY <1>1, <1>2, <1>3 DEF ReadOwners
  <2>2. Users(b)' = Users(b) - 1 /\ Users(b) /= 0
    BY <1>5, <2>1, UserCounts
  <2> QED
    BY <2>2, UserTypes
<1>7. \A c \in Buffer \ {b} : Users(c)' = Users(c)
  <2> TAKE c \in Buffer \ {b}
  <2>1. ReadOwners(c)' = ReadOwners(c)
    BY <1>1, <1>2, <1>3 DEF ReadOwners
  <2> QED
    BY <1>5, <2>1 DEF Users
<1>8. \A c \in Buffer : BeingClaimed(c)' <=> BeingClaimed(c)
  BY <1>2, <1>4 DEF BeingClaimed
<1>9. AccountOk' /\ UsageCount' \in [Buffer -> Nat] /\ FreeBuffersQueue' \in Seq(Buffer)
  BY <1>2, <1>6, <1>7, <1>8, ReleasingAccounts
<1>10. TypeOK'
  BY <1>2, <1>9 DEF TypeOK, ReceiverStates
<1>11. PcOk' /\ QueuesOk' /\ LengthsOk'
  BY <1>2, <1>3, <1>4 DEF PcOk, QueuesOk, LengthsOk, Distinct, ReceiverStates
<1>12. SemaphoreCountsMessages'
  <2>1. \A v \in Vc : Waiting(v)' = Waiting(v)
    BY <1>2, <1>3 DEF Waiting
  <2> QED
    BY <1>2, <2>1 DEF SemaphoreCountsMessages
<1>13. ActionOk' /\ SendingOk' /\ HoldersDiffer'
  BY <1>2, <1>4 DEF ActionOk, SendingOk, HoldersDiffer, Elements
<1> QED
  BY <1>9, <1>10, <1>11, <1>12, <1>13

(* A sender's buffer is counted, so the failures of a push and of an unlocked buffer *)
(* cannot happen.                                                                *)
LEMMA SendersAreCounted ==
  ASSUME IInv, NEW s \in Senders, pc[s] \in SenderPc
  PROVE  UsageCount[buf[s]] > 0
<1>1. buf[s] \in Buffer /\ s \in SenderOwners(buf[s])
  BY DEF IInv, TypeOK, Thread, SenderOwners
<1>2. Users(buf[s]) /= 0 /\ Users(buf[s]) \in Nat
  BY <1>1, UserCounts, UserTypes
<1> QED
  BY <1>1, <1>2 DEF IInv, AccountOk

LEMMA NoFailure ==
  ASSUME IInv, NEW s \in Senders
  PROVE  ~SendNotLocked(s) /\ ~PushFails(s) /\ ~PushUndo(s)
<1>1. ~SendNotLocked(s)
  BY SendersAreCounted DEF SendNotLocked, Goto, SenderPc
<1>2. ~PushFails(s)
  BY SendersAreCounted DEF PushFails, Goto, SenderPc
<1>3. ~PushUndo(s)
  BY DEF PushUndo, Goto, IInv, PcOk
<1> QED
  BY <1>1, <1>2, <1>3

LEMMA NextPreservesIInv ==
  ASSUME NothingIsLost, IInv, [Next]_vars
  PROVE  IInv'
<1>1. ASSUME NEW s \in Senders, claimFreeBuffer(s) \/ Refused(s) \/ Fill(s) \/ GiveUp(s)
      PROVE  IInv'
  <2>1. QuietStep(s) \/ ClaimPop(s) \/ ClaimSet(s) \/ GiveUp(s)
    BY <1>1 DEF claimFreeBuffer, QuietStep
  <2> QED
    BY <2>1, QuietStepPreservesIInv, ClaimPopPreservesIInv, ClaimSetPreservesIInv, SenderReleasePreservesIInv
<1>2. ASSUME NEW s \in Senders, sendBuffer(s)
      PROVE  IInv'
  <2>1. QuietStep(s) \/ SendRelease(s) \/ PushClaim(s) \/ PushOverwrite(s) \/ PushStore(s)
    BY <1>2, NoFailure DEF sendBuffer, obtainAction, pushBuffer, QuietStep
  <2> QED
    BY <2>1, QuietStepPreservesIInv, SenderReleasePreservesIInv, PushClaimPreservesIInv,
       PushOverwritePreservesIInv, PushStorePreservesIInv
<1>3. ASSUME NEW r \in Receivers, receive(r)
      PROVE  IInv'
  BY <1>3, ReceiveWaitPreservesIInv, ReceivePopPreservesIInv, ReceiveUnlockPreservesIInv DEF receive
<1>4. CASE UNCHANGED vars
  <2>1. UNCHANGED <<UsageCount, FreeBuffersQueue, queue, ReadSemaphore, delivered, content, written,
                    ActionSemaphore, pc, buf, slot>>
    BY <1>4 DEF vars, poolVars, queueVars, msgVars
  <2>2. \A c \in Buffer : SameUsers(c)
    BY <2>1 DEF SameUsers, SenderOwners, PushOwners, QueueOwners, ReadOwners, BeingClaimed, Elements
  <2>3. AccountOk'
    BY <2>1, <2>2, SameUsersCount, KeepingAccounts DEF IInv, poolVars
  <2>4. TypeOK' /\ PcOk' /\ QueuesOk' /\ LengthsOk' /\ ActionOk' /\ HoldersDiffer'
    BY <2>1 DEF IInv, TypeOK, PcOk, QueuesOk, LengthsOk, ActionOk, HoldersDiffer, Distinct
  <2>5. SemaphoreCountsMessages' /\ SendingOk'
    BY <2>1 DEF IInv, SemaphoreCountsMessages, Waiting, SendingOk, Elements
  <2> QED
    BY <2>3, <2>4, <2>5 DEF IInv
<1> QED
  BY <1>1, <1>2, <1>3, <1>4 DEF Next

(* The owners are the users. *)
LEMMA IInvAccounts ==
  ASSUME IInv
  PROVE  BuffersAccounted
<1> USE DEF IInv
<1>1. \A b \in Buffer : Cardinality(Owners(b)) = Users(b) /\ (Owners(b) = {} <=> Users(b) = 0)
  <2> TAKE b \in Buffer
  <2>1. Owners(b) = Named(SenderOwners(b), PushOwners(b), QueueOwners(b), ReadOwners(b))
    BY DEF Owners, Named
  <2>2. Cardinality(Owners(b)) = Users(b)
    BY <2>1, UserTypes, NamedProperties DEF Users
  <2>3. Owners(b) = {} <=> /\ SenderOwners(b) = {} /\ PushOwners(b) = {}
                           /\ QueueOwners(b) = {} /\ ReadOwners(b) = {}
    BY DEF Owners
  <2> QED
    BY <2>2, <2>3, UserCounts
<1>2. CountIsOwners
  BY <1>1 DEF CountIsOwners, AccountOk
<1>3. FreeListExact
  BY <1>1 DEF FreeListExact, AccountOk, Distinct
<1> QED
  BY <1>2, <1>3 DEF BuffersAccounted

-------------------------------------------------------------------------------
(* The counter of every buffer is the number of its users, and the free list holds *)
(* exactly the buffers without one, in every state: releaseBuffer() returns a buffer *)
(* once and when its last user is through (claimFreeBuffer, claimBuffer,         *)
(* releaseBuffer, sendBuffer, receiveBuffer).                                    *)
THEOREM BuffersAreAccounted ==
  ASSUME NothingIsLost
  PROVE  Spec => []BuffersAccounted
<1>1. Init => IInv
  BY InitEstablishesIInv
<1>2. IInv /\ [Next]_vars => IInv'
  BY NextPreservesIInv
<1>3. IInv => BuffersAccounted
  BY IInvAccounts
<1> QED
  BY <1>1, <1>2, <1>3, PTL DEF Spec

(* A receiver that has passed the read semaphore finds a message (popBuffer).    *)
THEOREM SemaphoreIsExact ==
  ASSUME NothingIsLost
  PROVE  Spec => []SemaphoreCountsMessages
<1>1. Init => IInv
  BY InitEstablishesIInv
<1>2. IInv /\ [Next]_vars => IInv'
  BY NextPreservesIInv
<1>3. IInv => SemaphoreCountsMessages
  BY DEF IInv
<1> QED
  BY <1>1, <1>2, <1>3, PTL DEF Spec
-------------------------------------------------------------------------------
(* Whatever the queues do when they are full.                                  *)
(*                                                                             *)
(* With an overwriting queue the counters of buffers may be wrong: a push may  *)
(* release a message a reader has just taken.  What remains is that a buffer   *)
(* is on the free list with count 0 only, once, and never together with a      *)
(* claim of it, and that the read semaphores count messages.                   *)

ClaimsOk ==
  /\ Distinct(FreeBuffersQueue)
  /\ \A b \in Elements(FreeBuffersQueue) : UsageCount[b] = 0
  /\ \A s \in Senders : pc[s] = "setCount" =>
       UsageCount[buf[s]] = 0 /\ buf[s] \notin Elements(FreeBuffersQueue)
  /\ \A s, t \in Senders : pc[s] = "setCount" /\ pc[t] = "setCount" /\ buf[s] = buf[t] => s = t

SlotsOk == \A s \in Senders : pc[s] \in PushingPc => slot[s] \in Vc

RaceInv == TypeOK /\ ClaimsOk /\ SlotsOk /\ SemaphoreCountsMessages

(* Claims are not disturbed when nobody starts one and the pool stays.         *)
LEMMA ClaimsKept ==
  ASSUME ClaimsOk, UNCHANGED poolVars, UNCHANGED buf,
         \A s \in Senders : pc'[s] = "setCount" => pc[s] = "setCount"
  PROVE  ClaimsOk'
<1>1. UNCHANGED <<UsageCount, FreeBuffersQueue, buf>>
  BY DEF poolVars
<1> QED
  BY <1>1 DEF ClaimsOk, Distinct, Elements

(* A buffer that is released was in use: neither free nor being claimed.       *)
LEMMA ReleaseKeepsClaims ==
  ASSUME TypeOK, ClaimsOk, NEW b \in Buffer, releaseBuffer(b),
         \A s \in Senders : pc'[s] = "setCount" => pc[s] = "setCount" /\ buf'[s] = buf[s]
  PROVE  ClaimsOk' /\ UsageCount' \in [Buffer -> Nat] /\ FreeBuffersQueue' \in Seq(Buffer)
<1>1. UsageCount \in [Buffer -> Nat] /\ FreeBuffersQueue \in Seq(Buffer) /\ Elements(FreeBuffersQueue) \subseteq Buffer
  BY AppendAdds DEF TypeOK
<1>2. CASE UsageCount[b] = 0
  <2>1. UNCHANGED <<UsageCount, FreeBuffersQueue>>
    BY <1>2 DEF releaseBuffer, poolVars
  <2>2. Distinct(FreeBuffersQueue)' = Distinct(FreeBuffersQueue) /\ Elements(FreeBuffersQueue)' = Elements(FreeBuffersQueue)
    BY <2>1 DEF Distinct, Elements
  <2>3. ClaimsOk'
    BY <2>1, <2>2 DEF ClaimsOk
  <2> QED
    BY <1>1, <2>1, <2>3
<1>3. CASE UsageCount[b] /= 0
  <2>1. UsageCount[b] > 0 /\ UsageCount[b] - 1 \in Nat /\ (UsageCount[b] - 1 = 0 <=> UsageCount[b] = 1)
    BY <1>1, <1>3
  <2>2. /\ UsageCount' = [UsageCount EXCEPT ![b] = UsageCount[b] - 1]
        /\ FreeBuffersQueue' = IF UsageCount[b] = 1 THEN Append(FreeBuffersQueue, b) ELSE FreeBuffersQueue
    BY <2>1 DEF releaseBuffer
  <2>3. /\ UsageCount' \in [Buffer -> Nat] /\ UsageCount'[b] = UsageCount[b] - 1
        /\ \A c \in Buffer : c /= b => UsageCount'[c] = UsageCount[c]
    BY <1>1, <2>1, <2>2
  <2>4. b \notin Elements(FreeBuffersQueue) /\ \A s \in Senders : pc[s] = "setCount" => buf[s] /= b
    BY <1>3 DEF ClaimsOk
  <2>5. /\ FreeBuffersQueue' \in Seq(Buffer) /\ Distinct(FreeBuffersQueue')
        /\ \A c \in Elements(FreeBuffersQueue') : c \in Elements(FreeBuffersQueue) \/ (c = b /\ UsageCount[b] = 1)
    <3>1. CASE UsageCount[b] = 1
      BY <1>1, <2>2, <2>4, <3>1, AppendAdds DEF ClaimsOk
    <3>2. CASE UsageCount[b] /= 1
      BY <1>1, <2>2, <3>2 DEF ClaimsOk
    <3> QED
      BY <3>1, <3>2
  <2>6. \A s \in Senders : buf[s] \in Buffer
    BY DEF TypeOK, Thread
  <2>7. \A c \in Elements(FreeBuffersQueue') : UsageCount'[c] = 0
    BY <1>1, <2>1, <2>3, <2>4, <2>5 DEF ClaimsOk
  <2>8. \A s \in Senders : pc'[s] = "setCount" => UsageCount'[buf'[s]] = 0 /\ buf'[s] \notin Elements(FreeBuffersQueue')
    BY <2>3, <2>4, <2>5, <2>6 DEF ClaimsOk
  <2>9. \A s, t \in Senders : pc'[s] = "setCount" /\ pc'[t] = "setCount" /\ buf'[s] = buf'[t] => s = t
    BY DEF ClaimsOk
  <2> QED
    BY <2>3, <2>5, <2>7, <2>8, <2>9 DEF ClaimsOk
<1> QED
  BY <1>2, <1>3

(* What a step of a sender leaves alone.                                       *)
LEMMA SendersStep ==
  ASSUME TypeOK, SemaphoreCountsMessages, NEW s \in Senders, NEW to, pc' = [pc EXCEPT ![s] = to]
  PROVE  /\ \A t \in Thread : pc'[t] = IF t = s THEN to ELSE pc[t]
         /\ \A v \in Vc : Waiting(v)' = Waiting(v)
         /\ UNCHANGED <<queue, ReadSemaphore>> => SemaphoreCountsMessages'
         /\ s \in Thread /\ buf[s] \in Buffer /\ slot[s] \in 0 .. NumberOfVcs
<1>1. s \in Thread /\ \A r \in Receivers : r \in Thread /\ r /= s
  BY ThreadsAssumption DEF Thread
<1>2. \A t \in Thread : pc'[t] = IF t = s THEN to ELSE pc[t]
  BY DEF TypeOK
<1>3. \A v \in Vc : Waiting(v)' = Waiting(v)
  BY <1>1, <1>2 DEF Waiting
<1>4. ASSUME UNCHANGED <<queue, ReadSemaphore>> PROVE SemaphoreCountsMessages'
  BY <1>3, <1>4 DEF SemaphoreCountsMessages
<1> QED
  BY <1>1, <1>2, <1>3, <1>4 DEF TypeOK

\* The steps of a sender that leave the buffers and the queues alone.
RestingStep(s) == QuietStep(s) \/ SendNotLocked(s) \/ PushFails(s)

LEMMA RestingKeepsRaceInv ==
  ASSUME RaceInv, NEW s \in Senders, RestingStep(s)
  PROVE  RaceInv'
<1> USE DEF RestingStep, QuietStep
<1>1. /\ UNCHANGED <<UsageCount, FreeBuffersQueue, queue, ReadSemaphore, delivered, buf>>
      /\ pc \in [Thread -> SenderStates \cup ReceiverStates] /\ s \in Thread
  BY DEF ClaimTest, Refused, Fill, SendEnter, SendNotLocked, EnterTimeout, WaitForFreeCells, CellTimeout,
         StartPushing, PushFails, SendLeave, poolVars, queueVars, RaceInv, TypeOK, Thread
<1>2. PICK to \in SenderStates : pc' = [pc EXCEPT ![s] = to] /\ to \notin PushingPc \cup {"setCount"}
  <2>1. AfterFailure(s) \in {"idle", "filled"}
    BY DEF AfterFailure
  <2>2. pc[s] = "waitCells" => pc = [pc EXCEPT ![s] = "waitCells"]
    BY <1>1
  <2>3. CASE WaitForFreeCells(s)
    BY <2>2, <2>3 DEF WaitForFreeCells, SenderStates, SenderPc, PushingPc
  <2>4. CASE EnterTimeout(s) \/ CellTimeout(s) \/ SendNotLocked(s)
    BY <2>1, <2>4 DEF EnterTimeout, CellTimeout, SendNotLocked, Goto, SenderStates, SenderPc, PushingPc
  <2>5. CASE ClaimTest(s) \/ Refused(s) \/ Fill(s) \/ SendEnter(s) \/ StartPushing(s) \/ SendLeave(s) \/ PushFails(s)
    BY <2>5 DEF ClaimTest, Refused, Fill, SendEnter, StartPushing, SendLeave, PushFails, Goto,
                SenderStates, SenderPc, PushingPc
  <2> QED
    BY <2>3, <2>4, <2>5
<1>3. /\ \A t \in Thread : pc'[t] = IF t = s THEN to ELSE pc[t]
      /\ SemaphoreCountsMessages'
  BY <1>1, <1>2, SendersStep DEF RaceInv
<1>4. \A t \in Senders : t \in Thread
  BY DEF Thread
<1>5. ClaimsOk'
  BY <1>1, <1>2, <1>3, <1>4, ClaimsKept DEF RaceInv, poolVars
<1>6. slot' \in [Senders -> 0 .. NumberOfVcs] /\ \A t \in Senders : t /= s => slot'[t] = slot[t]
  <2>1. CASE WaitForFreeCells(s)
    <3>1. slot[s] + 1 \in 0 .. NumberOfVcs
      BY <2>1, SizesAssumption DEF WaitForFreeCells, RaceInv, TypeOK
    <3> QED
      BY <2>1, <3>1 DEF WaitForFreeCells, RaceInv, TypeOK
  <2>2. CASE SendEnter(s) \/ StartPushing(s)
    <3>1. slot' = [slot EXCEPT ![s] = 0] /\ 0 \in 0 .. NumberOfVcs
      BY <2>2, SizesAssumption DEF SendEnter, StartPushing
    <3> QED
      BY <3>1 DEF RaceInv, TypeOK
  <2>3. ~ WaitForFreeCells(s) /\ ~ SendEnter(s) /\ ~ StartPushing(s) => slot' = slot
    BY DEF ClaimTest, Refused, Fill, SendNotLocked, EnterTimeout, CellTimeout, PushFails, SendLeave
  <2> QED
    BY <2>1, <2>2, <2>3 DEF RaceInv, TypeOK
<1>7. SlotsOk'
  BY <1>2, <1>3, <1>4, <1>6 DEF RaceInv, SlotsOk
<1>8. TypeOK'
  <2>1. content' \in [Buffer -> Nat] /\ written' \in Nat
    <3>1. CASE Fill(s)
      <4>1. content \in [Buffer -> Nat] /\ written + 1 \in Nat
        BY DEF RaceInv, TypeOK
      <4>2. content' = [content EXCEPT ![buf[s]] = written + 1] /\ written' = written + 1
        BY <3>1 DEF Fill
      <4> QED
        BY <4>1, <4>2
    <3>2. ~ Fill(s) => UNCHANGED <<content, written>>
      BY DEF ClaimTest, Refused, SendEnter, SendNotLocked, EnterTimeout, WaitForFreeCells, CellTimeout,
             StartPushing, PushFails, SendLeave, msgVars
    <3> QED
      BY <3>1, <3>2 DEF RaceInv, TypeOK
  <2>2. ActionSemaphore' \in {0, 1}
    BY DEF ClaimTest, Refused, Fill, SendEnter, SendNotLocked, EnterTimeout, WaitForFreeCells, CellTimeout,
           StartPushing, PushFails, SendLeave, RaceInv, TypeOK
  <2>3. pc' \in [Thread -> SenderStates \cup ReceiverStates]
    BY <1>1, <1>2
  <2> QED
    BY <1>1, <1>6, <2>1, <2>2, <2>3 DEF RaceInv, TypeOK
<1> QED
  BY <1>3, <1>5, <1>7, <1>8 DEF RaceInv

LEMMA ClaimPopKeepsRaceInv ==
  ASSUME RaceInv, NEW s \in Senders, ClaimPop(s)
  PROVE  RaceInv'
<1>1. PICK b \in Buffer :
        /\ FreeBuffersQueue \in Seq(Buffer) /\ Splits(FreeBuffersQueue, b, FreeBuffersQueue')
        /\ buf' = [buf EXCEPT ![s] = b]
  BY TailSplits DEF ClaimPop, RaceInv, TypeOK, Splits
<1>2. /\ pc' = [pc EXCEPT ![s] = "setCount"]
      /\ UNCHANGED <<UsageCount, queue, ReadSemaphore, delivered, content, written, ActionSemaphore, slot>>
  BY DEF ClaimPop, Goto, queueVars, msgVars
<1>3. /\ \A t \in Thread : pc'[t] = IF t = s THEN "setCount" ELSE pc[t]
      /\ SemaphoreCountsMessages' /\ s \in Thread
  BY <1>2, SendersStep DEF RaceInv
<1>4. \A t \in Senders : t \in Thread /\ buf'[t] = IF t = s THEN b ELSE buf[t]
  BY <1>1 DEF RaceInv, TypeOK, Thread
<1>5. /\ b \in Elements(FreeBuffersQueue) /\ b \notin Elements(FreeBuffersQueue')
      /\ \A c \in Elements(FreeBuffersQueue') : c \in Elements(FreeBuffersQueue)
      /\ Distinct(FreeBuffersQueue') /\ FreeBuffersQueue' \in Seq(Buffer)
  BY <1>1 DEF Splits, RaceInv, ClaimsOk
<1>6. ClaimsOk'
  <2>1. \A c \in Elements(FreeBuffersQueue') : UsageCount'[c] = 0
    BY <1>2, <1>5 DEF RaceInv, ClaimsOk
  <2>2. \A t \in Senders : pc'[t] = "setCount" => UsageCount'[buf'[t]] = 0 /\ buf'[t] \notin Elements(FreeBuffersQueue')
    BY <1>2, <1>3, <1>4, <1>5 DEF RaceInv, ClaimsOk
  <2>3. \A t, u \in Senders : pc'[t] = "setCount" /\ pc'[u] = "setCount" /\ buf'[t] = buf'[u] => t = u
    BY <1>3, <1>4, <1>5 DEF RaceInv, ClaimsOk
  <2> QED
    BY <1>5, <2>1, <2>2, <2>3 DEF ClaimsOk
<1>7. TypeOK' /\ SlotsOk'
  <2>1. SlotsOk'
    BY <1>2, <1>3, <1>4 DEF RaceInv, SlotsOk, PushingPc
  <2> QED
    BY <1>1, <1>2, <1>5, <2>1 DEF RaceInv, TypeOK, SenderStates
<1> QED
  BY <1>3, <1>6, <1>7 DEF RaceInv

LEMMA ClaimSetKeepsRaceInv ==
  ASSUME RaceInv, NEW s \in Senders, ClaimSet(s)
  PROVE  RaceInv'
<1>1. PICK b \in Buffer : buf[s] = b
  BY DEF RaceInv, TypeOK, Thread
<1>2. /\ pc[s] = "setCount" /\ pc' = [pc EXCEPT ![s] = "locked"]
      /\ UsageCount' = [UsageCount EXCEPT ![b] = 1]
      /\ UNCHANGED <<FreeBuffersQueue, queue, ReadSemaphore, delivered, content, written, ActionSemaphore, buf, slot>>
  BY <1>1 DEF ClaimSet, Goto, queueVars, msgVars
<1>3. /\ \A t \in Thread : pc'[t] = IF t = s THEN "locked" ELSE pc[t]
      /\ SemaphoreCountsMessages' /\ s \in Thread
  BY <1>2, SendersStep DEF RaceInv
<1>4. \A t \in Senders : t \in Thread
  BY DEF Thread
<1>5. \A c : c /= b => UsageCount'[c] = UsageCount[c]
  BY <1>2 DEF RaceInv, TypeOK
<1>6. ClaimsOk'
  <2>1. b \notin Elements(FreeBuffersQueue) /\ \A t \in Senders : pc[t] = "setCount" /\ buf[t] = b => t = s
    BY <1>1, <1>2 DEF RaceInv, ClaimsOk
  <2>2. Distinct(FreeBuffersQueue')
    BY <1>2 DEF RaceInv, ClaimsOk
  <2>3. \A c \in Elements(FreeBuffersQueue') : UsageCount'[c] = 0
    BY <1>2, <1>5, <2>1 DEF RaceInv, ClaimsOk
  <2>4. \A t \in Senders : pc'[t] = "setCount" => UsageCount'[buf'[t]] = 0 /\ buf'[t] \notin Elements(FreeBuffersQueue')
    BY <1>2, <1>3, <1>4, <1>5, <2>1 DEF RaceInv, ClaimsOk
  <2>5. \A t, u \in Senders : pc'[t] = "setCount" /\ pc'[u] = "setCount" /\ buf'[t] = buf'[u] => t = u
    BY <1>2, <1>3, <1>4 DEF RaceInv, ClaimsOk
  <2> QED
    BY <2>2, <2>3, <2>4, <2>5 DEF ClaimsOk
<1>7. SlotsOk'
  BY <1>2, <1>3, <1>4 DEF RaceInv, SlotsOk, PushingPc
<1>8. TypeOK'
  BY <1>2 DEF RaceInv, TypeOK, SenderStates, SenderPc
<1> QED
  BY <1>3, <1>6, <1>7, <1>8 DEF RaceInv

\* The steps of a sender that release a buffer, or may do so.
ReleasingStep(s) == GiveUp(s) \/ PushUndo(s) \/ SendRelease(s) \/ PushOverwrite(s)

LEMMA ReleasingKeepsRaceInv ==
  ASSUME RaceInv, NEW s \in Senders, ReleasingStep(s)
  PROVE  RaceInv'
<1> USE DEF ReleasingStep
<1>1. /\ UNCHANGED <<queue, ReadSemaphore, delivered, content, written, buf, slot>>
      /\ ActionSemaphore' \in {0, 1}
  BY DEF GiveUp, PushUndo, SendRelease, PushOverwrite, queueVars, msgVars, RaceInv, TypeOK
<1>2. PICK to \in SenderStates : /\ pc' = [pc EXCEPT ![s] = to] /\ to /= "setCount"
                                 /\ to \in PushingPc => pc[s] \in PushingPc
  BY DEF GiveUp, PushUndo, SendRelease, PushOverwrite, Goto, AfterFailure, SenderStates, SenderPc, PushingPc
<1>3. /\ \A t \in Thread : pc'[t] = IF t = s THEN to ELSE pc[t]
      /\ SemaphoreCountsMessages' /\ s \in Thread /\ buf[s] \in Buffer
  BY <1>1, <1>2, SendersStep DEF RaceInv
<1>4. \A t \in Senders : t \in Thread
  BY DEF Thread
<1>5. UNCHANGED poolVars \/ \E b \in Buffer : releaseBuffer(b)
  <2>1. CASE PushOverwrite(s) /\ slot[s] \notin Refusing /\ IsFull(slot[s])
    <3>1. PICK v \in Vc : v = slot[s]
      BY <2>1 DEF PushOverwrite, Goto, RaceInv, SlotsOk, PushingPc
    <3>2. queue[v] \in Seq(Buffer) /\ Len(queue[v]) = QueueSize[v] /\ QueueSize[v] \in Nat \ {0}
      BY <2>1, <3>1, SizesAssumption DEF IsFull, RaceInv, TypeOK
    <3>3. Head(queue[v]) \in Buffer
      BY <3>2
    <3> QED
      BY <2>1, <3>1, <3>3 DEF PushOverwrite
  <2>2. CASE PushOverwrite(s) /\ ~ (slot[s] \notin Refusing /\ IsFull(slot[s]))
    BY <2>2 DEF PushOverwrite
  <2> QED
    BY <1>3, <2>1, <2>2 DEF GiveUp, PushUndo, SendRelease
<1>6. ClaimsOk' /\ UsageCount' \in [Buffer -> Nat] /\ FreeBuffersQueue' \in Seq(Buffer)
  <2>1. \A t \in Senders : pc'[t] = "setCount" => pc[t] = "setCount" /\ buf'[t] = buf[t]
    BY <1>1, <1>2, <1>3, <1>4
  <2>2. CASE UNCHANGED poolVars
    BY <1>1, <2>1, <2>2, ClaimsKept DEF poolVars, RaceInv, TypeOK
  <2>3. CASE \E b \in Buffer : releaseBuffer(b)
    BY <2>1, <2>3, ReleaseKeepsClaims DEF RaceInv
  <2> QED
    BY <1>5, <2>2, <2>3
<1>7. SlotsOk'
  BY <1>1, <1>2, <1>3, <1>4 DEF RaceInv, SlotsOk
<1>8. TypeOK'
  BY <1>1, <1>2, <1>6 DEF RaceInv, TypeOK
<1> QED
  BY <1>3, <1>6, <1>7, <1>8 DEF RaceInv

LEMMA PushClaimKeepsRaceInv ==
  ASSUME RaceInv, NEW s \in Senders, PushClaim(s)
  PROVE  RaceInv'
<1>1. PICK b \in Buffer : buf[s] = b
  BY DEF RaceInv, TypeOK, Thread
<1>2. /\ UsageCount[b] > 0 /\ slot[s] < NumberOfVcs /\ pc' = [pc EXCEPT ![s] = "enqueue"]
      /\ UsageCount' = [UsageCount EXCEPT ![b] = UsageCount[b] + 1]
      /\ UNCHANGED <<FreeBuffersQueue, queue, ReadSemaphore, delivered, content, written, ActionSemaphore, buf, slot>>
  BY <1>1 DEF PushClaim, Goto, queueVars, msgVars
<1>3. /\ \A t \in Thread : pc'[t] = IF t = s THEN "enqueue" ELSE pc[t]
      /\ SemaphoreCountsMessages' /\ s \in Thread /\ slot[s] \in 0 .. NumberOfVcs
  BY <1>2, SendersStep DEF RaceInv
<1>4. \A t \in Senders : t \in Thread
  BY DEF Thread
<1>5. UsageCount[b] /= 0 /\ \A c : c /= b => UsageCount'[c] = UsageCount[c]
  BY <1>2 DEF RaceInv, TypeOK
<1>6. ClaimsOk'
  <2>1. b \notin Elements(FreeBuffersQueue) /\ \A t \in Senders : pc[t] = "setCount" => buf[t] /= b
    BY <1>5 DEF RaceInv, ClaimsOk
  <2>2. Distinct(FreeBuffersQueue')
    BY <1>2 DEF RaceInv, ClaimsOk
  <2>3. \A c \in Elements(FreeBuffersQueue') : UsageCount'[c] = 0
    BY <1>2, <1>5, <2>1 DEF RaceInv, ClaimsOk
  <2>4. \A t \in Senders : pc'[t] = "setCount" => UsageCount'[buf'[t]] = 0 /\ buf'[t] \notin Elements(FreeBuffersQueue')
    BY <1>2, <1>3, <1>4, <1>5, <2>1 DEF RaceInv, ClaimsOk
  <2>5. \A t, u \in Senders : pc'[t] = "setCount" /\ pc'[u] = "setCount" /\ buf'[t] = buf'[u] => t = u
    BY <1>2, <1>3, <1>4 DEF RaceInv, ClaimsOk
  <2> QED
    BY <2>2, <2>3, <2>4, <2>5 DEF ClaimsOk
<1>7. SlotsOk'
  <2>1. slot[s] \in Vc
    BY <1>2, <1>3, SizesAssumption DEF Vc
  <2> QED
    BY <1>2, <1>3, <1>4, <2>1 DEF RaceInv, SlotsOk
<1>8. TypeOK'
  <2>1. UsageCount' \in [Buffer -> Nat]
    BY <1>2 DEF RaceInv, TypeOK
  <2> QED
    BY <1>2, <2>1 DEF RaceInv, TypeOK, SenderStates, SenderPc
<1> QED
  BY <1>3, <1>6, <1>7, <1>8 DEF RaceInv

(* A queue that is still full loses one message for the one it gains, and its  *)
(* read semaphore stays; another gains one, and its read semaphore is posted.  *)
LEMMA PushStoreKeepsRaceInv ==
  ASSUME RaceInv, NEW s \in Senders, PushStore(s)
  PROVE  RaceInv'
<1>1. PICK b \in Buffer, v \in Vc : buf[s] = b /\ slot[s] = v
  BY DEF PushStore, Goto, RaceInv, SlotsOk, TypeOK, Thread, PushingPc
<1>2. /\ pc' = [pc EXCEPT ![s] = "push"]
      /\ queue' = [queue EXCEPT ![v] = Append(IF IsFull(v) THEN Tail(queue[v]) ELSE queue[v], b)]
      /\ ReadSemaphore' = [ReadSemaphore EXCEPT ![v] = IF IsFull(v) THEN ReadSemaphore[v] ELSE ReadSemaphore[v] + 1]
      /\ slot' = [slot EXCEPT ![s] = v + 1]
      /\ UNCHANGED <<UsageCount, FreeBuffersQueue, delivered, content, written, ActionSemaphore, buf>>
  BY <1>1 DEF PushStore, Goto, poolVars, msgVars
<1>3. /\ \A t \in Thread : pc'[t] = IF t = s THEN "push" ELSE pc[t]
      /\ \A u \in Vc : Waiting(u)' = Waiting(u)
      /\ s \in Thread
  BY <1>2, SendersStep DEF RaceInv
<1>4. \A t \in Senders : t \in Thread
  BY DEF Thread
<1>5. /\ queue[v] \in Seq(Buffer) /\ Len(queue[v]) \in Nat /\ QueueSize[v] \in Nat \ {0} /\ ReadSemaphore[v] \in Nat
      /\ v + 1 \in 0 .. NumberOfVcs
  BY <1>1, SizesAssumption DEF RaceInv, TypeOK, Vc
<1>6. PICK q \in Seq(Buffer), n \in Nat :
        /\ queue' = [queue EXCEPT ![v] = q] /\ ReadSemaphore' = [ReadSemaphore EXCEPT ![v] = n]
        /\ Len(q) - Len(queue[v]) = n - ReadSemaphore[v]
  <2>1. CASE IsFull(v)
    <3>1. queue[v] /= <<>> /\ Tail(queue[v]) \in Seq(Buffer) /\ Len(Tail(queue[v])) = Len(queue[v]) - 1
      BY <1>5, <2>1 DEF IsFull
    <3>2. Append(Tail(queue[v]), b) \in Seq(Buffer) /\ Len(Append(Tail(queue[v]), b)) = Len(queue[v])
      BY <1>5, <3>1, AppendAdds
    <3>3. /\ queue' = [queue EXCEPT ![v] = Append(Tail(queue[v]), b)]
          /\ ReadSemaphore' = [ReadSemaphore EXCEPT ![v] = ReadSemaphore[v]]
      BY <1>2, <2>1
    <3>4. PICK q \in Seq(Buffer), n \in Nat : /\ q = Append(Tail(queue[v]), b) /\ n = ReadSemaphore[v]
                                             /\ Len(q) - Len(queue[v]) = n - ReadSemaphore[v]
      <4>1. ReadSemaphore[v] - ReadSemaphore[v] = Len(queue[v]) - Len(queue[v])
        BY <1>5
      <4>2. PICK q \in Seq(Buffer) : q = Append(Tail(queue[v]), b) /\ Len(q) = Len(queue[v])
        BY <3>2
      <4> QED
        BY <1>5, <4>1, <4>2
    <3> QED
      BY <3>3, <3>4
  <2>2. CASE ~ IsFull(v)
    <3>1. Append(queue[v], b) \in Seq(Buffer) /\ Len(Append(queue[v], b)) = Len(queue[v]) + 1
      BY <1>5, AppendAdds
    <3>2. ReadSemaphore[v] + 1 \in Nat /\ (Len(queue[v]) + 1) - Len(queue[v]) = (ReadSemaphore[v] + 1) - ReadSemaphore[v]
      BY <1>5
    <3>3. /\ queue' = [queue EXCEPT ![v] = Append(queue[v], b)]
          /\ ReadSemaphore' = [ReadSemaphore EXCEPT ![v] = ReadSemaphore[v] + 1]
      BY <1>2, <2>2
    <3>4. PICK q \in Seq(Buffer), n \in Nat : /\ q = Append(queue[v], b) /\ n = ReadSemaphore[v] + 1
                                             /\ Len(q) - Len(queue[v]) = n - ReadSemaphore[v]
      BY <3>1, <3>2
    <3> QED
      BY <3>3, <3>4
  <2> QED
    BY <2>1, <2>2
<1>7. SemaphoreCountsMessages'
  <2> SUFFICES ASSUME NEW u \in Vc PROVE ReadSemaphore'[u] + Cardinality(Waiting(u)') = Len(queue'[u])
    BY DEF SemaphoreCountsMessages
  <2>1. ReadSemaphore[u] + Cardinality(Waiting(u)) = Len(queue[u]) /\ Cardinality(Waiting(u)) \in Nat
    <3>1. IsFiniteSet(Waiting(u))
      BY FS_Subset, ThreadsAssumption DEF Waiting
    <3> QED
      BY <3>1, FS_CardinalityType DEF RaceInv, SemaphoreCountsMessages
  <2>2. CASE u = v
    <3>1. queue'[u] = q /\ ReadSemaphore'[u] = n
      BY <1>6, <2>2 DEF RaceInv, TypeOK
    <3>2. Len(q) \in Nat
      OBVIOUS
    <3>3. PICK k \in Nat : k = Cardinality(Waiting(u)) /\ k = Cardinality(Waiting(u)')
      BY <1>3, <2>1
    <3>4. ReadSemaphore[v] + k = Len(queue[v])
      BY <2>1, <2>2, <3>3
    <3>5. n + k = Len(q)
      BY <1>5, <1>6, <3>2, <3>4
    <3> QED
      BY <3>1, <3>3, <3>5
  <2>3. CASE u /= v
    <3>1. queue'[u] = queue[u] /\ ReadSemaphore'[u] = ReadSemaphore[u]
      BY <1>6, <2>3 DEF RaceInv, TypeOK
    <3> QED
      BY <1>3, <2>1, <3>1
  <2> QED
    BY <2>2, <2>3
<1>8. ClaimsOk'
  BY <1>2, <1>3, <1>4, ClaimsKept DEF RaceInv, poolVars
<1>9. SlotsOk'
  BY <1>2, <1>3, <1>4 DEF RaceInv, SlotsOk, TypeOK, PushingPc
<1>10. TypeOK'
  <2>1. queue' \in [Vc -> Seq(Buffer)] /\ ReadSemaphore' \in [Vc -> Nat] /\ slot' \in [Senders -> 0 .. NumberOfVcs]
    <3>1. queue' \in [Vc -> Seq(Buffer)]
      BY <1>6 DEF RaceInv, TypeOK
    <3>2. ReadSemaphore' \in [Vc -> Nat]
      BY <1>6 DEF RaceInv, TypeOK
    <3>3. slot' \in [Senders -> 0 .. NumberOfVcs]
      BY <1>2, <1>5 DEF RaceInv, TypeOK
    <3> QED
      BY <3>1, <3>2, <3>3
  <2> QED
    BY <1>2, <2>1 DEF RaceInv, TypeOK, SenderStates, SenderPc
<1> QED
  BY <1>7, <1>8, <1>9, <1>10 DEF RaceInv

(* A receiver that passes the read semaphore counts as waiting until it takes  *)
(* its message out, and never waits in vain.                                   *)
LEMMA ReceiveKeepsRaceInv ==
  ASSUME RaceInv, NEW r \in Receivers, receive(r)
  PROVE  RaceInv'
<1>1. PICK v \in Vc : VcOf[r] = v
  BY ThreadsAssumption
<1>2. r \in Thread /\ \A s \in Senders : s \in Thread /\ s /= r
  BY ThreadsAssumption DEF Thread
<1>3. PICK to \in ReceiverStates : pc' = [pc EXCEPT ![r] = to]
  BY DEF receive, ReceiveWait, ReceivePop, ReceiveUnlock, Goto, ReceiverStates
<1>4. \A t \in Thread : pc'[t] = IF t = r THEN to ELSE pc[t]
  BY <1>3 DEF RaceInv, TypeOK
<1>5. UNCHANGED <<content, written, ActionSemaphore, slot>>
  BY DEF receive, ReceiveWait, ReceivePop, ReceiveUnlock, msgVars
<1>6. SlotsOk'
  BY <1>2, <1>4, <1>5 DEF RaceInv, SlotsOk
<1>7. \A u \in Vc : IsFiniteSet(Waiting(u)) /\ Cardinality(Waiting(u)) \in Nat
                   /\ ReadSemaphore[u] + Cardinality(Waiting(u)) = Len(queue[u])
  <2>1. \A u \in Vc : IsFiniteSet(Waiting(u))
    BY FS_Subset, ThreadsAssumption DEF Waiting
  <2> QED
    BY <2>1, FS_CardinalityType DEF RaceInv, SemaphoreCountsMessages
<1>8. \A u \in Vc : u /= v => Waiting(u)' = Waiting(u)
  BY <1>1, <1>2, <1>4 DEF Waiting, Thread
<1>9. /\ queue \in [Vc -> Seq(Buffer)] /\ ReadSemaphore \in [Vc -> Nat]
      /\ queue[v] \in Seq(Buffer) /\ Len(queue[v]) \in Nat /\ ReadSemaphore[v] \in Nat
      /\ pc \in [Thread -> SenderStates \cup ReceiverStates]
  BY DEF RaceInv, TypeOK
<1>10. CASE ReceiveWait(r)
  <2>1. /\ pc[r] = "idle" /\ to = "pop" /\ ReadSemaphore[v] > 0
        /\ ReadSemaphore' = [ReadSemaphore EXCEPT ![v] = ReadSemaphore[v] - 1]
        /\ UNCHANGED <<UsageCount, FreeBuffersQueue, queue, delivered, buf>>
    BY <1>1, <1>2, <1>3, <1>4, <1>9, <1>10 DEF ReceiveWait, Goto, poolVars
  <2>2. Waiting(v)' = Waiting(v) \cup {r} /\ r \notin Waiting(v)
    BY <1>1, <1>2, <1>4, <2>1 DEF Waiting, Thread
  <2>3. Cardinality(Waiting(v) \cup {r}) = Cardinality(Waiting(v)) + 1
    BY <1>7, <2>2, FS_AddElement
  <2>4. SemaphoreCountsMessages'
    <3> SUFFICES ASSUME NEW u \in Vc PROVE ReadSemaphore'[u] + Cardinality(Waiting(u)') = Len(queue'[u])
      BY DEF SemaphoreCountsMessages
    <3>1. CASE u = v
      <4>1. ReadSemaphore'[u] = ReadSemaphore[v] - 1
        BY <1>9, <2>1, <3>1
      <4>2. PICK k \in Nat : k = Cardinality(Waiting(v)) /\ k + 1 = Cardinality(Waiting(v)')
        BY <1>7, <2>2, <2>3
      <4>3. ReadSemaphore[v] + k = Len(queue[v]) /\ (ReadSemaphore[v] - 1) + (k + 1) = ReadSemaphore[v] + k
        BY <1>7, <1>9, <4>2
      <4> QED
        BY <2>1, <3>1, <4>1, <4>2, <4>3
    <3>2. CASE u /= v
      BY <1>7, <1>8, <1>9, <2>1, <3>2
    <3> QED
      BY <3>1, <3>2
  <2>5. ClaimsOk'
    BY <1>2, <1>4, <2>1, ClaimsKept DEF RaceInv, poolVars
  <2>6. TypeOK'
    <3>1. ReadSemaphore' \in [Vc -> Nat]
      BY <1>9, <2>1
    <3> QED
      BY <1>3, <1>5, <2>1, <3>1 DEF RaceInv, TypeOK
  <2> QED
    BY <1>6, <2>4, <2>5, <2>6 DEF RaceInv
<1>11. CASE ReceivePop(r)
  <2>1. /\ pc[r] = "pop" /\ to = "reading"
        /\ queue' = [queue EXCEPT ![v] = Left(v, queue[v])]
        /\ buf' = [buf EXCEPT ![r] = Taken(v, queue[v])]
        /\ delivered' = [delivered EXCEPT ![v] = Append(delivered[v], content[Taken(v, queue[v])])]
        /\ UNCHANGED <<UsageCount, FreeBuffersQueue, ReadSemaphore>>
    BY <1>1, <1>2, <1>3, <1>4, <1>9, <1>11 DEF ReceivePop, Goto, poolVars
  <2>2. Waiting(v)' = Waiting(v) \ {r} /\ r \in Waiting(v)
    BY <1>1, <1>2, <1>4, <2>1 DEF Waiting, Thread
  <2>3. Cardinality(Waiting(v) \ {r}) = Cardinality(Waiting(v)) - 1 /\ IsFiniteSet(Waiting(v) \ {r})
    BY <1>7, <2>2, FS_RemoveElement
  <2>4. Cardinality(Waiting(v) \ {r}) \in Nat
    BY <2>3, FS_CardinalityType
  <2>5. queue[v] /= <<>>
    BY <1>7, <1>9, <2>3, <2>4
  <2>6. PICK b \in Buffer, q \in Seq(Buffer) :
           b = Taken(v, queue[v]) /\ q = Left(v, queue[v]) /\ Len(q) = Len(queue[v]) - 1
    BY <1>9, <2>5, TakenSplits DEF Splits
  <2>7. SemaphoreCountsMessages'
    <3> SUFFICES ASSUME NEW u \in Vc PROVE ReadSemaphore'[u] + Cardinality(Waiting(u)') = Len(queue'[u])
      BY DEF SemaphoreCountsMessages
    <3>1. CASE u = v
      <4>1. queue'[u] = q
        BY <1>9, <2>1, <2>6, <3>1
      <4>2. PICK k \in Nat : k = Cardinality(Waiting(v)) /\ k - 1 = Cardinality(Waiting(v)')
        BY <1>7, <2>2, <2>3
      <4>3. ReadSemaphore[v] + k = Len(queue[v]) /\ ReadSemaphore[v] + (k - 1) = (ReadSemaphore[v] + k) - 1
        BY <1>7, <1>9, <4>2
      <4> QED
        BY <2>1, <2>6, <3>1, <4>1, <4>2, <4>3
    <3>2. CASE u /= v
      BY <1>7, <1>8, <1>9, <2>1, <3>2
    <3> QED
      BY <3>1, <3>2
  <2>8. ClaimsOk'
    <3>1. \A s \in Senders : buf'[s] = buf[s] /\ pc'[s] = pc[s]
      BY <1>2, <1>4, <2>1 DEF RaceInv, TypeOK
    <3> QED
      BY <2>1, <3>1 DEF RaceInv, ClaimsOk, Distinct, Elements
  <2>9. TypeOK'
    <3>1. content[b] \in Nat /\ delivered[v] \in Seq(Nat)
      BY DEF RaceInv, TypeOK
    <3>2. Append(delivered[v], content[b]) \in Seq(Nat)
      BY <3>1
    <3>3. delivered' \in [Vc -> Seq(Nat)]
      BY <2>1, <2>6, <3>2 DEF RaceInv, TypeOK
    <3>4. queue' \in [Vc -> Seq(Buffer)] /\ buf' \in [Thread -> Buffer]
      BY <2>1, <2>6 DEF RaceInv, TypeOK
    <3> QED
      BY <1>3, <1>5, <2>1, <3>3, <3>4 DEF RaceInv, TypeOK
  <2> QED
    BY <1>6, <2>7, <2>8, <2>9 DEF RaceInv
<1>12. CASE ReceiveUnlock(r)
  <2>1. PICK b \in Buffer : buf[r] = b
    BY <1>2 DEF RaceInv, TypeOK
  <2>2. /\ pc[r] = "reading" /\ to = "idle" /\ releaseBuffer(b)
        /\ UNCHANGED <<queue, ReadSemaphore, delivered, buf>>
    BY <1>2, <1>3, <1>4, <1>9, <1>12, <2>1 DEF ReceiveUnlock, Goto, queueVars
  <2>3. ClaimsOk' /\ UsageCount' \in [Buffer -> Nat] /\ FreeBuffersQueue' \in Seq(Buffer)
    BY <1>2, <1>4, <2>2, ReleaseKeepsClaims DEF RaceInv
  <2>4. Waiting(v)' = Waiting(v)
    BY <1>2, <1>4, <2>2 DEF Waiting, Thread
  <2>5. SemaphoreCountsMessages'
    BY <1>8, <2>2, <2>4 DEF RaceInv, SemaphoreCountsMessages
  <2>6. TypeOK'
    BY <1>3, <1>5, <2>2, <2>3 DEF RaceInv, TypeOK
  <2> QED
    BY <1>6, <2>3, <2>5, <2>6 DEF RaceInv
<1> QED
  BY <1>10, <1>11, <1>12 DEF receive

LEMMA InitEstablishesRaceInv == Init => RaceInv
<1> SUFFICES ASSUME Init PROVE RaceInv
  OBVIOUS
<1>1. IInv
  BY InitEstablishesIInv
<1>2. pc = [t \in Thread |-> "idle"] /\ UsageCount = [b \in Buffer |-> 0]
  BY DEF Init
<1>3. Elements(FreeBuffersQueue) \subseteq Buffer
  <2>1. FreeBuffersQueue \in Seq(Buffer)
    BY <1>1 DEF IInv, TypeOK
  <2> QED
    BY <2>1 DEF Elements
<1>4. \A s \in Senders : pc[s] = "idle"
  BY <1>2 DEF Thread
<1> QED
  BY <1>1, <1>2, <1>3, <1>4 DEF IInv, AccountOk, RaceInv, ClaimsOk, SlotsOk, PushingPc

(* Also where queues overwrite and senders time out: the read semaphores count *)
(* the messages of their queues, and a sender that claims a buffer finds it    *)
(* unused (popBuffer, SharedCyclicQueue::push, claimFreeBuffer).               *)
THEOREM OverwritingStaysSafe == Spec => [](SemaphoreCountsMessages /\ ClaimedBufferUnused)
<1>1. RaceInv /\ [Next]_vars => RaceInv'
  <2> SUFFICES ASSUME RaceInv, [Next]_vars PROVE RaceInv'
    OBVIOUS
  <2>1. CASE UNCHANGED vars
    <3>1. UNCHANGED <<UsageCount, FreeBuffersQueue, queue, ReadSemaphore, delivered, content, written,
                      ActionSemaphore, pc, buf, slot>>
      BY <2>1 DEF vars, poolVars, queueVars, msgVars
    <3>2. TypeOK' /\ SlotsOk'
      BY <3>1 DEF RaceInv, TypeOK, SlotsOk
    <3>3. SemaphoreCountsMessages'
      BY <3>1 DEF RaceInv, SemaphoreCountsMessages, Waiting
    <3>4. ClaimsOk'
      BY <3>1, ClaimsKept DEF RaceInv, poolVars
    <3> QED
      BY <3>2, <3>3, <3>4 DEF RaceInv
  <2>2. ASSUME NEW s \in Senders, claimFreeBuffer(s) \/ Refused(s) \/ Fill(s) \/ GiveUp(s) \/ sendBuffer(s)
        PROVE  RaceInv'
    <3>1. \/ RestingStep(s) \/ ReleasingStep(s) \/ ClaimPop(s) \/ ClaimSet(s) \/ PushClaim(s) \/ PushStore(s)
      BY <2>2 DEF RestingStep, QuietStep, ReleasingStep, claimFreeBuffer, sendBuffer, obtainAction, pushBuffer
    <3> QED
      BY <3>1, RestingKeepsRaceInv, ReleasingKeepsRaceInv, ClaimPopKeepsRaceInv, ClaimSetKeepsRaceInv,
         PushClaimKeepsRaceInv, PushStoreKeepsRaceInv
  <2> QED
    BY <2>1, <2>2, ReceiveKeepsRaceInv DEF Next
<1>2. RaceInv => SemaphoreCountsMessages /\ ClaimedBufferUnused
  BY DEF RaceInv, ClaimsOk, ClaimedBufferUnused
<1> QED
  BY <1>1, <1>2, InitEstablishesRaceInv, PTL DEF Spec

-------------------------------------------------------------------------------
(* What a step does to the users of the buffers. *)

\* Nobody but the users of b changes.
OthersKeep(b) ==
  \A c \in Buffer \ {b} :
    /\ SenderOwners(c)' = SenderOwners(c) /\ PushOwners(c)' = PushOwners(c)
    /\ QueueOwners(c)' = QueueOwners(c) /\ ReadOwners(c)' = ReadOwners(c)

(* A sender goes on with the buffer it has.                                      *)
LEMMA SenderMoves ==
  ASSUME TypeOK, NEW s \in Senders, NEW b \in Buffer, buf[s] = b,
         NEW to, pc' = [pc EXCEPT ![s] = to], UNCHANGED <<buf, queue>>
  PROVE  /\ OthersKeep(b) /\ QueueOwners(b)' = QueueOwners(b) /\ ReadOwners(b)' = ReadOwners(b)
         /\ SenderOwners(b)' = IF to \in SenderPc THEN SenderOwners(b) \cup {s} ELSE SenderOwners(b) \ {s}
         /\ PushOwners(b)' = IF to \in PushingPc THEN PushOwners(b) \cup {s} ELSE PushOwners(b) \ {s}
<1>1. /\ pc'[s] = to /\ \A t \in Senders \ {s} : pc'[t] = pc[t]
      /\ \A r \in Receivers : pc'[r] = pc[r]
  BY ThreadsAssumption DEF TypeOK, Thread
<1>2. \A c \in Buffer : QueueOwners(c)' = QueueOwners(c)
  BY DEF QueueOwners, Elements
<1>3. \A c \in Buffer : ReadOwners(c)' = ReadOwners(c)
  BY <1>1 DEF ReadOwners
<1>4. \A c \in Buffer \ {b} : SenderOwners(c)' = SenderOwners(c) /\ PushOwners(c)' = PushOwners(c)
  BY <1>1 DEF SenderOwners, PushOwners
<1>5. SenderOwners(b)' = IF to \in SenderPc THEN SenderOwners(b) \cup {s} ELSE SenderOwners(b) \ {s}
  BY <1>1 DEF SenderOwners
<1>6. PushOwners(b)' = IF to \in PushingPc THEN PushOwners(b) \cup {s} ELSE PushOwners(b) \ {s}
  BY <1>1 DEF PushOwners
<1> QED
  BY <1>2, <1>3, <1>4, <1>5, <1>6 DEF OthersKeep

(* The owners are the users with their kind.                                      *)
LEMMA OwnersNamed ==
  ASSUME NEW b
  PROVE  /\ Owners(b) = Named(SenderOwners(b), PushOwners(b), QueueOwners(b), ReadOwners(b))
         /\ Owners(b)' = Named(SenderOwners(b)', PushOwners(b)', QueueOwners(b)', ReadOwners(b)')
<1>1. Owners(b) = Named(SenderOwners(b), PushOwners(b), QueueOwners(b), ReadOwners(b))
  BY DEF Owners, Named
<1>2. Owners(b)' = Named(SenderOwners(b)', PushOwners(b)', QueueOwners(b)', ReadOwners(b)')
  BY DEF Owners, Named
<1> QED
  BY <1>1, <1>2

(* One owner more, one less, or one for another.                                  *)
LEMMA OwnerChanges ==
  ASSUME NEW b
  PROVE  /\ \A e : /\ <<"sender", e>> \in Owners(b) <=> e \in SenderOwners(b)
                   /\ <<"push", e>> \in Owners(b) <=> e \in PushOwners(b)
                   /\ <<"queue", e>> \in Owners(b) <=> e \in QueueOwners(b)
                   /\ <<"reader", e>> \in Owners(b) <=> e \in ReadOwners(b)
         /\ \A s : /\ SenderOwners(b)' = SenderOwners(b) \ {s} /\ PushOwners(b)' = PushOwners(b)
                   /\ QueueOwners(b)' = QueueOwners(b) /\ ReadOwners(b)' = ReadOwners(b)
                   => Owners(b)' = Owners(b) \ {<<"sender", s>>}
         /\ \A s : /\ SenderOwners(b)' = SenderOwners(b) /\ PushOwners(b)' = PushOwners(b) \cup {s}
                   /\ QueueOwners(b)' = QueueOwners(b) /\ ReadOwners(b)' = ReadOwners(b)
                   => Owners(b)' = Owners(b) \cup {<<"push", s>>}
         /\ \A s, v : /\ SenderOwners(b)' = SenderOwners(b) /\ PushOwners(b)' = PushOwners(b) \ {s}
                      /\ QueueOwners(b)' = QueueOwners(b) \cup {v} /\ ReadOwners(b)' = ReadOwners(b)
                      => Owners(b)' = (Owners(b) \ {<<"push", s>>}) \cup {<<"queue", v>>}
         /\ \A r : /\ SenderOwners(b)' = SenderOwners(b) /\ PushOwners(b)' = PushOwners(b)
                   /\ QueueOwners(b)' = QueueOwners(b) /\ ReadOwners(b)' = ReadOwners(b) \ {r}
                   => Owners(b)' = Owners(b) \ {<<"reader", r>>}
<1>1. PICK S \in SUBSET Senders, P \in SUBSET Senders, Q \in SUBSET Vc, R \in SUBSET Receivers :
        /\ S = SenderOwners(b) /\ P = PushOwners(b) /\ Q = QueueOwners(b) /\ R = ReadOwners(b)
  BY UserTypes
<1>2. Owners(b) = Named(S, P, Q, R)
  BY <1>1, OwnersNamed
<1>3. Owners(b)' = Named(SenderOwners(b)', PushOwners(b)', QueueOwners(b)', ReadOwners(b)')
  BY OwnersNamed
<1>4. ASSUME NEW e
      PROVE  /\ <<"sender", e>> \in Owners(b) <=> e \in SenderOwners(b)
             /\ <<"push", e>> \in Owners(b) <=> e \in PushOwners(b)
             /\ <<"queue", e>> \in Owners(b) <=> e \in QueueOwners(b)
             /\ <<"reader", e>> \in Owners(b) <=> e \in ReadOwners(b)
  <2>1. /\ <<"sender", e>> \in Named(S, P, Q, R) <=> e \in S
        /\ <<"push", e>> \in Named(S, P, Q, R) <=> e \in P
        /\ <<"queue", e>> \in Named(S, P, Q, R) <=> e \in Q
        /\ <<"reader", e>> \in Named(S, P, Q, R) <=> e \in R
    BY DEF Named
  <2> QED
    BY <1>1, <1>2, <2>1
<1>5. \A s : /\ SenderOwners(b)' = SenderOwners(b) \ {s} /\ PushOwners(b)' = PushOwners(b)
            /\ QueueOwners(b)' = QueueOwners(b) /\ ReadOwners(b)' = ReadOwners(b)
            => Owners(b)' = Owners(b) \ {<<"sender", s>>}
  <2>1. \A s : Named(S \ {s}, P, Q, R) = Named(S, P, Q, R) \ {<<"sender", s>>}
    BY DEF Named
  <2> QED
    BY <1>1, <1>2, <1>3, <2>1
<1>6. \A s : /\ SenderOwners(b)' = SenderOwners(b) /\ PushOwners(b)' = PushOwners(b) \cup {s}
            /\ QueueOwners(b)' = QueueOwners(b) /\ ReadOwners(b)' = ReadOwners(b)
            => Owners(b)' = Owners(b) \cup {<<"push", s>>}
  <2>1. \A s : Named(S, P \cup {s}, Q, R) = Named(S, P, Q, R) \cup {<<"push", s>>}
    BY DEF Named
  <2> QED
    BY <1>1, <1>2, <1>3, <2>1
<1>7. \A s, v : /\ SenderOwners(b)' = SenderOwners(b) /\ PushOwners(b)' = PushOwners(b) \ {s}
               /\ QueueOwners(b)' = QueueOwners(b) \cup {v} /\ ReadOwners(b)' = ReadOwners(b)
               => Owners(b)' = (Owners(b) \ {<<"push", s>>}) \cup {<<"queue", v>>}
  <2>1. \A s, v : Named(S, P \ {s}, Q \cup {v}, R)
                  = (Named(S, P, Q, R) \ {<<"push", s>>}) \cup {<<"queue", v>>}
    BY DEF Named
  <2> QED
    BY <1>1, <1>2, <1>3, <2>1, SMTT(30)
<1>8. \A r : /\ SenderOwners(b)' = SenderOwners(b) /\ PushOwners(b)' = PushOwners(b)
            /\ QueueOwners(b)' = QueueOwners(b) /\ ReadOwners(b)' = ReadOwners(b) \ {r}
            => Owners(b)' = Owners(b) \ {<<"reader", r>>}
  <2>1. \A r : Named(S, P, Q, R \ {r}) = Named(S, P, Q, R) \ {<<"reader", r>>}
    BY DEF Named
  <2> QED
    BY <1>1, <1>2, <1>3, <2>1
<1> QED
  BY <1>4, <1>5, <1>6, <1>7, <1>8

\* Queue v hands b to reader r.
Handed(b, v, r) ==
  /\ SenderOwners(b)' = SenderOwners(b) /\ PushOwners(b)' = PushOwners(b)
  /\ QueueOwners(b)' = QueueOwners(b) \ {v} /\ ReadOwners(b)' = ReadOwners(b) \cup {r}

LEMMA OwnerPasses ==
  ASSUME NEW b, NEW v, NEW r, Handed(b, v, r)
  PROVE  Owners(b)' = (Owners(b) \ {<<"queue", v>>}) \cup {<<"reader", r>>}
<1>1. PICK S \in SUBSET Senders, P \in SUBSET Senders, Q \in SUBSET Vc, R \in SUBSET Receivers :
        /\ S = SenderOwners(b) /\ P = PushOwners(b) /\ Q = QueueOwners(b) /\ R = ReadOwners(b)
  BY UserTypes
<1>2. Owners(b) = Named(S, P, Q, R) /\ Owners(b)' = Named(S, P, Q \ {v}, R \cup {r})
  BY <1>1, OwnersNamed DEF Handed
<1>3. Named(S, P, Q \ {v}, R \cup {r})
        = (Named(S, P, Q, R) \ {<<"queue", v>>}) \cup {<<"reader", r>>}
  BY DEF Named
<1> QED
  BY <1>2, <1>3

(* The owners of all buffers change as the owners of one do.                     *)
LEMMA OwnersChange ==
  ASSUME NEW b \in Buffer, OthersKeep(b)
  PROVE  [c \in Buffer |-> Owners(c)]' = [[c \in Buffer |-> Owners(c)] EXCEPT ![b] = Owners(b)']
<1>1. \A c \in Buffer \ {b} : Owners(c)' = Owners(c)
  BY OwnersNamed DEF OthersKeep
<1>2. [c \in Buffer |-> Owners(c)]' = [c \in Buffer |-> Owners(c)']
  OBVIOUS
<1> QED
  BY <1>1, <1>2

-------------------------------------------------------------------------------
(* A buffer that is written has one user.                                        *)

LockedAlone == \A s \in Senders : pc[s] = "locked" => ReadOwners(buf[s]) = {}

LEMMA InitEstablishesLockedAlone == Init => LockedAlone
  BY DEF Init, LockedAlone, Thread

(* Only the queues pass buffers to readers, and no queue has a locked one.       *)
LEMMA NextPreservesLockedAlone ==
  ASSUME IInv, LockedAlone, [Next]_vars
  PROVE  LockedAlone'
<1>0. /\ pc \in [Thread -> SenderStates \cup ReceiverStates] /\ buf \in [Thread -> Buffer]
      /\ Thread = Senders \cup Receivers /\ Senders \cap Receivers = {}
  BY ThreadsAssumption DEF IInv, TypeOK, Thread
<1>1. ASSUME NEW s \in Senders, ClaimSet(s)
      PROVE  LockedAlone'
  <2>1. PICK b \in Buffer : buf[s] = b
    BY <1>0
  <2>2. pc[s] = "setCount" /\ pc' = [pc EXCEPT ![s] = "locked"] /\ UNCHANGED <<buf, queue>>
    BY <1>1 DEF ClaimSet, Goto, queueVars
  <2>3. ReadOwners(b)' = ReadOwners(b) /\ \A c \in Buffer \ {b} : ReadOwners(c)' = ReadOwners(c)
    BY <2>1, <2>2, SenderMoves DEF IInv, OthersKeep
  <2>4. ReadOwners(b) = {}
    <3>1. Users(b) = 0
      BY <2>1, <2>2 DEF IInv, AccountOk, BeingClaimed
    <3> QED
      BY <3>1, UserCounts
  <2>5. \A t \in Senders \ {s} : pc'[t] = pc[t]
    BY <1>0, <2>2
  <2> SUFFICES ASSUME NEW t \in Senders, pc'[t] = "locked" PROVE ReadOwners(buf[t])' = {}
    BY DEF LockedAlone
  <2>6. PICK c \in Buffer : buf[t] = c
    BY <1>0
  <2>7. ReadOwners(c)' = {}
    BY <2>1, <2>3, <2>4, <2>5, <2>6 DEF LockedAlone
  <2> QED
    BY <2>2, <2>6, <2>7
<1>2. ASSUME NEW r \in Receivers, ReceivePop(r)
      PROVE  LockedAlone'
  <2>1. PICK v \in Vc : VcOf[r] = v
    BY ThreadsAssumption
  <2>2. queue[v] \in Seq(Buffer) /\ queue[v] /= <<>>
    BY <1>2, <2>1, PoppedQueueHasMessage
  <2>3. PICK b \in Buffer : b = Taken(v, queue[v]) /\ b \in Elements(queue[v])
    BY <2>2, TakenSplits DEF Splits
  <2>4. buf' = [buf EXCEPT ![r] = b] /\ pc[r] = "pop" /\ pc' = [pc EXCEPT ![r] = "reading"]
    BY <1>2, <2>1, <2>3 DEF ReceivePop, Goto
  <2>5. \A t \in Senders : pc'[t] = pc[t] /\ buf'[t] = buf[t]
    BY <1>0, <2>4
  <2>6. \A t \in Senders : pc[t] = "locked" => buf[t] /= b
    BY <2>3 DEF IInv, SendingOk
  <2>7. \A c \in Buffer \ {b} : ReadOwners(c)' = ReadOwners(c)
    <3>1. /\ \A u \in Receivers \ {r} : pc'[u] = pc[u] /\ buf'[u] = buf[u]
          /\ pc'[r] = "reading" /\ buf'[r] = b
      BY <1>0, <2>4
    <3> QED
      BY <2>4, <3>1 DEF ReadOwners
  <2> SUFFICES ASSUME NEW t \in Senders, pc'[t] = "locked" PROVE ReadOwners(buf[t])' = {}
    BY DEF LockedAlone
  <2>8. PICK c \in Buffer : buf[t] = c
    BY <1>0
  <2>9. ReadOwners(c)' = {}
    BY <2>5, <2>6, <2>7, <2>8 DEF LockedAlone
  <2> QED
    BY <2>5, <2>8, <2>9
<1>3. ASSUME NEW t \in Thread, \A u \in Thread \ {t} : pc'[u] = pc[u] /\ buf'[u] = buf[u],
             pc'[t] \notin {"locked", "reading"}
      PROVE  LockedAlone'
  <2>1. \A c \in Buffer : ReadOwners(c)' \subseteq ReadOwners(c)
    BY <1>0, <1>3 DEF ReadOwners
  <2> SUFFICES ASSUME NEW u \in Senders, pc'[u] = "locked" PROVE ReadOwners(buf[u])' = {}
    BY DEF LockedAlone
  <2>2. u \in Thread \ {t}
    BY <1>0, <1>3
  <2>3. PICK c \in Buffer : buf[u] = c
    BY <1>0
  <2>4. ReadOwners(c) = {}
    BY <1>3, <2>2, <2>3 DEF LockedAlone
  <2>5. ReadOwners(c)' = {}
    BY <2>1, <2>4
  <2> QED
    BY <1>3, <2>2, <2>3, <2>5
<1>4. ASSUME NEW s \in Senders, ~ClaimSet(s),
             claimFreeBuffer(s) \/ Refused(s) \/ Fill(s) \/ GiveUp(s) \/ sendBuffer(s)
      PROVE  LockedAlone'
  <2>1. /\ \A u \in Thread \ {s} : pc'[u] = pc[u] /\ buf'[u] = buf[u]
        /\ pc'[s] \notin {"locked", "reading"} /\ s \in Thread
    <3>1. CASE claimFreeBuffer(s) \/ Refused(s) \/ Fill(s) \/ GiveUp(s)
      BY <1>0, <1>4, <3>1 DEF claimFreeBuffer, ClaimTest, ClaimPop, Refused, Fill, GiveUp, Goto
    <3>2. CASE obtainAction(s) \/ CellTimeout(s) \/ StartPushing(s)
      BY <1>0, <3>2 DEF obtainAction, SendEnter, SendNotLocked, EnterTimeout, CellTimeout, StartPushing, Goto, AfterFailure
    <3>3. CASE WaitForFreeCells(s)
      BY <1>0, <3>3 DEF WaitForFreeCells
    <3>4. CASE pushBuffer(s) \/ SendRelease(s) \/ SendLeave(s)
      BY <1>0, <3>4 DEF pushBuffer, PushClaim, PushFails, PushUndo, PushOverwrite, PushStore, SendRelease, SendLeave,
             Goto, AfterFailure
    <3> QED
      BY <1>4, <3>1, <3>2, <3>3, <3>4 DEF sendBuffer
  <2> QED
    BY <1>3, <2>1
<1>5. ASSUME NEW r \in Receivers, ReceiveWait(r) \/ ReceiveUnlock(r)
      PROVE  LockedAlone'
  <2>1. /\ \A u \in Thread \ {r} : pc'[u] = pc[u] /\ buf'[u] = buf[u]
        /\ pc'[r] \notin {"locked", "reading"} /\ r \in Thread
    BY <1>0, <1>5 DEF ReceiveWait, ReceiveUnlock, Goto
  <2> QED
    BY <1>3, <2>1
<1>6. CASE UNCHANGED vars
  BY <1>6 DEF vars, LockedAlone, ReadOwners
<1> QED
  BY <1>1, <1>2, <1>4, <1>5, <1>6 DEF Next, claimFreeBuffer, receive

-------------------------------------------------------------------------------
(* Every step is one of the promised ones, or changes neither owners nor contents. *)

Owned == [b \in Buffer |-> Owners(b)]
AnOwner == ({"sender", "push"} \X Senders) \cup ({"queue"} \X Vc) \cup ({"reader"} \X Receivers)

LEMMA KeptOwnersStep ==
  ASSUME \A c \in Buffer : Owners(c)' = Owners(c), UNCHANGED content
  PROVE  UNCHANGED Ownership!vars
<1>1. Owned' = [c \in Buffer |-> Owners(c)']
  BY DEF Owned
<1>2. Owned' = Owned
  BY <1>1 DEF Owned
<1> QED
  BY <1>2 DEF Ownership!vars, Owned

(* A step that changes the owners of one buffer, as one of the promised steps says. *)
LEMMA OwnerStep ==
  ASSUME NEW b \in Buffer, OthersKeep(b), UNCHANGED content,
         NEW o \in AnOwner, NEW p \in AnOwner,
         \/ Owners(b) = {} /\ Owners(b)' = {o}
         \/ Owners(b) /= {} /\ o \notin Owners(b) /\ Owners(b)' = Owners(b) \cup {o}
         \/ o \in Owners(b) /\ Owners(b)' = Owners(b) \ {o}
         \/ o \in Owners(b) /\ p \notin Owners(b) /\ Owners(b)' = (Owners(b) \ {o}) \cup {p}
  PROVE  Ownership!Next
<1>1. Owned' = [Owned EXCEPT ![b] = Owners(b)'] /\ Owned[b] = Owners(b)
  BY OwnersChange DEF Owned
<1>2. \/ Ownership!Claim(b, o)
      \/ Ownership!Share(b, o)
      \/ o \in Owned[b] /\ Ownership!Drop(b, o)
      \/ o \in Owned[b] /\ Ownership!Pass(b, o, p)
  BY <1>1 DEF Ownership!Claim, Ownership!Share, Ownership!Drop, Ownership!Pass, Owned
<1> QED
  BY <1>2 DEF Ownership!Next, Owned, AnOwner

LEMMA OwnerTypes ==
  /\ \A s \in Senders : <<"sender", s>> \in AnOwner /\ <<"push", s>> \in AnOwner
  /\ \A v \in Vc : <<"queue", v>> \in AnOwner
  /\ \A r \in Receivers : <<"reader", r>> \in AnOwner
  BY DEF AnOwner

(* The sender that claims a buffer is its owner.                                 *)
LEMMA ClaimSetIsClaim ==
  ASSUME IInv, NEW s \in Senders, ClaimSet(s)
  PROVE  Ownership!Next
<1>1. PICK b \in Buffer : buf[s] = b
  BY DEF IInv, TypeOK, Thread
<1>2. pc[s] = "setCount" /\ pc' = [pc EXCEPT ![s] = "locked"] /\ UNCHANGED <<buf, queue, content>>
  BY DEF ClaimSet, Goto, queueVars, msgVars
<1>3. /\ OthersKeep(b) /\ QueueOwners(b)' = QueueOwners(b) /\ ReadOwners(b)' = ReadOwners(b)
      /\ SenderOwners(b)' = SenderOwners(b) \cup {s} /\ PushOwners(b)' = PushOwners(b) \ {s}
  BY <1>1, <1>2, SenderMoves DEF IInv, SenderPc, PushingPc
<1>4. SenderOwners(b) = {} /\ PushOwners(b) = {} /\ QueueOwners(b) = {} /\ ReadOwners(b) = {}
  <2>1. Users(b) = 0
    BY <1>1, <1>2 DEF IInv, AccountOk, BeingClaimed
  <2> QED
    BY <2>1, UserCounts
<1>5. Owners(b) = {} /\ Owners(b)' = {<<"sender", s>>}
  <2>1. Named({}, {}, {}, {}) = {} /\ Named({s}, {}, {}, {}) = {<<"sender", s>>}
    BY DEF Named
  <2>2. Owners(b) = Named({}, {}, {}, {})
    BY <1>4, OwnersNamed
  <2>3. SenderOwners(b)' = {s} /\ PushOwners(b)' = {} /\ QueueOwners(b)' = {} /\ ReadOwners(b)' = {}
    BY <1>3, <1>4
  <2>4. Owners(b)' = Named({s}, {}, {}, {})
    BY <2>3, OwnersNamed
  <2> QED
    BY <2>1, <2>2, <2>4
<1> QED
  BY <1>2, <1>3, <1>5, OwnerStep, OwnerTypes

(* Only the owner writes, and it is the only one.                                *)
LEMMA FillIsWrite ==
  ASSUME IInv, LockedAlone, NEW s \in Senders, Fill(s)
  PROVE  Ownership!Next
<1>1. PICK b \in Buffer : buf[s] = b
  BY DEF IInv, TypeOK, Thread
<1>2. /\ pc[s] = "locked" /\ pc' = [pc EXCEPT ![s] = "filled"] /\ UNCHANGED <<buf, queue>>
      /\ written \in Nat /\ written < MaxMessages /\ content' = [content EXCEPT ![b] = written + 1]
  BY <1>1 DEF Fill, Goto, queueVars, IInv, TypeOK
<1>3. /\ OthersKeep(b) /\ QueueOwners(b)' = QueueOwners(b) /\ ReadOwners(b)' = ReadOwners(b)
      /\ SenderOwners(b)' = SenderOwners(b) \cup {s} /\ PushOwners(b)' = PushOwners(b) \ {s}
  BY <1>1, <1>2, SenderMoves DEF IInv, SenderPc, PushingPc
<1>4. SenderOwners(b) = {s} /\ PushOwners(b) = {} /\ QueueOwners(b) = {} /\ ReadOwners(b) = {}
  <2>1. \A t \in Senders : pc[t] \in SenderPc /\ buf[t] = b => t = s
    BY <1>1, <1>2 DEF IInv, HoldersDiffer, HoldingPc, SenderPc
  <2>2. SenderOwners(b) = {s}
    BY <1>1, <1>2, <2>1 DEF SenderOwners, SenderPc
  <2>3. PushOwners(b) = {}
    BY <1>2, <2>1 DEF PushOwners, SenderPc, PushingPc
  <2>4. QueueOwners(b) = {} /\ ReadOwners(b) = {}
    BY <1>1, <1>2 DEF IInv, SendingOk, QueueOwners, LockedAlone
  <2> QED
    BY <2>2, <2>3, <2>4
<1>5. Owners(b) = {<<"sender", s>>}
  <2>1. Owners(b) = Named({s}, {}, {}, {})
    BY <1>4, OwnersNamed
  <2> QED
    BY <2>1 DEF Named
<1>6. Owned' = Owned
  <2>1. Owners(b)' = Owners(b)
    BY <1>3, <1>4, OwnersNamed
  <2>2. Owned' = [Owned EXCEPT ![b] = Owners(b)]
    BY <1>3, <2>1, OwnersChange DEF Owned
  <2> QED
    BY <2>2 DEF Owned
<1>7. written + 1 \in 1 .. MaxMessages
  BY <1>2, SizesAssumption
<1>8. Ownership!Write(b, <<"sender", s>>, written + 1) /\ <<"sender", s>> \in Owned[b]
  BY <1>2, <1>5, <1>6 DEF Ownership!Write, Owned
<1> QED
  BY <1>7, <1>8 DEF Ownership!Next, Owned

(* A sender drops its buffer. *)
LEMMA SenderReleaseIsDrop ==
  ASSUME IInv, NEW s \in Senders, GiveUp(s) \/ SendRelease(s)
  PROVE  Ownership!Next
<1>1. PICK b \in Buffer : buf[s] = b
  BY DEF IInv, TypeOK, Thread
<1>2. PICK to \in {"idle", "leave"} :
        pc[s] \in {"filled", "push"} /\ pc' = [pc EXCEPT ![s] = to] /\ UNCHANGED <<buf, queue, content>>
  BY DEF GiveUp, SendRelease, Goto, queueVars, msgVars
<1>3. /\ OthersKeep(b) /\ QueueOwners(b)' = QueueOwners(b) /\ ReadOwners(b)' = ReadOwners(b)
      /\ SenderOwners(b)' = SenderOwners(b) \ {s} /\ PushOwners(b)' = PushOwners(b) \ {s}
  BY <1>1, <1>2, SenderMoves DEF IInv, SenderPc, PushingPc
<1>4. s \in SenderOwners(b) /\ s \notin PushOwners(b)
  BY <1>1, <1>2 DEF SenderOwners, PushOwners, SenderPc, PushingPc
<1>5. <<"sender", s>> \in Owners(b) /\ Owners(b)' = Owners(b) \ {<<"sender", s>>}
  <2>1. PushOwners(b)' = PushOwners(b)
    BY <1>3, <1>4
  <2> QED
    BY <1>3, <1>4, <2>1, OwnerChanges
<1> QED
  BY <1>2, <1>3, <1>5, OwnerStep, OwnerTypes

(* The reference for the next queue is one more owner.                           *)
LEMMA PushClaimIsShare ==
  ASSUME IInv, NEW s \in Senders, PushClaim(s)
  PROVE  Ownership!Next
<1>1. PICK b \in Buffer : buf[s] = b
  BY DEF IInv, TypeOK, Thread
<1>2. pc[s] = "push" /\ pc' = [pc EXCEPT ![s] = "enqueue"] /\ UNCHANGED <<buf, queue, content>>
  BY DEF PushClaim, Goto, queueVars, msgVars
<1>3. /\ OthersKeep(b) /\ QueueOwners(b)' = QueueOwners(b) /\ ReadOwners(b)' = ReadOwners(b)
      /\ SenderOwners(b)' = SenderOwners(b) \cup {s} /\ PushOwners(b)' = PushOwners(b) \cup {s}
  BY <1>1, <1>2, SenderMoves DEF IInv, SenderPc, PushingPc
<1>4. s \in SenderOwners(b) /\ s \notin PushOwners(b)
  BY <1>1, <1>2 DEF SenderOwners, PushOwners, SenderPc, PushingPc
<1>5. /\ Owners(b) /= {} /\ <<"push", s>> \notin Owners(b)
      /\ Owners(b)' = Owners(b) \cup {<<"push", s>>}
  <2>1. SenderOwners(b)' = SenderOwners(b)
    BY <1>3, <1>4
  <2>2. <<"sender", s>> \in Owners(b) /\ <<"push", s>> \notin Owners(b)
    BY <1>4, OwnerChanges
  <2> QED
    BY <1>3, <2>1, <2>2, OwnerChanges
<1> QED
  BY <1>2, <1>3, <1>5, OwnerStep, OwnerTypes

(* The push's reference becomes the queue's.                                     *)
LEMMA PushStoreIsPass ==
  ASSUME IInv, NEW s \in Senders, PushStore(s)
  PROVE  Ownership!Next
<1>1. PICK b \in Buffer : buf[s] = b
  BY DEF IInv, TypeOK, Thread
<1>2. PICK v \in Vc : slot[s] = v
  BY DEF IInv, PushStore, Goto, SendingOk
<1>3. b \notin Elements(queue[v]) /\ ~IsFull(v)
  BY <1>1, <1>2, RoomToStore DEF PushStore, Goto
<1>4. /\ pc[s] = "store" /\ pc' = [pc EXCEPT ![s] = "push"]
      /\ queue' = [queue EXCEPT ![v] = Append(@, b)] /\ UNCHANGED <<buf, content>>
  BY <1>1, <1>2, <1>3 DEF PushStore, Goto, msgVars
<1>5. /\ Elements(queue'[v]) = Elements(queue[v]) \cup {b}
      /\ \A u \in Vc \ {v} : queue'[u] = queue[u]
  BY <1>3, <1>4, PushStoreAppends
<1>6. /\ pc'[s] = "push" /\ \A t \in Senders \ {s} : pc'[t] = pc[t]
      /\ \A r \in Receivers : pc'[r] = pc[r]
  BY <1>4, ThreadsAssumption DEF IInv, TypeOK, Thread
<1>7. \A c \in Buffer : SenderOwners(c)' = SenderOwners(c) /\ ReadOwners(c)' = ReadOwners(c)
  BY <1>4, <1>6 DEF SenderOwners, ReadOwners, SenderPc
<1>8. \A c \in Buffer \ {b} : PushOwners(c)' = PushOwners(c)
  BY <1>1, <1>4, <1>6 DEF PushOwners
<1>9. s \in PushOwners(b) /\ PushOwners(b)' = PushOwners(b) \ {s}
  BY <1>1, <1>4, <1>6 DEF PushOwners, PushingPc
<1>10. \A c \in Buffer \ {b} : QueueOwners(c)' = QueueOwners(c)
  <2>1. \A c \in Buffer \ {b} : \A u \in Vc : c \in Elements(queue'[u]) <=> c \in Elements(queue[u])
    BY <1>5
  <2> QED
    BY <2>1 DEF QueueOwners
<1>11. v \notin QueueOwners(b) /\ QueueOwners(b)' = QueueOwners(b) \cup {v}
  <2>1. \A u \in Vc : b \in Elements(queue'[u]) <=> b \in Elements(queue[u]) \/ u = v
    BY <1>5
  <2> QED
    BY <1>3, <2>1 DEF QueueOwners
<1>12. /\ <<"push", s>> \in Owners(b) /\ <<"queue", v>> \notin Owners(b)
       /\ Owners(b)' = (Owners(b) \ {<<"push", s>>}) \cup {<<"queue", v>>}
  <2>1. <<"push", s>> \in Owners(b) /\ <<"queue", v>> \notin Owners(b)
    BY <1>9, <1>11, OwnerChanges
  <2>2. Owners(b)' = (Owners(b) \ {<<"push", s>>}) \cup {<<"queue", v>>}
    BY <1>7, <1>9, <1>11, OwnerChanges
  <2> QED
    BY <2>1, <2>2
<1>13. OthersKeep(b)
  BY <1>7, <1>8, <1>10 DEF OthersKeep
<1> QED
  BY <1>4, <1>12, <1>13, OwnerStep, OwnerTypes

(* The queue's reference becomes the reader's.                                   *)
LEMMA ReceivePopIsPass ==
  ASSUME IInv, NEW r \in Receivers, ReceivePop(r)
  PROVE  Ownership!Next
<1>1. PICK v \in Vc : VcOf[r] = v
  BY ThreadsAssumption
<1>2. queue[v] \in Seq(Buffer) /\ queue[v] /= <<>> /\ Distinct(queue[v])
  BY <1>1, PoppedQueueHasMessage
<1>3. PICK b \in Buffer, rest \in Seq(Buffer) : b = Taken(v, queue[v]) /\ rest = Left(v, queue[v])
  BY <1>2, TakenSplits DEF Splits
<1>4. Elements(queue[v]) = Elements(rest) \cup {b} /\ b \notin Elements(rest)
  BY <1>2, <1>3, TakenSplits DEF Splits
<1>5. /\ pc[r] = "pop" /\ pc' = [pc EXCEPT ![r] = "reading"] /\ buf' = [buf EXCEPT ![r] = b]
      /\ queue' = [queue EXCEPT ![v] = rest] /\ UNCHANGED content
  BY <1>1, <1>3 DEF ReceivePop, Goto, msgVars
<1>6. queue'[v] = rest /\ \A u \in Vc \ {v} : queue'[u] = queue[u]
  BY <1>5 DEF IInv, TypeOK
<1>7. /\ pc'[r] = "reading" /\ buf'[r] = b
      /\ \A t \in Receivers \ {r} : pc'[t] = pc[t] /\ buf'[t] = buf[t]
      /\ \A s \in Senders : pc'[s] = pc[s] /\ buf'[s] = buf[s]
  BY <1>5, ThreadsAssumption DEF IInv, TypeOK, Thread
<1>8. \A c \in Buffer : SenderOwners(c)' = SenderOwners(c) /\ PushOwners(c)' = PushOwners(c)
  BY <1>7 DEF SenderOwners, PushOwners
<1>9. \A c \in Buffer \ {b} : ReadOwners(c)' = ReadOwners(c)
  BY <1>5, <1>7 DEF ReadOwners
<1>10. r \notin ReadOwners(b) /\ ReadOwners(b)' = ReadOwners(b) \cup {r}
  BY <1>5, <1>7 DEF ReadOwners
<1>11. \A c \in Buffer \ {b} : QueueOwners(c)' = QueueOwners(c)
  <2>1. \A c \in Buffer \ {b} : \A u \in Vc : c \in Elements(queue'[u]) <=> c \in Elements(queue[u])
    BY <1>4, <1>6
  <2> QED
    BY <2>1 DEF QueueOwners
<1>12. v \in QueueOwners(b) /\ QueueOwners(b)' = QueueOwners(b) \ {v}
  <2>1. \A u \in Vc : b \in Elements(queue'[u]) <=> b \in Elements(queue[u]) /\ u /= v
    BY <1>4, <1>6
  <2> QED
    BY <1>4, <2>1 DEF QueueOwners
<1>13. /\ <<"queue", v>> \in Owners(b) /\ <<"reader", r>> \notin Owners(b)
       /\ Owners(b)' = (Owners(b) \ {<<"queue", v>>}) \cup {<<"reader", r>>}
  <2>1. <<"queue", v>> \in Owners(b) /\ <<"reader", r>> \notin Owners(b)
    BY <1>10, <1>12, OwnerChanges
  <2>2. Handed(b, v, r)
    BY <1>8, <1>10, <1>12 DEF Handed
  <2>3. Owners(b)' = (Owners(b) \ {<<"queue", v>>}) \cup {<<"reader", r>>}
    BY <2>2, OwnerPasses
  <2> QED
    BY <2>1, <2>3
<1>14. OthersKeep(b)
  BY <1>8, <1>9, <1>11 DEF OthersKeep
<1> QED
  BY <1>5, <1>13, <1>14, OwnerStep, OwnerTypes

(* A receiver drops its buffer. *)
LEMMA ReceiveUnlockIsDrop ==
  ASSUME IInv, NEW r \in Receivers, ReceiveUnlock(r)
  PROVE  Ownership!Next
<1>1. PICK b \in Buffer : buf[r] = b
  BY DEF IInv, TypeOK, Thread
<1>2. /\ pc[r] = "reading" /\ pc' = [pc EXCEPT ![r] = "idle"]
      /\ UNCHANGED <<queue, buf, content>>
  BY DEF ReceiveUnlock, Goto, queueVars, msgVars
<1>3. /\ pc'[r] = "idle" /\ \A t \in Receivers \ {r} : pc'[t] = pc[t]
      /\ \A s \in Senders : pc'[s] = pc[s]
  BY <1>2, ThreadsAssumption DEF IInv, TypeOK, Thread
<1>4. \A c \in Buffer : /\ SenderOwners(c)' = SenderOwners(c) /\ PushOwners(c)' = PushOwners(c)
                        /\ QueueOwners(c)' = QueueOwners(c)
  BY <1>2, <1>3 DEF SenderOwners, PushOwners, QueueOwners, Elements
<1>5. \A c \in Buffer \ {b} : ReadOwners(c)' = ReadOwners(c)
  BY <1>1, <1>2, <1>3 DEF ReadOwners
<1>6. r \in ReadOwners(b) /\ ReadOwners(b)' = ReadOwners(b) \ {r}
  BY <1>1, <1>2, <1>3 DEF ReadOwners
<1>7. <<"reader", r>> \in Owners(b) /\ Owners(b)' = Owners(b) \ {<<"reader", r>>}
  <2>1. <<"reader", r>> \in Owners(b)
    BY <1>6, OwnerChanges
  <2>2. Owners(b)' = Owners(b) \ {<<"reader", r>>}
    BY <1>4, <1>6, OwnerChanges
  <2> QED
    BY <2>1, <2>2
<1>8. OthersKeep(b)
  BY <1>4, <1>5 DEF OthersKeep
<1> QED
  BY <1>2, <1>7, <1>8, OwnerStep, OwnerTypes

(* What else a sender does changes neither owners nor contents.                  *)
LEMMA OtherStepsAreQuiet ==
  ASSUME NothingIsLost, IInv, NEW s \in Senders,
         (QuietStep(s) /\ ~Fill(s)) \/ ClaimPop(s) \/ PushOverwrite(s)
  PROVE  UNCHANGED Ownership!vars
<1>1. UNCHANGED <<queue, content>>
  BY DEF QuietStep, ClaimTest, Refused, SendEnter, EnterTimeout, WaitForFreeCells, CellTimeout,
         StartPushing, SendLeave, ClaimPop, PushOverwrite, queueVars, msgVars
<1>2. PICK to : /\ \A t \in Thread \ {s} : pc'[t] = pc[t] /\ buf'[t] = buf[t]
                /\ pc'[s] = to /\ s \in Thread
                /\ to \in SenderPc <=> pc[s] \in SenderPc
                /\ to \in PushingPc <=> pc[s] \in PushingPc
                /\ pc[s] \in SenderPc => buf'[s] = buf[s]
  <2>1. s \in Impatient => AfterFailure(s) = "filled"
    BY DEF NothingIsLost, AfterFailure
  <2>2. pc \in [Thread -> SenderStates \cup ReceiverStates] /\ buf \in [Thread -> Buffer] /\ s \in Thread
    BY DEF IInv, TypeOK, Thread
  <2>3. CASE ClaimTest(s) \/ Refused(s) \/ SendEnter(s) \/ StartPushing(s) \/ SendLeave(s) \/ ClaimPop(s)
    BY <2>2, <2>3 DEF ClaimTest, Refused, SendEnter, StartPushing, SendLeave, ClaimPop, Goto, SenderPc, PushingPc
  <2>4. CASE EnterTimeout(s) \/ CellTimeout(s)
    BY <2>1, <2>2, <2>4 DEF EnterTimeout, CellTimeout, Goto, SenderPc, PushingPc
  <2>5. CASE WaitForFreeCells(s) \/ PushOverwrite(s)
    BY <2>2, <2>5 DEF WaitForFreeCells, PushOverwrite, Goto, SenderPc, PushingPc
  <2> QED
    BY <2>3, <2>4, <2>5 DEF QuietStep
<1>3. /\ \A t \in Senders \ {s} : pc'[t] = pc[t] /\ buf'[t] = buf[t]
      /\ \A r \in Receivers : pc'[r] = pc[r] /\ buf'[r] = buf[r]
  BY <1>2, ThreadsAssumption DEF Thread
<1>4. \A c \in Buffer : Owners(c)' = Owners(c)
  <2> TAKE c \in Buffer
  <2>1. SenderOwners(c)' = SenderOwners(c)
    BY <1>2, <1>3 DEF SenderOwners
  <2>2. PushOwners(c)' = PushOwners(c)
    BY <1>2, <1>3 DEF PushOwners, PushingPc, SenderPc
  <2>3. QueueOwners(c)' = QueueOwners(c) /\ ReadOwners(c)' = ReadOwners(c)
    BY <1>1, <1>3 DEF QueueOwners, ReadOwners, Elements
  <2> QED
    BY <2>1, <2>2, <2>3, OwnersNamed
<1> QED
  BY <1>1, <1>4, KeptOwnersStep

LEMMA NextImplementsOwnership ==
  ASSUME NothingIsLost, IInv, LockedAlone, [Next]_vars
  PROVE  UNCHANGED Ownership!vars \/ Ownership!Next
<1>1. ASSUME NEW s \in Senders, claimFreeBuffer(s) \/ Refused(s) \/ Fill(s) \/ GiveUp(s) \/ sendBuffer(s)
      PROVE  UNCHANGED Ownership!vars \/ Ownership!Next
  <2>1. \/ (QuietStep(s) /\ ~Fill(s)) \/ ClaimPop(s) \/ PushOverwrite(s)
        \/ Fill(s) \/ ClaimSet(s) \/ GiveUp(s) \/ SendRelease(s) \/ PushClaim(s) \/ PushStore(s)
    <3>1. claimFreeBuffer(s) \/ Refused(s) \/ Fill(s) \/ GiveUp(s)
          => Fill(s) \/ QuietStep(s) \/ ClaimPop(s) \/ ClaimSet(s) \/ GiveUp(s)
      BY DEF claimFreeBuffer, QuietStep
    <3>2. sendBuffer(s) => QuietStep(s) \/ SendRelease(s) \/ PushClaim(s) \/ PushOverwrite(s) \/ PushStore(s)
      BY NoFailure DEF sendBuffer, obtainAction, pushBuffer, QuietStep
    <3> QED
      BY <1>1, <3>1, <3>2
  <2> QED
    BY <2>1, OtherStepsAreQuiet, FillIsWrite, ClaimSetIsClaim, SenderReleaseIsDrop, PushClaimIsShare, PushStoreIsPass
<1>2. ASSUME NEW r \in Receivers, ReceiveWait(r)
      PROVE  UNCHANGED Ownership!vars
  <2>1. /\ pc[r] = "idle" /\ pc' = [pc EXCEPT ![r] = "pop"] /\ UNCHANGED <<queue, buf, content>>
    BY <1>2 DEF ReceiveWait, Goto, msgVars
  <2>2. /\ pc'[r] = "pop" /\ \A t \in Receivers \ {r} : pc'[t] = pc[t]
        /\ \A s \in Senders : pc'[s] = pc[s]
    BY <2>1, ThreadsAssumption DEF IInv, TypeOK, Thread
  <2>3. \A c \in Buffer : Owners(c)' = Owners(c)
    <3> TAKE c \in Buffer
    <3>1. SenderOwners(c)' = SenderOwners(c) /\ PushOwners(c)' = PushOwners(c) /\ QueueOwners(c)' = QueueOwners(c)
      BY <2>1, <2>2 DEF SenderOwners, PushOwners, QueueOwners, Elements
    <3>2. ReadOwners(c)' = ReadOwners(c)
      BY <2>1, <2>2 DEF ReadOwners
    <3> QED
      BY <3>1, <3>2, OwnersNamed
  <2> QED
    BY <2>1, <2>3, KeptOwnersStep
<1>3. ASSUME NEW r \in Receivers, receive(r)
      PROVE  UNCHANGED Ownership!vars \/ Ownership!Next
  BY <1>2, <1>3, ReceivePopIsPass, ReceiveUnlockIsDrop DEF receive
<1>4. CASE UNCHANGED vars
  <2>1. UNCHANGED <<queue, pc, buf, content>>
    BY <1>4 DEF vars, queueVars, msgVars
  <2>2. \A c \in Buffer : Owners(c)' = Owners(c)
    BY <2>1 DEF Owners, SenderOwners, PushOwners, QueueOwners, ReadOwners, Elements
  <2> QED
    BY <2>1, <2>2, KeptOwnersStep
<1> QED
  BY <1>1, <1>3, <1>4 DEF Next

LEMMA InitImplementsOwnership == Init => Ownership!Init
<1> SUFFICES ASSUME Init PROVE Ownership!Init
  OBVIOUS
<1>1. \A c \in Buffer : Owners(c) = {}
  <2> TAKE c \in Buffer
  <2>1. /\ \A t \in Thread : pc[t] = "idle"
        /\ \A v \in Vc : Elements(queue[v]) = {}
    BY DEF Init, Elements
  <2> QED
    BY <2>1 DEF Owners, SenderOwners, PushOwners, QueueOwners, ReadOwners, SenderPc, PushingPc, Thread
<1> QED
  BY <1>1 DEF Ownership!Init, Init

-------------------------------------------------------------------------------
(* The channel keeps the promises of BufferOwnership.tla: a buffer is claimed when *)
(* nobody has it, written by its only owner, and does not change while it is     *)
(* sent, waits or is read (claimFreeBuffer to unlockBuffer).                     *)
THEOREM ChannelImplementsOwnership ==
  ASSUME NothingIsLost
  PROVE  Spec => ImplementsOwnership
<1>1. Init => IInv /\ LockedAlone /\ Ownership!Init
  BY InitEstablishesIInv, InitEstablishesLockedAlone, InitImplementsOwnership
<1>2. IInv /\ LockedAlone /\ [Next]_vars => IInv' /\ LockedAlone'
  BY NextPreservesIInv, NextPreservesLockedAlone
<1>3. IInv /\ LockedAlone /\ [Next]_vars => UNCHANGED Ownership!vars \/ Ownership!Next
  BY NextImplementsOwnership
<1> QED
  BY <1>1, <1>2, <1>3, PTL DEF Spec, ImplementsOwnership

-------------------------------------------------------------------------------
(* The messages of a vc: those its readers took out, then those in its queue.    *)

Contents(c, q) == [i \in 1 .. Len(q) |-> c[q[i]]]

LEMMA ContentsType ==
  ASSUME NEW c \in [Buffer -> Nat], NEW q \in Seq(Buffer)
  PROVE  /\ Contents(c, q) \in Seq(Nat) /\ Len(Contents(c, q)) = Len(q) /\ Len(q) \in Nat
         /\ \A i \in 1 .. Len(q) : Contents(c, q)[i] = c[q[i]]
<1>1. Len(q) \in Nat /\ \A i \in 1 .. Len(q) : c[q[i]] \in Nat
  OBVIOUS
<1>2. Contents(c, q) \in [1 .. Len(q) -> Nat]
  BY <1>1 DEF Contents
<1>3. Contents(c, q) \in Seq(Nat)
  BY <1>1, <1>2
<1>4. Len(Contents(c, q)) = Len(q)
  BY <1>1, <1>2, <1>3
<1> QED
  BY <1>1, <1>3, <1>4 DEF Contents

(* A message more in the queue is a message more in all.                         *)
LEMMA StreamGrows ==
  ASSUME NEW c \in [Buffer -> Nat], NEW q \in Seq(Buffer), NEW b \in Buffer, NEW d \in Seq(Nat)
  PROVE  d \o Contents(c, Append(q, b)) = Append(d \o Contents(c, q), c[b])
<1> DEFINE m == Contents(c, q)
           n == Contents(c, Append(q, b))
<1>1. /\ Append(q, b) \in Seq(Buffer) /\ Len(Append(q, b)) = Len(q) + 1
      /\ Append(q, b)[Len(q) + 1] = b
      /\ \A i \in 1 .. Len(q) : Append(q, b)[i] = q[i]
  OBVIOUS
<1>2. /\ m \in Seq(Nat) /\ Len(m) = Len(q) /\ Len(q) \in Nat
      /\ \A i \in 1 .. Len(q) : m[i] = c[q[i]]
  BY ContentsType
<1>3. /\ n \in Seq(Nat) /\ Len(n) = Len(q) + 1
      /\ \A i \in 1 .. Len(q) + 1 : n[i] = c[Append(q, b)[i]]
  <2> DEFINE t == Append(q, b)
  <2>1. t \in Seq(Buffer) /\ Len(t) = Len(q) + 1
    BY <1>1
  <2> HIDE DEF t
  <2>2. /\ Contents(c, t) \in Seq(Nat) /\ Len(Contents(c, t)) = Len(t)
        /\ \A i \in 1 .. Len(t) : Contents(c, t)[i] = c[t[i]]
    BY <2>1, ContentsType
  <2> QED
    BY <2>1, <2>2 DEF t
<1> HIDE DEF m, n
<1>4. (\A i \in 1 .. Len(q) : n[i] = m[i]) /\ n[Len(q) + 1] = c[b]
  <2>1. \A i \in 1 .. Len(q) : i \in 1 .. Len(q) + 1
    BY <1>2
  <2>2. \A i \in 1 .. Len(q) : n[i] = m[i]
    BY <1>1, <1>2, <1>3, <2>1
  <2>3. Len(q) + 1 \in 1 .. Len(q) + 1
    BY <1>2
  <2> QED
    BY <1>1, <1>3, <2>2, <2>3
<1>5. Append(m, c[b]) \in Seq(Nat) /\ Len(Append(m, c[b])) = Len(q) + 1
  BY <1>2
<1>6. n = Append(m, c[b])
  <2>1. ASSUME NEW i \in 1 .. Len(n) PROVE n[i] = Append(m, c[b])[i]
    <3>1. CASE i = Len(q) + 1
      BY <1>2, <1>4, <3>1
    <3>2. CASE i /= Len(q) + 1
      <4>1. i \in 1 .. Len(q)
        BY <1>2, <1>3, <3>2
      <4> QED
        BY <1>2, <1>4, <4>1
    <3> QED
      BY <3>1, <3>2
  <2> QED
    BY <1>3, <1>5, <2>1, SeqEqual
<1>7. d \o Append(m, c[b]) = Append(d \o m, c[b])
  <2>1. c[b] \in Nat
    OBVIOUS
  <2>2. Append(m, c[b]) = m \o <<c[b]>> /\ Append(d \o m, c[b]) = (d \o m) \o <<c[b]>> /\ <<c[b]>> \in Seq(Nat)
    BY <1>2, <2>1
  <2> QED
    BY <1>2, <2>2, ConcatAssociative
<1> QED
  BY <1>6, <1>7 DEF m, n

(* A message taken out of a queue that is first in, first out stays where it is. *)
LEMMA StreamStays ==
  ASSUME NEW c \in [Buffer -> Nat], NEW q \in Seq(Buffer), q /= <<>>, NEW d \in Seq(Nat)
  PROVE  Append(d, c[Head(q)]) \o Contents(c, Tail(q)) = d \o Contents(c, q)
<1> DEFINE x == c[Head(q)]
           m == Contents(c, Tail(q))
           n == Contents(c, q)
<1>1. /\ Len(q) \in Nat /\ Len(q) >= 1 /\ Head(q) = q[1] /\ Head(q) \in Buffer
      /\ Tail(q) \in Seq(Buffer) /\ Len(Tail(q)) = Len(q) - 1
      /\ \A i \in 1 .. Len(q) - 1 : Tail(q)[i] = q[i + 1]
  OBVIOUS
<1>2. m \in Seq(Nat) /\ Len(m) = Len(q) - 1 /\ \A i \in 1 .. Len(q) - 1 : m[i] = c[Tail(q)[i]]
  BY <1>1, ContentsType
<1>3. n \in Seq(Nat) /\ Len(n) = Len(q) /\ \A i \in 1 .. Len(q) : n[i] = c[q[i]]
  BY ContentsType
<1>4. x \in Nat /\ n[1] = x /\ \A i \in 1 .. Len(q) - 1 : n[i + 1] = m[i]
  <2>1. x \in Nat /\ n[1] = x
    BY <1>1, <1>3
  <2>2. ASSUME NEW i \in 1 .. Len(q) - 1 PROVE n[i + 1] = m[i]
    <3>1. i + 1 \in 1 .. Len(q)
      BY <1>1
    <3> QED
      BY <1>1, <1>2, <1>3, <3>1
  <2> QED
    BY <2>1, <2>2
<1> HIDE DEF x, m, n
<1>5. n = <<x>> \o m
  <2>1. /\ <<x>> \in Seq(Nat) /\ Len(<<x>>) = 1 /\ <<x>>[1] = x
    BY <1>4
  <2>2. /\ <<x>> \o m \in Seq(Nat) /\ Len(<<x>> \o m) = Len(q)
        /\ \A i \in 1 .. Len(q) : (<<x>> \o m)[i] = IF i <= 1 THEN <<x>>[i] ELSE m[i - 1]
    <3>1. /\ <<x>> \o m \in Seq(Nat) /\ Len(<<x>> \o m) = Len(<<x>>) + Len(m)
          /\ \A i \in 1 .. Len(<<x>>) + Len(m) :
               (<<x>> \o m)[i] = IF i <= Len(<<x>>) THEN <<x>>[i] ELSE m[i - Len(<<x>>)]
      BY <1>2, <2>1, ConcatProperties, Zenon
    <3>2. Len(<<x>>) + Len(m) = Len(q)
      BY <1>1, <1>2, <2>1
    <3> QED
      BY <2>1, <3>1, <3>2
  <2>3. ASSUME NEW i \in 1 .. Len(n) PROVE n[i] = (<<x>> \o m)[i]
    <3>1. CASE i = 1
      BY <1>1, <1>3, <1>4, <2>1, <2>2, <3>1
    <3>2. CASE i /= 1
      <4>1. i - 1 \in 1 .. Len(q) - 1 /\ (i - 1) + 1 = i /\ i \in 1 .. Len(q) /\ ~(i <= 1)
        BY <1>1, <1>3, <3>2
      <4>2. n[i] = m[i - 1]
        BY <1>4, <4>1
      <4> QED
        BY <2>2, <4>1, <4>2
    <3> QED
      BY <3>1, <3>2
  <2> QED
    BY <1>3, <2>2, <2>3, SeqEqual
<1>6. Append(d, x) = d \o <<x>> /\ <<x>> \in Seq(Nat)
  BY <1>4
<1> QED
  BY <1>2, <1>5, <1>6, ConcatAssociative DEF x, m, n

LEMMA StreamIs ==
  ASSUME NEW v
  PROVE  /\ Stream(v) = delivered[v] \o Contents(content, queue[v])
         /\ Stream(v)' = delivered'[v] \o Contents(content', queue'[v])
  BY DEF Stream, Contents

-------------------------------------------------------------------------------
(* While a message is pushed, the vcs it has reached have it more than the others. *)

Fifo   == Refusing \ Lifo
PushPc == {"push", "enqueue", "store"}

\* No sender has pushed its message to one of u and v only.
Level(u, v) == \A s \in Senders : pc[s] \in PushPc => (u < slot[s] <=> v < slot[s])

StreamsOk ==
  \A u, v \in Fifo :
    /\ Level(u, v) => Stream(u) = Stream(v)
    /\ \A s \in Senders : pc[s] \in PushPc /\ u < slot[s] /\ v >= slot[s]
         => Stream(u) = Append(Stream(v), content[buf[s]])

LEMMA StreamType ==
  ASSUME TypeOK, NEW v \in Vc
  PROVE  Stream(v) \in Seq(Nat)
<1>1. /\ delivered[v] \in Seq(Nat) /\ queue[v] \in Seq(Buffer) /\ content \in [Buffer -> Nat]
  BY DEF TypeOK
<1>2. Contents(content, queue[v]) \in Seq(Nat)
  BY <1>1, ContentsType
<1> QED
  BY <1>1, <1>2, StreamIs, ConcatProperties

LEMMA InitEstablishesStreamsOk ==
  ASSUME Init
  PROVE  StreamsOk
<1>1. \A v \in Vc : delivered[v] = <<>> /\ queue[v] = <<>>
  BY DEF Init
<1>2. \A u, v \in Fifo : Stream(u) = Stream(v)
  <2> TAKE u, v \in Fifo
  <2>1. u \in Vc /\ v \in Vc
    BY SizesAssumption DEF Fifo
  <2> QED
    BY <1>1, <2>1, StreamIs
<1>3. \A s \in Senders : pc[s] \notin PushPc
  BY DEF Init, PushPc, Thread
<1> QED
  BY <1>2, <1>3 DEF StreamsOk

(* Steps that leave the streams and the pushing senders as they are; one that has *)
(* reached every vc may stop.                                                    *)
LEMMA StreamsKept ==
  ASSUME IInv, StreamsOk, \A v \in Fifo : Stream(v)' = Stream(v),
         \A s \in Senders :
           /\ pc'[s] \in PushPc => pc[s] \in PushPc /\ slot'[s] = slot[s] /\ content'[buf'[s]] = content[buf[s]]
           /\ pc[s] \in PushPc => pc'[s] \in PushPc \/ slot[s] = NumberOfVcs
  PROVE  StreamsOk'
<1> SUFFICES ASSUME NEW u \in Fifo, NEW v \in Fifo
             PROVE  /\ Level(u, v)' => Stream(u)' = Stream(v)'
                    /\ \A s \in Senders : pc'[s] \in PushPc /\ u < slot'[s] /\ v >= slot'[s]
                         => Stream(u)' = Append(Stream(v)', content'[buf'[s]])
  BY DEF StreamsOk
<1>1. Stream(u)' = Stream(u) /\ Stream(v)' = Stream(v)
  OBVIOUS
<1>2. u < NumberOfVcs /\ v < NumberOfVcs
  BY SizesAssumption DEF Fifo, Vc
<1>3. Level(u, v)' => Level(u, v)
  BY <1>2 DEF Level
<1>4. Level(u, v)' => Stream(u)' = Stream(v)'
  BY <1>1, <1>3 DEF StreamsOk
<1>5. \A s \in Senders : pc'[s] \in PushPc /\ u < slot'[s] /\ v >= slot'[s]
        => Stream(u)' = Append(Stream(v)', content'[buf'[s]])
  BY <1>1 DEF StreamsOk
<1> QED
  BY <1>4, <1>5

(* A step that leaves queues and readers alone, and what is in the queues.       *)
LEMMA StreamsUntouched ==
  ASSUME UNCHANGED <<queue, delivered>>, IInv,
         \A v \in Vc : \A b \in Elements(queue[v]) : content'[b] = content[b]
  PROVE  \A v \in Fifo : Stream(v)' = Stream(v)
<1> TAKE v \in Fifo
<1>1. v \in Vc /\ queue[v] \in Seq(Buffer)
  BY SizesAssumption DEF Fifo, IInv, TypeOK
<1>2. \A i \in 1 .. Len(queue[v]) : content'[queue[v][i]] = content[queue[v][i]]
  BY <1>1 DEF Elements
<1>3. Contents(content', queue[v]) = Contents(content, queue[v])
  BY <1>2 DEF Contents
<1> QED
  BY <1>3, StreamIs

(* What a sender does outside of its pushes, and to begin with them.             *)
LEMMA SenderKeepsStreams ==
  ASSUME NothingIsLost, IInv, StreamsOk, NEW s \in Senders,
         \/ QuietStep(s) \/ ClaimPop(s) \/ ClaimSet(s) \/ GiveUp(s) \/ SendRelease(s)
         \/ PushClaim(s) \/ PushOverwrite(s)
  PROVE  StreamsOk'
<1>0. /\ pc \in [Thread -> SenderStates \cup ReceiverStates] /\ buf \in [Thread -> Buffer] /\ s \in Thread
      /\ slot \in [Senders -> 0 .. NumberOfVcs] /\ content \in [Buffer -> Nat]
      /\ \A t \in Senders : t \in Thread
  BY DEF IInv, TypeOK, Thread
<1>1. UNCHANGED <<queue, delivered>>
  BY DEF QuietStep, ClaimTest, Refused, Fill, SendEnter, EnterTimeout, WaitForFreeCells, CellTimeout,
         StartPushing, SendLeave, ClaimPop, ClaimSet, GiveUp, SendRelease, PushClaim, PushOverwrite, queueVars
<1>2. \A t \in Senders \ {s} : pc'[t] = pc[t] /\ slot'[t] = slot[t] /\ buf'[t] = buf[t]
  <2>1. CASE QuietStep(s)
    BY <1>0, <2>1 DEF QuietStep, ClaimTest, Refused, Fill, SendEnter, EnterTimeout, WaitForFreeCells, CellTimeout,
           StartPushing, SendLeave, Goto
  <2>2. CASE ClaimPop(s) \/ ClaimSet(s) \/ GiveUp(s) \/ SendRelease(s) \/ PushClaim(s) \/ PushOverwrite(s)
    BY <1>0, <2>2 DEF ClaimPop, ClaimSet, GiveUp, SendRelease, PushClaim, PushOverwrite, Goto
  <2> QED
    BY <2>1, <2>2
<1>3. \A b \in Buffer : content'[b] = content[b] \/ (b = buf[s] /\ Fill(s))
  <2>1. CASE Fill(s)
    BY <1>0, <2>1 DEF Fill
  <2>2. CASE ~Fill(s)
    <3>1. UNCHANGED content
      BY <2>2 DEF QuietStep, ClaimTest, Refused, SendEnter, EnterTimeout, WaitForFreeCells, CellTimeout,
             StartPushing, SendLeave, ClaimPop, ClaimSet, GiveUp, SendRelease, PushClaim, PushOverwrite, msgVars
    <3> QED
      BY <3>1
  <2> QED
    BY <2>1, <2>2
<1>4. Fill(s) => pc[s] = "locked" /\ pc'[s] = "filled" /\ \A v \in Vc : buf[s] \notin Elements(queue[v])
  BY <1>0 DEF Fill, Goto, IInv, SendingOk
<1>5. \A v \in Fifo : Stream(v)' = Stream(v)
  <2>1. \A v \in Vc : \A b \in Elements(queue[v]) : b \in Buffer
    BY DEF IInv, TypeOK, Elements
  <2>2. \A v \in Vc : \A b \in Elements(queue[v]) : content'[b] = content[b]
    BY <1>3, <1>4, <2>1
  <2> QED
    BY <1>1, <2>2, StreamsUntouched
<1>6. \A t \in Senders \ {s} : pc[t] \in PushPc => content'[buf'[t]] = content[buf[t]]
  <2> TAKE t \in Senders \ {s}
  <2>1. Fill(s) /\ pc[t] \in PushPc => buf[t] /= buf[s]
    BY <1>4 DEF IInv, HoldersDiffer, HoldingPc, SenderPc, PushPc
  <2> QED
    BY <1>0, <1>2, <1>3, <2>1
<1>7. CASE StartPushing(s)
  <2>1. pc[s] = "waitCells" /\ pc'[s] = "push" /\ slot'[s] = 0
    BY <1>0, <1>7 DEF StartPushing, Goto
  <2>2. \A t \in Senders : pc[t] \notin PushPc
    BY <2>1 DEF IInv, ActionOk, ActionPc, PushPc
  <2>3. \A u, v \in Fifo : Stream(u)' = Stream(v)'
    BY <1>5, <2>2 DEF StreamsOk, Level
  <2>4. \A t \in Senders : pc'[t] \in PushPc => t = s
    BY <1>2, <2>2
  <2>5. \A u \in Fifo : ~(u < 0)
    BY SizesAssumption DEF Fifo, Vc
  <2> QED
    BY <2>1, <2>3, <2>4, <2>5 DEF StreamsOk
<1>8. CASE ~StartPushing(s)
  <2>1. /\ pc'[s] \in PushPc => pc[s] \in PushPc /\ slot'[s] = slot[s] /\ buf'[s] = buf[s]
        /\ pc[s] \in PushPc => pc'[s] \in PushPc \/ slot[s] = NumberOfVcs
    <3>1. CASE QuietStep(s)
      <4>1. pc[s] \notin PushPc /\ pc'[s] \notin PushPc
        BY <1>0, <1>8, <3>1 DEF QuietStep, ClaimTest, Refused, Fill, SendEnter, EnterTimeout, WaitForFreeCells,
               CellTimeout, SendLeave, Goto, AfterFailure, PushPc
      <4> QED
        BY <4>1
    <3>2. CASE ClaimPop(s) \/ ClaimSet(s) \/ GiveUp(s)
      BY <1>0, <3>2 DEF ClaimPop, ClaimSet, GiveUp, Goto, PushPc
    <3>3. CASE SendRelease(s) \/ PushClaim(s) \/ PushOverwrite(s)
      BY <1>0, <3>3 DEF SendRelease, PushClaim, PushOverwrite, Goto, PushPc
    <3> QED
      BY <3>1, <3>2, <3>3
  <2>2. pc'[s] \in PushPc => content'[buf'[s]] = content[buf[s]]
    <3>1. pc[s] \in PushPc => ~Fill(s)
      BY <1>4 DEF PushPc
    <3> QED
      BY <1>0, <1>3, <2>1, <3>1
  <2>3. \A t \in Senders :
          /\ pc'[t] \in PushPc => pc[t] \in PushPc /\ slot'[t] = slot[t] /\ content'[buf'[t]] = content[buf[t]]
          /\ pc[t] \in PushPc => pc'[t] \in PushPc \/ slot[t] = NumberOfVcs
    <3> TAKE t \in Senders
    <3>1. CASE t = s
      BY <2>1, <2>2, <3>1
    <3>2. CASE t /= s
      BY <1>2, <1>6, <3>2
    <3> QED
      BY <3>1, <3>2
  <2> QED
    BY <1>5, <2>3, StreamsKept
<1> QED
  BY <1>7, <1>8

(* The push to one vc more.                                                      *)
LEMMA PushStoreKeepsStreams ==
  ASSUME NothingIsLost, IInv, StreamsOk, NEW s \in Senders, PushStore(s)
  PROVE  StreamsOk'
<1>1. PICK b \in Buffer : buf[s] = b
  BY DEF IInv, TypeOK, Thread
<1>2. PICK w \in Vc : slot[s] = w
  BY DEF IInv, PushStore, Goto, SendingOk
<1>3. b \notin Elements(queue[w]) /\ ~IsFull(w)
  BY <1>1, <1>2, RoomToStore DEF PushStore, Goto
<1>4. /\ pc[s] = "store" /\ pc' = [pc EXCEPT ![s] = "push"] /\ slot' = [slot EXCEPT ![s] = w + 1]
      /\ queue' = [queue EXCEPT ![w] = Append(@, b)] /\ UNCHANGED <<buf, content, delivered>>
  BY <1>1, <1>2, <1>3 DEF PushStore, Goto, msgVars
<1>5. pc'[s] = "push" /\ slot'[s] = w + 1 /\ w \in Nat
  BY <1>4, SizesAssumption DEF IInv, TypeOK, Thread, Vc
<1>6. \A t \in Senders : pc'[t] \in PushPc \/ pc[t] \in PushPc => t = s
  <2>1. \A t \in Senders \ {s} : pc'[t] = pc[t]
    BY <1>4 DEF IInv, TypeOK, Thread
  <2> QED
    BY <1>4, <2>1 DEF IInv, ActionOk, ActionPc, PushPc
<1>7. queue'[w] = Append(queue[w], b) /\ \A u \in Vc \ {w} : queue'[u] = queue[u]
  BY <1>3, <1>4, PushStoreAppends
<1>8. Stream(w)' = Append(Stream(w), content[b])
  <2>1. content \in [Buffer -> Nat] /\ queue[w] \in Seq(Buffer) /\ delivered[w] \in Seq(Nat)
    BY DEF IInv, TypeOK
  <2>2. delivered[w] \o Contents(content, Append(queue[w], b))
          = Append(delivered[w] \o Contents(content, queue[w]), content[b])
    BY <2>1, StreamGrows
  <2> QED
    BY <1>4, <1>7, <2>2, StreamIs
<1>9. \A u \in Vc \ {w} : Stream(u)' = Stream(u)
  BY <1>4, <1>7, StreamIs
<1>10. /\ \A u, v \in Fifo : (u < w <=> v < w) => Stream(u) = Stream(v)
       /\ \A u, v \in Fifo : u < w /\ v >= w => Stream(u) = Append(Stream(v), content[b])
  <2>1. \A u, v \in Fifo : (u < w <=> v < w) => Level(u, v)
    BY <1>2, <1>6 DEF Level
  <2>2. pc[s] \in PushPc
    BY <1>4 DEF PushPc
  <2> QED
    BY <1>1, <1>2, <2>1, <2>2 DEF StreamsOk
<1>11. \A u \in Fifo : u \in Vc /\ u \in Nat /\ (u < w + 1 <=> u < w \/ u = w) /\ (u >= w + 1 <=> u >= w /\ u /= w)
                       /\ (u >= w <=> ~(u < w))
  BY <1>5, SizesAssumption DEF Fifo, Vc
<1>12. \A u, v \in Fifo : (u < w + 1 <=> v < w + 1) => Stream(u)' = Stream(v)'
  <2> SUFFICES ASSUME NEW u \in Fifo, NEW v \in Fifo, u < w + 1 <=> v < w + 1
               PROVE  Stream(u)' = Stream(v)'
    OBVIOUS
  <2>1. CASE u = w /\ v = w
    BY <2>1
  <2>2. CASE u = w /\ v /= w
    <3>1. v < w /\ w \in Fifo /\ w >= w
      BY <1>5, <1>11, <2>2
    <3>2. Stream(v) = Append(Stream(w), content[b])
      BY <1>10, <3>1
    <3> QED
      BY <1>8, <1>9, <1>11, <2>2, <3>2
  <2>3. CASE u /= w /\ v = w
    <3>1. u < w /\ w \in Fifo /\ w >= w
      BY <1>5, <1>11, <2>3
    <3>2. Stream(u) = Append(Stream(w), content[b])
      BY <1>10, <3>1
    <3> QED
      BY <1>8, <1>9, <1>11, <2>3, <3>2
  <2>4. CASE u /= w /\ v /= w
    <3>1. Stream(u) = Stream(v)
      BY <1>10, <1>11, <2>4
    <3> QED
      BY <1>9, <1>11, <2>4, <3>1
  <2> QED
    BY <2>1, <2>2, <2>3, <2>4
<1>13. \A u, v \in Fifo : u < w + 1 /\ v >= w + 1 => Stream(u)' = Append(Stream(v)', content[b])
  <2> SUFFICES ASSUME NEW u \in Fifo, NEW v \in Fifo, u < w + 1, v >= w + 1
               PROVE  Stream(u)' = Append(Stream(v)', content[b])
    OBVIOUS
  <2>1. v >= w /\ v /= w /\ ~(v < w) /\ Stream(v)' = Stream(v)
    BY <1>9, <1>11
  <2>2. CASE u = w
    <3>1. w \in Fifo /\ ~(w < w)
      BY <1>5, <2>2
    <3>2. Stream(w) = Stream(v)
      BY <1>10, <2>1, <3>1
    <3> QED
      BY <1>8, <2>1, <2>2, <3>2
  <2>3. CASE u /= w
    <3>1. Stream(u) = Append(Stream(v), content[b])
      BY <1>10, <1>11, <2>1, <2>3
    <3> QED
      BY <1>9, <1>11, <2>1, <2>3, <3>1
  <2> QED
    BY <2>2, <2>3
<1> SUFFICES ASSUME NEW u \in Fifo, NEW v \in Fifo
             PROVE  /\ Level(u, v)' => Stream(u)' = Stream(v)'
                    /\ \A t \in Senders : pc'[t] \in PushPc /\ u < slot'[t] /\ v >= slot'[t]
                         => Stream(u)' = Append(Stream(v)', content'[buf'[t]])
  BY DEF StreamsOk
<1>14. Level(u, v)' => (u < w + 1 <=> v < w + 1)
  BY <1>5 DEF Level, PushPc
<1>15. Level(u, v)' => Stream(u)' = Stream(v)'
  BY <1>12, <1>14
<1>16. \A t \in Senders : pc'[t] \in PushPc /\ u < slot'[t] /\ v >= slot'[t]
         => Stream(u)' = Append(Stream(v)', content'[buf'[t]])
  BY <1>1, <1>4, <1>5, <1>6, <1>13
<1> QED
  BY <1>15, <1>16

(* A reader takes the oldest message, or its vc is not first in, first out.      *)
LEMMA ReceiverKeepsStreams ==
  ASSUME IInv, StreamsOk, NEW r \in Receivers, receive(r)
  PROVE  StreamsOk'
<1>1. UNCHANGED <<content, slot>>
  BY DEF receive, ReceiveWait, ReceivePop, ReceiveUnlock, msgVars
<1>2. \A s \in Senders : pc'[s] = pc[s] /\ buf'[s] = buf[s]
  BY ThreadsAssumption DEF receive, ReceiveWait, ReceivePop, ReceiveUnlock, Goto, IInv, TypeOK, Thread
<1>3. \A v \in Fifo : Stream(v)' = Stream(v)
  <2>1. CASE ReceiveWait(r) \/ ReceiveUnlock(r)
    <3>1. UNCHANGED <<queue, delivered>>
      BY <2>1 DEF ReceiveWait, ReceiveUnlock, queueVars
    <3> QED
      BY <1>1, <3>1, StreamsUntouched
  <2>2. CASE ReceivePop(r)
    <3> TAKE v \in Fifo
    <3>1. v \in Vc /\ v \notin Lifo /\ queue[v] \in Seq(Buffer) /\ delivered[v] \in Seq(Nat) /\ content \in [Buffer -> Nat]
      BY SizesAssumption DEF Fifo, IInv, TypeOK
    <3>2. CASE VcOf[r] = v
      <4>1. queue[v] /= <<>>
        BY <2>2, <3>1, <3>2, PoppedQueueHasMessage
      <4>2. /\ queue' = [queue EXCEPT ![v] = Tail(@)]
            /\ delivered' = [delivered EXCEPT ![v] = Append(@, content[Head(queue[v])])]
        BY <2>2, <3>1, <3>2 DEF ReceivePop, Taken, Left
      <4>3. queue'[v] = Tail(queue[v]) /\ delivered'[v] = Append(delivered[v], content[Head(queue[v])])
        BY <3>1, <4>2 DEF IInv, TypeOK
      <4>4. Append(delivered[v], content[Head(queue[v])]) \o Contents(content, Tail(queue[v]))
              = delivered[v] \o Contents(content, queue[v])
        BY <3>1, <4>1, StreamStays
      <4> QED
        BY <1>1, <4>3, <4>4, StreamIs
    <3>3. CASE VcOf[r] /= v
      <4>1. queue'[v] = queue[v] /\ delivered'[v] = delivered[v]
        BY <2>2, <3>1, <3>3 DEF ReceivePop, IInv, TypeOK
      <4> QED
        BY <1>1, <4>1, StreamIs
    <3> QED
      BY <3>2, <3>3
  <2> QED
    BY <2>1, <2>2 DEF receive
<1>4. \A s \in Senders :
        /\ pc'[s] \in PushPc => pc[s] \in PushPc /\ slot'[s] = slot[s] /\ content'[buf'[s]] = content[buf[s]]
        /\ pc[s] \in PushPc => pc'[s] \in PushPc \/ slot[s] = NumberOfVcs
  BY <1>1, <1>2
<1> QED
  BY <1>3, <1>4, StreamsKept

LEMMA NextPreservesStreamsOk ==
  ASSUME NothingIsLost, IInv, StreamsOk, [Next]_vars
  PROVE  StreamsOk'
<1>1. ASSUME NEW s \in Senders, claimFreeBuffer(s) \/ Refused(s) \/ Fill(s) \/ GiveUp(s)
      PROVE  StreamsOk'
  <2>1. QuietStep(s) \/ ClaimPop(s) \/ ClaimSet(s) \/ GiveUp(s)
    BY <1>1 DEF claimFreeBuffer, QuietStep
  <2> QED
    BY <2>1, SenderKeepsStreams
<1>2. ASSUME NEW s \in Senders, sendBuffer(s)
      PROVE  StreamsOk'
  <2>1. QuietStep(s) \/ SendRelease(s) \/ PushClaim(s) \/ PushOverwrite(s) \/ PushStore(s)
    BY <1>2, NoFailure DEF sendBuffer, obtainAction, pushBuffer, QuietStep
  <2> QED
    BY <2>1, SenderKeepsStreams, PushStoreKeepsStreams
<1>3. CASE UNCHANGED vars
  <2>1. UNCHANGED <<queue, delivered, content, slot, pc, buf>>
    BY <1>3 DEF vars, queueVars, msgVars
  <2>2. \A v \in Fifo : Stream(v)' = Stream(v)
    BY <2>1, StreamsUntouched
  <2> QED
    BY <2>1, <2>2, StreamsKept
<1> QED
  BY <1>1, <1>2, <1>3, ReceiverKeepsStreams DEF Next

(* Of two streams that are equal, or of which one has a message more, one begins the other. *)
LEMMA StreamsAgree ==
  ASSUME IInv, StreamsOk
  PROVE  SameOrder
<1> SUFFICES ASSUME NEW u \in Fifo, NEW v \in Fifo, NEW i \in 1 .. Len(Stream(u)), i <= Len(Stream(v))
             PROVE  Stream(u)[i] = Stream(v)[i]
  BY DEF SameOrder, Fifo
<1>1. /\ Stream(u) \in Seq(Nat) /\ Stream(v) \in Seq(Nat)
      /\ Len(Stream(u)) \in Nat /\ Len(Stream(v)) \in Nat
  BY StreamType, SizesAssumption, LenProperties DEF Fifo, IInv
<1>2. CASE Level(u, v)
  BY <1>2 DEF StreamsOk
<1>3. CASE ~Level(u, v)
  <2>1. PICK s \in Senders : pc[s] \in PushPc /\ ~(u < slot[s] <=> v < slot[s])
    BY <1>3 DEF Level
  <2>2. u \in Nat /\ v \in Nat /\ slot[s] \in Nat /\ content[buf[s]] \in Nat
    BY SizesAssumption DEF Fifo, Vc, IInv, TypeOK, Thread
  <2>3. CASE u < slot[s] /\ v >= slot[s]
    <3>1. Stream(u) = Append(Stream(v), content[buf[s]])
      BY <2>1, <2>3 DEF StreamsOk
    <3>2. i \in 1 .. Len(Stream(v))
      BY <1>1
    <3> QED
      BY <1>1, <2>2, <3>1, <3>2
  <2>4. CASE v < slot[s] /\ u >= slot[s]
    <3>1. Stream(v) = Append(Stream(u), content[buf[s]])
      BY <2>1, <2>4 DEF StreamsOk
    <3> QED
      BY <1>1, <2>2, <3>1
  <2> QED
    BY <2>1, <2>2, <2>3, <2>4
<1> QED
  BY <1>2, <1>3

(* Nothing is pushed to a full vc, and no push is undone.                        *)
LEMMA NoPushFails ==
  ASSUME IInv
  PROVE  AllOrNothing
<1> SUFFICES ASSUME NEW s \in Senders
             PROVE  /\ pc[s] \in {"push", "enqueue", "store"} =>
                         \A v \in Refusing : v >= slot[s] => ~IsFull(v)
                    /\ pc[s] /= "undo"
  BY DEF AllOrNothing
<1>1. pc[s] /= "undo"
  BY DEF IInv, PcOk
<1>2. \A v \in Refusing : v \in Vc /\ Len(queue[v]) \in Nat /\ QueueSize[v] \in Nat
  BY SizesAssumption DEF IInv, TypeOK
<1>3. pc[s] \in {"push", "enqueue", "store"} => \A v \in Refusing : v >= slot[s] => ~IsFull(v)
  BY <1>2 DEF IInv, SendingOk, IsFull
<1> QED
  BY <1>1, <1>3

(* Every vc that refuses gets each message, and those that are first in, first out *)
(* all in one order, whoever sends (sendBuffer).                                 *)
THEOREM MessagesAreDeliveredAlike ==
  ASSUME NothingIsLost
  PROVE  Spec => []DeliveredAlike
<1>1. Init => IInv /\ StreamsOk
  BY InitEstablishesIInv, InitEstablishesStreamsOk
<1>2. IInv /\ StreamsOk /\ [Next]_vars => IInv' /\ StreamsOk'
  BY NextPreservesIInv, NextPreservesStreamsOk
<1>3. IInv /\ StreamsOk => DeliveredAlike
  BY StreamsAgree, NoPushFails DEF DeliveredAlike
<1> QED
  BY <1>1, <1>2, <1>3, PTL DEF Spec
===============================================================================
