---------------------------- MODULE ServicesProofs ----------------------------
(***************************************************************************)
(* Theorems about the components that share no state, in the order of      *)
(* their variables in Services: the cards of Buyers, the tabs of           *)
(* UserConnections, the list of Webhooks, the sums of OrderItems (after    *)
(* lemmas on sums over finite sets), the channel of HubConnection, and the *)
(* types of all of them.                                                   *)
(***************************************************************************)
EXTENDS Services, ServiceBusProofs, SequenceTheorems, FiniteSetTheorems, TLAPS

-----------------------------------------------------------------------------
(* Buyers: a card is stored at most once per message handler *)

\* The handlers that read the buyer without the card and are going to store it.
Storing(u, c) ==
    {w \in Workers : /\ txn[w].at # "idle" /\ txn[w].seen = 0
                     /\ txn[w].checkout.user = u /\ txn[w].checkout.card = c}

\* A handler that is going to store the card counts as if it had.
CardsInv ==
    \A u \in Users, c \in Cards :
       methods[u][c] + Cardinality(Storing(u, c)) <= Cardinality(Workers)

\* The instance has an operator of its own for what FiniteSets defines.
LEMMA BuyerCardinality ==
    ASSUME NEW S
    PROVE  Buyer!Cardinality(S) = Cardinality(S)
  BY DEF Cardinality, Buyer!Cardinality

\* What a step of handler w does to the sets of those that are going to store.
LEMMA StoringEnds ==
    ASSUME Buyer!TypeOK, NEW w \in Workers, txn' = [txn EXCEPT ![w] = Buyer!Idle]
    PROVE  \A u, c : Storing(u, c)' = Storing(u, c) \ {w}
  BY DEF Buyer!TypeOK, Buyer!Idle, Storing

LEMMA StoringFinite ==
    ASSUME NEW u, NEW c
    PROVE  /\ IsFiniteSet(Storing(u, c)) /\ Cardinality(Storing(u, c)) \in Nat
           /\ \A w : IsFiniteSet(Storing(u, c) \ {w}) /\ Cardinality(Storing(u, c) \ {w}) =
                   IF w \in Storing(u, c) THEN Cardinality(Storing(u, c)) - 1
                   ELSE Cardinality(Storing(u, c))
           /\ Cardinality(Workers) \in Nat
PROOF
  <1>1. Storing(u, c) \subseteq Workers /\ IsFiniteSet(Workers)
    BY BusAssumption DEF Storing
  <1>2. IsFiniteSet(Storing(u, c))
    BY <1>1, FS_Subset
  <1> QED
    BY <1>1, <1>2, FS_CardinalityType, FS_RemoveElement

LEMMA BuyerTypeInit == Buyer!Init => Buyer!TypeOK
  BY ServicesAssumption DEF Buyer!Init, Buyer!TypeOK, Buyer!Idle

LEMMA BuyerTypeStep ==
    ASSUME Buyer!TypeOK, [Buyer!Next]_buyerVars
    PROVE  Buyer!TypeOK'
PROOF
  <1>1. ASSUME NEW w \in Workers, NEW c \in Checkouts, Buyer!FindAsync(w, c)
        PROVE  Buyer!TypeOK'
    <2>1. methods[c.user][c.card] \in Nat
      BY ServicesAssumption DEF Buyer!TypeOK
    <2>2. [at |-> "found", checkout |-> c, exists |-> c.user \in buyers,
           seen |-> methods[c.user][c.card]] \in Buyer!Found
      BY <2>1 DEF Buyer!Found
    <2> QED
      BY <1>1, <2>2 DEF Buyer!TypeOK, Buyer!FindAsync
  <1>2. ASSUME NEW w \in Workers, Buyer!VerifyFails(w)
        PROVE  Buyer!TypeOK'
    BY <1>2 DEF Buyer!TypeOK, Buyer!VerifyFails
  <1>3. ASSUME NEW w \in Workers, Buyer!SaveEntities(w)
        PROVE  Buyer!TypeOK'
    <2>1. [txn[w] EXCEPT !.at = "saved"] \in Buyer!Found
      BY <1>3 DEF Buyer!TypeOK, Buyer!SaveEntities, Buyer!Found, Buyer!Idle
    <2> QED
      BY <1>3, <2>1 DEF Buyer!TypeOK, Buyer!SaveEntities
  <1>4. ASSUME NEW w \in Workers, Buyer!UniqueIndexFails(w)
        PROVE  Buyer!TypeOK'
    BY <1>4 DEF Buyer!TypeOK, Buyer!UniqueIndexFails
  <1>5. ASSUME NEW w \in Workers, Buyer!Commit(w)
        PROVE  Buyer!TypeOK'
    <2>1. txn[w] \in Buyer!Found
      BY <1>5 DEF Buyer!TypeOK, Buyer!Commit, Buyer!Idle
    <2>2. txn[w].checkout.user \in Users /\ txn[w].checkout.card \in Cards
      BY <2>1, ServicesAssumption DEF Buyer!Found
    <2>3. methods' \in [Users -> [Cards -> Nat]]
      BY <1>5, <2>2 DEF Buyer!TypeOK, Buyer!Commit
    <2> QED
      BY <1>5, <2>2, <2>3 DEF Buyer!TypeOK, Buyer!Commit
  <1>6. ASSUME NEW w \in Workers, Buyer!Fail(w)
        PROVE  Buyer!TypeOK'
    BY <1>6, ServicesAssumption DEF Buyer!TypeOK, Buyer!Fail
  <1>7. CASE UNCHANGED buyerVars
    BY <1>7 DEF Buyer!TypeOK, buyerVars
  <1> QED
    BY <1>1, <1>2, <1>3, <1>4, <1>5, <1>6, <1>7 DEF Buyer!Next, Buyer!Work

LEMMA CardsStep ==
    ASSUME Buyer!TypeOK, CardsInv, [Buyer!Next]_buyerVars
    PROVE  CardsInv'
PROOF
  <1> SUFFICES ASSUME NEW u \in Users, NEW k \in Cards
               PROVE  methods'[u][k] + Cardinality(Storing(u, k)') <= Cardinality(Workers)
    BY DEF CardsInv
  <1> DEFINE n == Cardinality(Storing(u, k))
  <1>1. /\ n \in Nat /\ methods[u][k] \in Nat /\ Cardinality(Workers) \in Nat
        /\ methods[u][k] + n <= Cardinality(Workers)
    BY StoringFinite DEF CardsInv, Buyer!TypeOK
  <1>2. ASSUME NEW w \in Workers, NEW c \in Checkouts, Buyer!FindAsync(w, c)
        PROVE  methods'[u][k] + Cardinality(Storing(u, k)') <= Cardinality(Workers)
    <2>1. methods' = methods
      BY <1>2 DEF Buyer!FindAsync
    <2>2. CASE methods[u][k] = 0
      <3>1. Storing(u, k)' \subseteq Workers
        BY DEF Storing
      <3>2. Cardinality(Storing(u, k)') <= Cardinality(Workers)
            /\ Cardinality(Storing(u, k)') \in Nat
        BY <3>1, BusAssumption, FS_Subset, FS_CardinalityType
      <3> QED
        BY <2>1, <2>2, <3>2
    <2>3. CASE methods[u][k] # 0
      <3>1. Storing(u, k)' = Storing(u, k)
        BY <1>2, <2>3 DEF Buyer!FindAsync, Buyer!TypeOK, Storing
      <3> QED
        BY <1>1, <2>1, <3>1
    <2> QED
      BY <2>2, <2>3
  <1>3. ASSUME NEW w \in Workers, Buyer!SaveEntities(w)
        PROVE  methods'[u][k] + Cardinality(Storing(u, k)') <= Cardinality(Workers)
    <2>1. methods' = methods
      BY <1>3 DEF Buyer!SaveEntities
    <2>2. Storing(u, k)' = Storing(u, k)
      BY <1>3 DEF Buyer!SaveEntities, Buyer!TypeOK, Buyer!Found, Buyer!Idle, Storing
    <2> QED
      BY <1>1, <2>1, <2>2
  <1>4. ASSUME NEW w \in Workers,
               Buyer!VerifyFails(w) \/ Buyer!UniqueIndexFails(w) \/ Buyer!Fail(w)
        PROVE  methods'[u][k] + Cardinality(Storing(u, k)') <= Cardinality(Workers)
    <2>1. methods' = methods /\ txn' = [txn EXCEPT ![w] = Buyer!Idle]
      BY <1>4 DEF Buyer!VerifyFails, Buyer!UniqueIndexFails, Buyer!Fail
    <2>2. Storing(u, k)' = Storing(u, k) \ {w}
      BY <2>1, StoringEnds
    <2>3. Cardinality(Storing(u, k)') \in {n, n - 1}
      BY <2>2, StoringFinite
    <2> QED
      BY <1>1, <2>1, <2>3
  <1>5. ASSUME NEW w \in Workers, Buyer!Commit(w)
        PROVE  methods'[u][k] + Cardinality(Storing(u, k)') <= Cardinality(Workers)
    <2>1. Storing(u, k)' = Storing(u, k) \ {w}
      BY <1>5, StoringEnds DEF Buyer!Commit
    <2>2. CASE w \in Storing(u, k)
      <3>1. methods'[u][k] = methods[u][k] + 1
        BY <1>5, <2>2 DEF Buyer!Commit, Buyer!TypeOK, Storing
      <3>2. Cardinality(Storing(u, k)') = n - 1
        BY <2>1, <2>2, StoringFinite
      <3> QED
        BY <1>1, <3>1, <3>2
    <2>3. CASE w \notin Storing(u, k)
      <3>1. methods'[u][k] = methods[u][k]
        BY <1>5, <2>3 DEF Buyer!Commit, Buyer!TypeOK, Storing
      <3> QED
        BY <1>1, <2>1, <2>3, <3>1, StoringFinite
    <2> QED
      BY <2>2, <2>3
  <1>6. CASE UNCHANGED buyerVars
    BY <1>1, <1>6 DEF buyerVars, Storing
  <1> QED
    BY <1>2, <1>3, <1>4, <1>5, <1>6 DEF Buyer!Next, Buyer!Work

LEMMA CardsInvInit == Buyer!Init => CardsInv
PROOF
  <1> SUFFICES ASSUME Buyer!Init, NEW u \in Users, NEW c \in Cards
               PROVE  methods[u][c] + Cardinality(Storing(u, c)) <= Cardinality(Workers)
    BY DEF CardsInv
  <1>1. Storing(u, c) = {} /\ methods[u][c] = 0
    BY DEF Buyer!Init, Buyer!Idle, Storing
  <1> QED
    BY <1>1, StoringFinite, FS_EmptySet

LEMMA CardsInvariant == Buyer!Spec => [](Buyer!TypeOK /\ CardsInv)
PROOF
  <1>1. Buyer!Init => Buyer!TypeOK /\ CardsInv
    BY BuyerTypeInit, CardsInvInit
  <1>2. Buyer!TypeOK /\ CardsInv /\ [Buyer!Next]_buyerVars => (Buyer!TypeOK /\ CardsInv)'
    BY BuyerTypeStep, CardsStep
  <1>3. Buyer!Spec => Buyer!Init /\ [][Buyer!Next]_buyerVars
    BY PTL DEF Buyer!Spec, Buyer!vars, buyerVars
  <1> QED
    BY <1>1, <1>2, <1>3, PTL

\* VerifyOrAddPaymentMethod: however many checkouts of a user are handled at a time, a card
\* of his is stored at most once per handler.
THEOREM CardsStored == Buyer!Spec => []CardsPerHandler
PROOF
  <1>1. ASSUME Buyer!TypeOK, CardsInv
        PROVE  Buyer!CardsPerHandler
    <2>1. \A u \in Users, c \in Cards : methods[u][c] \in Nat
      BY <1>1 DEF Buyer!TypeOK
    <2>2. \A u \in Users, c \in Cards : methods[u][c] <= Cardinality(Workers)
      BY <1>1, <2>1, StoringFinite DEF CardsInv
    <2> QED
      BY <2>2, BuyerCardinality DEF Buyer!CardsPerHandler
  <1> QED
    BY <1>1, CardsInvariant, PTL DEF CardsPerHandler

-----------------------------------------------------------------------------
(* UserConnections: a request that ends well has sent to all *)

\* The first n - 1 items of list l.
Before(l, n) == {l[i] : i \in 1..(n - 1)}

LEMMA BeforeNext ==
    ASSUME NEW l, NEW n \in Nat \ {0}
    PROVE  Before(l, n + 1) = Before(l, n) \cup {l[n]}
PROOF
  <1>1. 1..((n + 1) - 1) = (1..(n - 1)) \cup {n}
    OBVIOUS
  <1> QED
    BY <1>1 DEF Before

\* What the parts of List.Add and List.RemoveAt make of the items.
LEMMA Grown ==
    ASSUME NEW S, NEW s \in Seq(S), NEW x \in S
    PROVE  LET t == Append(s, x)
           IN  /\ t \in Seq(S) /\ Len(t) = Len(s) + 1 /\ t # <<>> /\ t[Len(t)] = x
               /\ \A i \in 1..Len(s) : t[i] = s[i]
  OBVIOUS

LEMMA Shortened ==
    ASSUME NEW S, NEW s \in Seq(S), s # <<>>
    PROVE  LET t == Tabs!Front(s)
           IN  t \in Seq(S) /\ Len(t) = Len(s) - 1 /\ \A i \in 1..(Len(s) - 1) : t[i] = s[i]
PROOF
  <1> DEFINE n == Len(s) - 1
  <1>1. n \in Nat /\ 1 \in Int /\ \A i \in 1..n : s[i] \in S
    OBVIOUS
  <1>2. /\ SubSeq(s, 1, n) \in Seq(S)
        /\ Len(SubSeq(s, 1, n)) = IF 1 <= n THEN n - 1 + 1 ELSE 0
        /\ \A i \in 1..(n - 1 + 1) : SubSeq(s, 1, n)[i] = s[1 + i - 1]
    <2> HIDE DEF n
    <2> QED
      BY <1>1, SubSeqProperties
  <1>3. Len(SubSeq(s, 1, n)) = n /\ \A i \in 1..n : SubSeq(s, 1, n)[i] = s[i]
    <2> HIDE DEF n
    <2> QED
      BY <1>1, <1>2
  <1> QED
    BY <1>2, <1>3 DEF Tabs!Front

LEMMA ItemWritten ==
    ASSUME NEW S, NEW s \in Seq(S), s # <<>>, NEW x \in S
    PROVE  LET t == Append(Tabs!Front(s), x)
           IN  t \in Seq(S) /\ Len(t) = Len(s) /\ \A i \in 1..(Len(s) - 1) : t[i] = s[i]
PROOF
  <1> DEFINE f == Tabs!Front(s)
  <1>1. f \in Seq(S) /\ Len(f) = Len(s) - 1 /\ \A i \in 1..(Len(s) - 1) : f[i] = s[i]
    BY Shortened
  <1> DEFINE t == Append(f, x)
  <1>2. t \in Seq(S) /\ Len(t) = Len(f) + 1 /\ \A i \in 1..Len(f) : t[i] = f[i]
    <2> HIDE DEF f
    <2> QED
      BY <1>1, Grown
  <1>3. Len(t) = Len(s) /\ \A i \in 1..(Len(s) - 1) : t[i] = s[i]
    <2> HIDE DEF f, t
    <2> QED
      BY <1>1, <1>2
  <1> QED
    BY <1>2, <1>3

LEMMA MovedUp ==
    ASSUME NEW S, NEW s \in Seq(S), NEW i \in Nat \ {0}, i < Len(s)
    PROVE  LET t == [s EXCEPT ![i] = s[i + 1]]
           IN  t \in Seq(S) /\ Len(t) = Len(s)
PROOF
  <1>1. i + 1 \in 1..Len(s) /\ s[i + 1] \in S
    OBVIOUS
  <1> QED
    BY <1>1

\* As long as the version is that of the beginning and no item is being removed, the foreach
\* has sent to the items of the list before the next one, and has not come to an item that
\* is still to be written.
WalkInv ==
    /\ \A p \in Posts :
          post[p].at = "sending"
             => LET u == post[p].user
                IN  /\ post[p].version <= version[u]
                    /\ post[p].version = version[u] /\ ~Tabs!Removing(u)
                          => /\ post[p].next <= Len(list[u]) + 1
                             /\ post[p].sent = Before(list[u], post[p].next)
                    /\ post[p].version = version[u] /\ inside.op = "write" /\ inside.user = u
                          => post[p].next <= Len(list[u])
    /\ inside.op = "write" => list[inside.user][Len(list[inside.user])] = Tabs!NoConnection

\* A request that is sending has the fields of one.
LEMMA SendingPost ==
    ASSUME Tabs!TypeOK, NEW p \in Posts, post[p].at = "sending"
    PROVE  /\ post[p] \in Tabs!Sending /\ post[p].user \in Users
           /\ post[p].version \in Nat /\ post[p].next \in Nat \ {0}
           /\ post[p].sent \subseteq Connections
           /\ list[post[p].user] \in Seq(Tabs!Items) /\ version[post[p].user] \in Nat
  BY DEF Tabs!TypeOK, Tabs!Sending, Tabs!Listed, Tabs!Done, Tabs!Idle

LEMMA ListedPost ==
    ASSUME Tabs!TypeOK, NEW p \in Posts, post[p].at \in {"listed", "counted"}
    PROVE  /\ post[p] \in Tabs!Listed /\ post[p].user \in Users
           /\ list[post[p].user] \in Seq(Tabs!Items) /\ version[post[p].user] \in Nat
  BY DEF Tabs!TypeOK, Tabs!Sending, Tabs!Listed, Tabs!Done, Tabs!Idle

\* The call that has the lock has the fields of one.
LEMMA InsideFields ==
    ASSUME Tabs!TypeOK
    PROVE  /\ inside.op \in {"grow", "write"} => inside \in Tabs!Keeping
           /\ inside.op = "remove" => inside \in Tabs!Gap
           /\ inside.op # "none"
                 => inside.user \in Users /\ list[inside.user] \in Seq(Tabs!Items)
           /\ Tabs!Free.op = "none"
  BY DEF Tabs!TypeOK, Tabs!Keeping, Tabs!Gap, Tabs!Free

LEMMA ItemOrNone == Connections \subseteq Tabs!Items /\ Tabs!NoConnection \in Tabs!Items
  BY DEF Tabs!Items

Requests == {Tabs!Idle, [at |-> "threw"]} \cup Tabs!Listed \cup Tabs!Sending \cup Tabs!Done

\* What one turn of the foreach leaves.
Turn(p) ==
    LET u == post[p].user
    IN  \/ post'[p].at = "threw"
        \/ /\ post[p].version = version[u] /\ post[p].next <= Tabs!Size(u)
           /\ list[u][post[p].next] # Tabs!NoConnection
           /\ post'[p].at = "sending" /\ post'[p].user = u
           /\ post'[p].version = version[u] /\ post'[p].next = post[p].next + 1
           /\ post'[p].sent = post[p].sent \cup {list[u][post[p].next]}
        \/ /\ post[p].version = version[u] /\ post[p].next > Tabs!Size(u)
           /\ post'[p].at = "done" /\ post'[p].user = u /\ post'[p].sent = post[p].sent

LEMMA SendToUserEffect ==
    ASSUME Tabs!TypeOK, NEW p \in Posts, Tabs!SendToUser(p)
    PROVE  /\ Turn(p) /\ UNCHANGED <<state, list, entries, version, inside>>
           /\ post' \in [Posts -> Requests]
           /\ \A q \in Posts \ {p} : post'[q] = post[q]
PROOF
  <1> DEFINE u == post[p].user  n == post[p].next  sent == post[p].sent
  <1>1. /\ post[p] \in Tabs!Sending /\ post \in [Posts -> Requests]
        /\ u \in Users /\ version[u] \in Nat /\ n \in Nat \ {0} /\ sent \subseteq Connections
        /\ list[u] \in Seq(Tabs!Items)
    BY SendingPost DEF Tabs!SendToUser, Tabs!TypeOK, Requests
  <1>2. CASE post' = [post EXCEPT ![p] = [at |-> "threw"]]
    BY <1>1, <1>2 DEF Tabs!SendToUser, Turn, Requests
  <1>3. CASE /\ post[p].version = version[u] /\ n <= Tabs!Size(u)
             /\ list[u][n] # Tabs!NoConnection
             /\ post' = [post EXCEPT ![p].next = n + 1, ![p].sent = sent \cup {list[u][n]}]
    <2> DEFINE x == [post[p] EXCEPT !.next = n + 1]
    <2>1. /\ x \in Tabs!Sending /\ x.user = u /\ x.version = post[p].version /\ x.next = n + 1
          /\ x.at = "sending"
      BY <1>1 DEF Tabs!Sending
    <2>2. sent \cup {list[u][n]} \subseteq Connections
      <3>1. n \in 1..Len(list[u])
        BY <1>1, <1>3 DEF Tabs!Size
      <3>2. list[u][n] \in Tabs!Items
        BY <1>1, <3>1
      <3> QED
        BY <1>1, <1>3, <3>2 DEF Tabs!Items
    <2> DEFINE y == [x EXCEPT !.sent = sent \cup {list[u][n]}]
    <2>3. /\ y \in Tabs!Sending /\ y.user = u /\ y.version = version[u] /\ y.next = n + 1
          /\ y.sent = sent \cup {list[u][n]} /\ y.at = "sending"
      <3> HIDE DEF x
      <3> QED
        BY <1>3, <2>1, <2>2 DEF Tabs!Sending
    <2>4. post' = [post EXCEPT ![p] = y]
      BY <1>1, <1>3
    <2> HIDE DEF y
    <2>5. post'[p] = y /\ \A q \in Posts \ {p} : post'[q] = post[q]
      BY <1>1, <2>4
    <2>6. post' \in [Posts -> Requests]
      BY <1>1, <2>3, <2>4 DEF Requests
    <2>7. Turn(p)
      BY <1>3, <2>3, <2>5 DEF Turn
    <2> QED
      BY <2>5, <2>6, <2>7 DEF Tabs!SendToUser
  <1>4. CASE /\ post[p].version = version[u] /\ n > Tabs!Size(u)
             /\ post' = [post EXCEPT ![p] = [at |-> "done", user |-> u, sent |-> sent]]
    <2>1. [at |-> "done", user |-> u, sent |-> sent] \in Tabs!Done
      BY <1>1 DEF Tabs!Done
    <2> QED
      BY <1>1, <1>4, <2>1 DEF Tabs!SendToUser, Turn, Requests
  <1> QED
    BY <1>2, <1>3, <1>4 DEF Tabs!SendToUser

\* What the beginning of the walk leaves.
Begun(p) ==
    LET u == post[p].user
    IN  \/ post'[p].at = "counted"
        \/ /\ Tabs!Size(u) = 0
           /\ post'[p].at = "done" /\ post'[p].user = u /\ post'[p].sent = {}
        \/ /\ post'[p].at = "sending" /\ post'[p].user = u
           /\ post'[p].version = version[u] /\ post'[p].next = 1 /\ post'[p].sent = {}

LEMMA BeginForeachEffect ==
    ASSUME Tabs!TypeOK, NEW p \in Posts, Tabs!BeginForeach(p)
    PROVE  /\ Begun(p) /\ UNCHANGED <<state, list, entries, version, inside>>
           /\ post[p].at \in {"listed", "counted"}
           /\ post' \in [Posts -> Requests]
           /\ \A q \in Posts \ {p} : post'[q] = post[q]
PROOF
  <1> DEFINE u == post[p].user
  <1>1. /\ post[p] \in Tabs!Listed /\ post \in [Posts -> Requests]
        /\ u \in Users /\ version[u] \in Nat
    BY ListedPost DEF Tabs!BeginForeach, Tabs!TypeOK, Requests
  <1>2. CASE /\ Tabs!Size(u) = 0
             /\ post' = [post EXCEPT ![p] = [at |-> "done", user |-> u, sent |-> {}]]
    <2>1. [at |-> "done", user |-> u, sent |-> {}] \in Tabs!Done
      BY <1>1 DEF Tabs!Done
    <2> QED
      BY <1>1, <1>2, <2>1 DEF Tabs!BeginForeach, Begun, Requests
  <1>3. CASE post' = [post EXCEPT ![p].at = "counted"]
    <2>1. [post[p] EXCEPT !.at = "counted"] \in Tabs!Listed
      BY <1>1 DEF Tabs!Listed
    <2>2. post' = [post EXCEPT ![p] = [post[p] EXCEPT !.at = "counted"]]
      BY <1>1, <1>3
    <2>3. post'[p].at = "counted"
      BY <1>1, <2>2 DEF Tabs!Listed
    <2> QED
      BY <1>1, <2>1, <2>2, <2>3 DEF Tabs!BeginForeach, Begun, Requests
  <1>4. CASE post' = [post EXCEPT ![p] = [at |-> "sending", user |-> u, next |-> 1,
                                           version |-> version[u], sent |-> {}]]
    <2>1. [at |-> "sending", user |-> u, next |-> 1, version |-> version[u], sent |-> {}]
             \in Tabs!Sending
      BY <1>1 DEF Tabs!Sending
    <2> QED
      BY <1>1, <1>4, <2>1 DEF Tabs!BeginForeach, Begun, Requests
  <1> QED
    BY <1>2, <1>3, <1>4 DEF Tabs!BeginForeach

LEMMA TabsTypeInit == Tabs!Init => Tabs!TypeOK
  BY DEF Tabs!Init, Tabs!TypeOK, Tabs!Idle, Tabs!Free

\* The two halves of what is left of List.Add.
Half == inside.op = "grow" /\ inside' = [inside EXCEPT !.op = "write"]
        /\ list' = [list EXCEPT ![inside.user] = Append(@, Tabs!NoConnection)]
Rest == inside.op = "write" /\ inside' = Tabs!Free
        /\ list' = [list EXCEPT ![inside.user] = Append(Tabs!Front(@), inside.connection)]

LEMMA AddEffect ==
    ASSUME Tabs!TypeOK, Tabs!Add
    PROVE  LET u == inside.user
           IN  /\ u \in Users /\ UNCHANGED <<state, entries, version, post>>
               /\ list' \in [Users -> Seq(Tabs!Items)]
               /\ \A v \in Users \ {u} : list'[v] = list[v]
               /\ ~\E v : Tabs!Removing(v) \/ Tabs!Removing(v)'
               /\ \/ /\ inside.op = "grow" /\ inside' \in Tabs!Keeping
                     /\ inside'.op = "write" /\ inside'.user = u
                     /\ list'[u] # <<>> /\ Len(list'[u]) = Len(list[u]) + 1
                     /\ list'[u][Len(list'[u])] = Tabs!NoConnection
                     /\ \A i \in 1..Len(list[u]) : list'[u][i] = list[u][i]
                  \/ /\ inside.op = "write" /\ inside' = Tabs!Free
                     /\ Len(list'[u]) = Len(list[u])
                     /\ \A i \in 1..(Len(list[u]) - 1) : list'[u][i] = list[u][i]
PROOF
  <1> DEFINE u == inside.user
  <1>1. (Half \/ Rest) /\ UNCHANGED <<state, entries, version, post>>
    BY DEF Tabs!Add, Half, Rest
  <1>2. /\ inside \in Tabs!Keeping /\ u \in Users /\ list[u] \in Seq(Tabs!Items)
        /\ list \in [Users -> Seq(Tabs!Items)]
        /\ inside.op \in {"grow", "write"} /\ inside.connection \in Connections
    BY <1>1, InsideFields DEF Half, Rest, Tabs!Keeping, Tabs!TypeOK
  <1>3. CASE Half
    <2>1. list' = [list EXCEPT ![u] = Append(list[u], Tabs!NoConnection)]
      BY <1>2, <1>3 DEF Half
    <2>2. list'[u] = Append(list[u], Tabs!NoConnection)
      BY <1>2, <2>1
    <2>3. inside' \in Tabs!Keeping /\ inside'.op = "write" /\ inside'.user = u
      BY <1>2, <1>3 DEF Half, Tabs!Keeping
    <2>4. /\ list'[u] \in Seq(Tabs!Items) /\ Len(list'[u]) = Len(list[u]) + 1
          /\ list'[u] # <<>> /\ list'[u][Len(list'[u])] = Tabs!NoConnection
          /\ \A i \in 1..Len(list[u]) : list'[u][i] = list[u][i]
      BY <1>2, <2>2, Grown, ItemOrNone
    <2>5. /\ list' \in [Users -> Seq(Tabs!Items)]
          /\ \A v \in Users \ {u} : list'[v] = list[v]
      BY <1>2, <2>1, <2>2, <2>4
    <2>6. ~\E v : Tabs!Removing(v) \/ Tabs!Removing(v)'
      BY <1>2, <2>3 DEF Tabs!Removing
    <2> QED
      BY <1>1, <1>2, <1>3, <2>3, <2>4, <2>5, <2>6 DEF Half
  <1>4. CASE Rest
    <2>1. list' = [list EXCEPT ![u] = Append(Tabs!Front(list[u]), inside.connection)]
      BY <1>2, <1>4 DEF Rest
    <2>2. list'[u] = Append(Tabs!Front(list[u]), inside.connection)
      BY <1>2, <2>1
    <2>3. list[u] # <<>>
      BY <1>4 DEF Rest, Tabs!TypeOK
    <2>4. /\ list'[u] \in Seq(Tabs!Items) /\ Len(list'[u]) = Len(list[u])
          /\ \A i \in 1..(Len(list[u]) - 1) : list'[u][i] = list[u][i]
      BY <1>2, <2>2, <2>3, ItemWritten, ItemOrNone
    <2>5. /\ list' \in [Users -> Seq(Tabs!Items)]
          /\ \A v \in Users \ {u} : list'[v] = list[v]
      BY <1>2, <2>1, <2>2, <2>4
    <2>6. ~\E v : Tabs!Removing(v) \/ Tabs!Removing(v)'
      BY <1>2, <1>4 DEF Tabs!Removing, Rest, Tabs!Free
    <2> QED
      BY <1>1, <1>2, <1>4, <2>4, <2>5, <2>6 DEF Rest
  <1> QED
    BY <1>1, <1>3, <1>4

LEMMA GapMoves ==
    ASSUME NEW g \in Tabs!Gap, NEW n \in Nat \ {0}
    PROVE  LET x == [g EXCEPT !.gap = n]
           IN  x \in Tabs!Gap /\ x.op = "remove" /\ x.user = g.user /\ x.gap = n
PROOF
  <1>1. g = [op |-> "remove", user |-> g.user, gap |-> g.gap] /\ g.user \in Users
    BY DEF Tabs!Gap
  <1>2. [g EXCEPT !.gap = n] = [op |-> "remove", user |-> g.user, gap |-> n]
    BY <1>1
  <1> QED
    BY <1>1, <1>2 DEF Tabs!Gap

\* A removal is at work and its gap moves, or it ends and the version is a new one.
LEMMA RemoveAtGapEffect ==
    ASSUME Tabs!TypeOK, Tabs!RemoveAtGap
    PROVE  LET u == inside.user
           IN  /\ u \in Users /\ UNCHANGED <<state, entries, post>>
               /\ list' \in [Users -> Seq(Tabs!Items)] /\ version' \in [Users -> Nat]
               /\ \A v \in Users \ {u} : list'[v] = list[v] /\ version'[v] = version[v]
               /\ Tabs!Removing(u)
               /\ \/ /\ version' = version /\ inside' \in Tabs!Gap
                     /\ inside'.op = "remove" /\ inside'.user = u
                     /\ inside'.gap <= Len(list'[u])
                  \/ version'[u] = version[u] + 1 /\ inside' = Tabs!Free
PROOF
  <1> DEFINE u == inside.user  i == inside.gap
  <1>1. /\ inside \in Tabs!Gap /\ u \in Users /\ list[u] \in Seq(Tabs!Items)
        /\ inside.op = "remove" /\ i \in Nat \ {0} /\ i <= Len(list[u])
        /\ list \in [Users -> Seq(Tabs!Items)] /\ version \in [Users -> Nat]
    BY InsideFields DEF Tabs!RemoveAtGap, Tabs!Gap, Tabs!TypeOK
  <1>2. CASE /\ i < Len(list[u]) /\ list' = [list EXCEPT ![u][i] = list[u][i + 1]]
             /\ inside' = [inside EXCEPT !.gap = i + 1] /\ UNCHANGED version
    <2>1. list' = [list EXCEPT ![u] = [list[u] EXCEPT ![i] = list[u][i + 1]]]
      BY <1>1, <1>2
    <2>2. list'[u] \in Seq(Tabs!Items) /\ Len(list'[u]) = Len(list[u])
      BY <1>1, <1>2, <2>1, MovedUp
    <2>3. /\ list' \in [Users -> Seq(Tabs!Items)]
          /\ \A v \in Users \ {u} : list'[v] = list[v]
      BY <1>1, <2>1, <2>2
    <2>4. /\ inside' \in Tabs!Gap /\ inside'.op = "remove" /\ inside'.user = u
          /\ inside'.gap = i + 1
      <3> DEFINE k == i + 1
      <3>1. inside \in Tabs!Gap /\ k \in Nat \ {0}
        BY <1>1
      <3>2. inside' = [inside EXCEPT !.gap = k]
        BY <1>2
      <3> HIDE DEF k
      <3>3. /\ inside' \in Tabs!Gap /\ inside'.op = "remove" /\ inside'.user = u
            /\ inside'.gap = k
        BY <3>1, <3>2, GapMoves
      <3> QED
        BY <3>3 DEF k
    <2>5. i + 1 <= Len(list'[u])
      BY <1>1, <1>2, <2>2
    <2> QED
      BY <1>1, <1>2, <2>3, <2>4, <2>5 DEF Tabs!RemoveAtGap, Tabs!Removing
  <1>3. CASE /\ i = Len(list[u]) /\ list' = [list EXCEPT ![u] = Tabs!Front(@)]
             /\ version' = [version EXCEPT ![u] = @ + 1] /\ inside' = Tabs!Free
    <2>1. list[u] # <<>> /\ Tabs!Front(list[u]) \in Seq(Tabs!Items)
      <3>1. list[u] # <<>>
        BY <1>1
      <3> QED
        BY <1>1, <3>1, Shortened
    <2>2. /\ list' \in [Users -> Seq(Tabs!Items)] /\ version' \in [Users -> Nat]
          /\ \A v \in Users \ {u} : list'[v] = list[v] /\ version'[v] = version[v]
          /\ version'[u] = version[u] + 1
      BY <1>1, <1>3, <2>1
    <2> QED
      BY <1>1, <1>3, <2>2 DEF Tabs!RemoveAtGap, Tabs!Removing
  <1> QED
    BY <1>2, <1>3 DEF Tabs!RemoveAtGap

\* GetConnectionId and OnDisconnectedAsync touch no list.
LEMMA LockTaken ==
    ASSUME Tabs!TypeOK, NEW c \in Connections,
           Tabs!GetConnectionId(c) \/ Tabs!OnDisconnectedAsync(c)
    PROVE  /\ UNCHANGED <<list, post>> /\ inside = Tabs!Free
           /\ state' \in [Connections -> {"new", "connected", "kept", "gone"}]
           /\ entries' \subseteq Users /\ version' \in [Users -> Nat]
           /\ inside' \in {Tabs!Free} \cup Tabs!Keeping \cup Tabs!Gap
           /\ inside'.op # "write"
           /\ inside'.op = "remove" => inside'.gap <= Len(list[inside'.user])
           /\ \A u \in Users : version'[u] = version[u] \/ version'[u] > version[u]
PROOF
  <1>1. CASE Tabs!GetConnectionId(c)
    <2>1. UserOf[c] \in Users
      BY ServicesAssumption
    <2>2. /\ inside' \in Tabs!Keeping /\ inside'.op = "grow"
          /\ state' \in [Connections -> {"new", "connected", "kept", "gone"}]
          /\ UNCHANGED <<list, post>> /\ inside = Tabs!Free
      BY <1>1, <2>1 DEF Tabs!GetConnectionId, Tabs!Keeping, Tabs!TypeOK
    <2>3. entries' = entries \cup {UserOf[c]}
          /\ version' = [version EXCEPT ![UserOf[c]] = @ + 1]
      BY <1>1 DEF Tabs!GetConnectionId
    <2>4. /\ entries' \subseteq Users /\ version' \in [Users -> Nat]
          /\ \A u \in Users : version'[u] = version[u] \/ version'[u] > version[u]
      BY <2>1, <2>3 DEF Tabs!TypeOK
    <2> QED
      BY <2>2, <2>4
  <1>2. CASE Tabs!OnDisconnectedAsync(c)
    <2>1. /\ UNCHANGED <<list, post, entries, version>> /\ inside = Tabs!Free
          /\ state' \in [Connections -> {"new", "connected", "kept", "gone"}]
      BY <1>2 DEF Tabs!OnDisconnectedAsync, Tabs!TypeOK
    <2>2. ASSUME NEW u \in entries, NEW i \in Tabs!IndexOf(list[u], c),
                 inside' = [op |-> "remove", user |-> u, gap |-> i]
          PROVE  /\ inside' \in Tabs!Gap /\ inside'.op = "remove"
                 /\ inside'.gap <= Len(list[inside'.user])
      <3>1. u \in Users /\ list[u] \in Seq(Tabs!Items)
        BY DEF Tabs!TypeOK
      <3>2. i \in Nat \ {0} /\ i <= Len(list[u])
        BY <3>1 DEF Tabs!IndexOf
      <3> QED
        BY <2>2, <3>1, <3>2 DEF Tabs!Gap
    <2>3. CASE UNCHANGED inside
      BY <2>1, <2>3 DEF Tabs!TypeOK, Tabs!Free
    <2>4. CASE \E u \in entries : \E i \in Tabs!IndexOf(list[u], c) :
                  inside' = [op |-> "remove", user |-> u, gap |-> i]
      BY <2>1, <2>2, <2>4 DEF Tabs!TypeOK
    <2> QED
      BY <1>2, <2>3, <2>4 DEF Tabs!OnDisconnectedAsync
  <1> QED
    BY <1>1, <1>2

LEMMA TabsTypeStep ==
    ASSUME Tabs!TypeOK, [Tabs!Next]_tabsVars
    PROVE  Tabs!TypeOK'
PROOF
  <1>1. ASSUME NEW c \in Connections, Tabs!Connect(c)
        PROVE  Tabs!TypeOK'
    BY <1>1 DEF Tabs!TypeOK, Tabs!Connect, Tabs!Listed, Tabs!Sending, Tabs!Done, Tabs!Idle
  <1>2. ASSUME NEW c \in Connections, Tabs!GetConnectionId(c) \/ Tabs!OnDisconnectedAsync(c)
        PROVE  Tabs!TypeOK'
    BY <1>2, LockTaken DEF Tabs!TypeOK
  <1>3. CASE Tabs!Add
    BY <1>3, AddEffect DEF Tabs!TypeOK, Tabs!Keeping, Tabs!Free
  <1>4. CASE Tabs!RemoveAtGap
    BY <1>4, RemoveAtGapEffect DEF Tabs!TypeOK, Tabs!Gap, Tabs!Free
  <1>5. ASSUME NEW p \in Posts, NEW u \in Users, Tabs!AdminUser(p, u)
        PROVE  Tabs!TypeOK'
    <2>1. [at |-> "listed", user |-> u] \in Requests /\ [at |-> "threw"] \in Requests
      BY DEF Tabs!Listed, Requests
    <2>2. post' \in [Posts -> Requests]
      BY <1>5, <2>1 DEF Tabs!AdminUser, Tabs!TypeOK, Requests
    <2> QED
      BY <1>5, <2>2 DEF Tabs!AdminUser, Tabs!TypeOK, Requests
  <1>6. ASSUME NEW p \in Posts, Tabs!SendToUser(p)
        PROVE  Tabs!TypeOK'
    BY <1>6, SendToUserEffect DEF Tabs!TypeOK, Requests
  <1>7. ASSUME NEW p \in Posts, Tabs!BeginForeach(p)
        PROVE  Tabs!TypeOK'
    BY <1>7, BeginForeachEffect DEF Tabs!TypeOK, Requests
  <1>8. CASE UNCHANGED tabsVars
    BY <1>8 DEF Tabs!TypeOK, tabsVars
  <1> QED
    BY <1>1, <1>2, <1>3, <1>4, <1>5, <1>6, <1>7, <1>8 DEF Tabs!Next

\* What a walk of request p has reached.
Walked(p) ==
    LET u == post[p].user
    IN  /\ post[p].version <= version[u]
        /\ post[p].version = version[u] /\ ~Tabs!Removing(u)
              => /\ post[p].next <= Len(list[u]) + 1
                 /\ post[p].sent = Before(list[u], post[p].next)
        /\ post[p].version = version[u] /\ inside.op = "write" /\ inside.user = u
              => post[p].next <= Len(list[u])

LEMMA AddWalked ==
    ASSUME Tabs!TypeOK, Tabs!Add, NEW p \in Posts, post[p].at = "sending", Walked(p)
    PROVE  Walked(p)'
PROOF
  <1> DEFINE u == post[p].user
  <1>1. /\ UNCHANGED <<version, post>> /\ inside.user \in Users
        /\ \A v \in Users \ {inside.user} : list'[v] = list[v]
        /\ ~Tabs!Removing(u) /\ ~Tabs!Removing(u)'
    BY AddEffect
  <1>2. /\ u \in Users /\ post[p].next \in Nat \ {0} /\ list[u] \in Seq(Tabs!Items)
    BY SendingPost
  <1>3. CASE u # inside.user
    <2>1. list'[u] = list[u] /\ ~(inside'.op = "write" /\ inside'.user = u)
      BY <1>1, <1>2, <1>3, AddEffect DEF Tabs!Free
    <2> QED
      BY <1>1, <2>1 DEF Walked
  <1>4. CASE u = inside.user /\ post[p].version = version[u]
    <2>1. post[p].next <= Len(list[u]) + 1 /\ post[p].sent = Before(list[u], post[p].next)
      BY <1>1, <1>4 DEF Walked
    <2>2. CASE /\ Len(list'[u]) = Len(list[u]) + 1
               /\ \A i \in 1..Len(list[u]) : list'[u][i] = list[u][i]
      <3>1. post[p].next <= Len(list'[u]) /\ Len(list'[u]) \in Nat
        BY <1>2, <2>1, <2>2
      <3>2. \A i \in 1..(post[p].next - 1) : list'[u][i] = list[u][i]
        BY <1>2, <2>1, <2>2
      <3>3. Before(list'[u], post[p].next) = Before(list[u], post[p].next)
        BY <3>2 DEF Before
      <3> QED
        BY <1>1, <1>2, <2>1, <3>1, <3>3 DEF Walked
    <2>3. CASE /\ inside.op = "write" /\ inside' = Tabs!Free /\ Len(list'[u]) = Len(list[u])
               /\ \A i \in 1..(Len(list[u]) - 1) : list'[u][i] = list[u][i]
      <3>1. post[p].next <= Len(list[u])
        BY <1>4, <2>3 DEF Walked
      <3>2. \A i \in 1..(post[p].next - 1) : list'[u][i] = list[u][i]
        BY <1>2, <2>3, <3>1
      <3>3. Before(list'[u], post[p].next) = Before(list[u], post[p].next)
        BY <3>2 DEF Before
      <3> QED
        BY <1>1, <1>2, <2>1, <2>3, <3>3 DEF Walked, Tabs!Free
    <2> QED
      BY <1>4, <2>2, <2>3, AddEffect
  <1>5. CASE post[p].version # version[u]
    BY <1>1, <1>5 DEF Walked
  <1> QED
    BY <1>3, <1>4, <1>5

LEMMA WalkStep ==
    ASSUME Tabs!TypeOK, WalkInv, [Tabs!Next]_tabsVars
    PROVE  WalkInv'
PROOF
  <1> DEFINE Last == inside.op = "write"
                        => list[inside.user][Len(list[inside.user])] = Tabs!NoConnection
  <1>0. WalkInv' <=> Last' /\ \A p \in Posts : post'[p].at = "sending" => Walked(p)'
    BY DEF WalkInv, Walked
  <1>00. Last /\ \A p \in Posts : post[p].at = "sending" => Walked(p)
    BY DEF WalkInv, Walked
  <1>1. CASE UNCHANGED <<list, version, inside, post>>
    BY <1>1 DEF WalkInv, Tabs!Removing
  <1>2. ASSUME NEW c \in Connections, Tabs!GetConnectionId(c) \/ Tabs!OnDisconnectedAsync(c)
        PROVE  WalkInv'
    <2> SUFFICES ASSUME NEW p \in Posts, post[p].at = "sending" PROVE Walked(p)'
      BY <1>0, <1>2, LockTaken
    <2> DEFINE u == post[p].user
    <2>1. u \in Users /\ post[p].version \in Nat /\ version[u] \in Nat
      BY SendingPost
    <2>2. /\ UNCHANGED <<list, post>> /\ version'[u] \in Nat /\ inside'.op # "write"
          /\ version'[u] = version[u] \/ version'[u] > version[u]
          /\ ~Tabs!Removing(u)
      BY <1>2, <2>1, LockTaken DEF Tabs!Removing, Tabs!Free
    <2>3. Walked(p)
      BY <1>00
    <2> QED
      BY <2>1, <2>2, <2>3 DEF Walked
  <1>3. CASE Tabs!Add
    <2>1. Last'
      BY <1>3, AddEffect DEF Tabs!Free
    <2>2. UNCHANGED post
      BY <1>3 DEF Tabs!Add
    <2> QED
      BY <1>0, <1>00, <1>3, <2>1, <2>2, AddWalked
  <1>4. CASE Tabs!RemoveAtGap
    <2>1. Last' /\ UNCHANGED post
      BY <1>4, RemoveAtGapEffect DEF Tabs!Free
    <2>2. ASSUME NEW p \in Posts, post[p].at = "sending" PROVE Walked(p)'
      <3> DEFINE u == post[p].user
      <3>1. u \in Users /\ post[p].version \in Nat /\ version[u] \in Nat /\ Walked(p)
        BY <1>00, <2>2, SendingPost
      <3>2. CASE u # inside.user
        <4>1. list'[u] = list[u] /\ version'[u] = version[u] /\ ~Tabs!Removing(u)
          BY <1>4, <3>1, <3>2, RemoveAtGapEffect DEF Tabs!Removing
        <4>2. ~(inside'.op = "write")
          BY <1>4, RemoveAtGapEffect DEF Tabs!Free
        <4> QED
          BY <2>1, <3>1, <4>1, <4>2 DEF Walked
      <3>3. CASE u = inside.user /\ version' = version /\ Tabs!Removing(u)'
        BY <2>1, <3>1, <3>3 DEF Walked, Tabs!Removing
      <3>4. CASE u = inside.user /\ version'[u] = version[u] + 1
        BY <2>1, <3>1, <3>4 DEF Walked
      <3> QED
        BY <1>4, <3>2, <3>3, <3>4, RemoveAtGapEffect DEF Tabs!Removing
    <2> QED
      BY <1>0, <2>1, <2>2
  <1>5. ASSUME NEW p \in Posts, NEW u \in Users, Tabs!AdminUser(p, u)
        PROVE  WalkInv'
    <2>1. UNCHANGED <<list, version, inside>> /\ \A q \in Posts \ {p} : post'[q] = post[q]
      BY <1>5 DEF Tabs!AdminUser, Tabs!TypeOK
    <2>2. post'[p].at # "sending"
      BY <1>5 DEF Tabs!AdminUser, Tabs!TypeOK
    <2> QED
      BY <1>0, <1>00, <2>1, <2>2 DEF Walked, Tabs!Removing
  <1>6. ASSUME NEW p \in Posts, Tabs!BeginForeach(p)
        PROVE  WalkInv'
    <2> DEFINE u == post[p].user
    <2>1. /\ UNCHANGED <<list, version, inside>> /\ \A q \in Posts \ {p} : post'[q] = post[q]
          /\ Begun(p) /\ u \in Users /\ list[u] \in Seq(Tabs!Items) /\ version[u] \in Nat
      BY <1>6, BeginForeachEffect, ListedPost
    <2>2. \A q \in Posts \ {p} : post'[q].at = "sending" => Walked(q)'
      BY <1>00, <2>1 DEF Walked, Tabs!Removing
    <2>3. ASSUME post'[p].at = "sending" PROVE Walked(p)'
      <3>1. /\ post'[p].user = u /\ post'[p].version = version[u] /\ post'[p].next = 1
            /\ post'[p].sent = {}
        BY <2>1, <2>3 DEF Begun
      <3>2. Before(list[u], 1) = {}
        BY DEF Before
      <3>3. 1 <= Len(list[u]) + 1 /\ (list[u] # <<>> => 1 <= Len(list[u]))
        BY <2>1
      <3>4. inside.op = "write" /\ inside.user = u => list[u] # <<>>
        BY DEF Tabs!TypeOK
      <3> QED
        BY <2>1, <3>1, <3>2, <3>3, <3>4 DEF Walked, Tabs!Removing
    <2> QED
      BY <1>0, <1>00, <2>1, <2>2, <2>3
  <1>7. ASSUME NEW p \in Posts, Tabs!SendToUser(p)
        PROVE  WalkInv'
    <2> DEFINE u == post[p].user  n == post[p].next
    <2>1. /\ UNCHANGED <<list, version, inside>> /\ \A q \in Posts \ {p} : post'[q] = post[q]
          /\ Turn(p) /\ post[p].at = "sending"
      BY <1>7, SendToUserEffect DEF Tabs!SendToUser
    <2>2. \A q \in Posts \ {p} : post'[q].at = "sending" => Walked(q)'
      BY <1>00, <2>1 DEF Walked, Tabs!Removing
    <2>3. ASSUME post'[p].at = "sending" PROVE Walked(p)'
      <3>1. /\ post[p].version = version[u] /\ n <= Tabs!Size(u)
            /\ list[u][n] # Tabs!NoConnection
            /\ post'[p].user = u /\ post'[p].version = version[u] /\ post'[p].next = n + 1
            /\ post'[p].sent = post[p].sent \cup {list[u][n]}
        BY <2>1, <2>3 DEF Turn
      <3>2. list[u] \in Seq(Tabs!Items) /\ version[u] \in Nat /\ n \in Nat \ {0} /\ Walked(p)
        BY <1>00, <2>1, SendingPost
      <3>3. ~Tabs!Removing(u)
               => n + 1 <= Len(list[u]) + 1 /\ post'[p].sent = Before(list[u], n + 1)
        <4> SUFFICES ASSUME ~Tabs!Removing(u)
                     PROVE  n + 1 <= Len(list[u]) + 1 /\ post'[p].sent = Before(list[u], n + 1)
          OBVIOUS
        <4>1. n <= Len(list[u]) /\ Len(list[u]) \in Nat
          BY <3>1, <3>2 DEF Tabs!Size
        <4>2. post[p].sent = Before(list[u], n)
          BY <3>1, <3>2 DEF Walked
        <4>3. Before(list[u], n + 1) = Before(list[u], n) \cup {list[u][n]}
          BY <3>2, BeforeNext
        <4> QED
          BY <3>1, <3>2, <4>1, <4>2, <4>3
      <3>4. inside.op = "write" /\ inside.user = u => n + 1 <= Len(list[u])
        <4> SUFFICES ASSUME inside.op = "write", inside.user = u PROVE n + 1 <= Len(list[u])
          OBVIOUS
        <4>1. n <= Len(list[u]) /\ n # Len(list[u]) /\ Len(list[u]) \in Nat
          BY <1>00, <3>1, <3>2 DEF Walked
        <4> QED
          BY <3>2, <4>1
      <3> QED
        BY <2>1, <3>1, <3>2, <3>3, <3>4 DEF Walked, Tabs!Removing
    <2> QED
      BY <1>0, <1>00, <2>1, <2>2, <2>3
  <1> QED
    BY <1>1, <1>2, <1>3, <1>4, <1>5, <1>6, <1>7 DEF Tabs!Next, Tabs!Connect, tabsVars

LEMMA WalkInvariant == Tabs!Spec => [](Tabs!TypeOK /\ WalkInv)
PROOF
  <1>1. Tabs!Init => Tabs!TypeOK /\ WalkInv
    BY TabsTypeInit DEF Tabs!Init, WalkInv, Tabs!Idle, Tabs!Free
  <1>2. Tabs!TypeOK /\ WalkInv /\ [Tabs!Next]_tabsVars => (Tabs!TypeOK /\ WalkInv)'
    BY TabsTypeStep, WalkStep
  <1>3. Tabs!Spec => Tabs!Init /\ [][Tabs!Next]_tabsVars
    BY PTL DEF Tabs!Spec, Tabs!vars, tabsVars
  <1> QED
    BY <1>1, <1>2, <1>3, PTL

\* HomeController.cs:76-83 beside UserConnectionManager.cs:12-41: the version of the list
\* makes up for the lock that AdminUser has given up, except in the moment of a removal.
THEOREM DoneReached == Tabs!Spec => DoneReachesAll
PROOF
  <1> DEFINE SentToAll == \A p \in Posts : post'[p].at = "done" /\ post[p].at # "done"
                        => \/ post'[p].sent = Tabs!Members(list[post'[p].user])
                           \/ Tabs!Removing(post'[p].user)
  <1>1. ASSUME Tabs!TypeOK, WalkInv, [Tabs!Next]_tabsVars
        PROVE  [SentToAll]_tabsVars
    <2> SUFFICES ASSUME NEW p \in Posts, post'[p].at = "done", post[p].at # "done",
                        ~Tabs!Removing(post'[p].user)
                 PROVE  post'[p].sent = Tabs!Members(list[post'[p].user])
      OBVIOUS
    <2>1. CASE Tabs!BeginForeach(p)
      <3> DEFINE u == post[p].user
      <3>1. Tabs!Size(u) = 0 /\ post'[p].user = u /\ post'[p].sent = {}
        BY <1>1, <2>1, BeginForeachEffect DEF Begun
      <3>2. Len(list[u]) = 0 /\ list[u] \in Seq(Tabs!Items)
        BY <1>1, <2>1, <3>1, BeginForeachEffect, ListedPost DEF Tabs!Size
      <3> QED
        BY <3>1, <3>2 DEF Tabs!Members
    <2>2. CASE Tabs!SendToUser(p)
      <3> DEFINE u == post[p].user  n == post[p].next
      <3>1. /\ post[p].version = version[u] /\ n > Tabs!Size(u)
            /\ post'[p].user = u /\ post'[p].sent = post[p].sent
        BY <1>1, <2>2, SendToUserEffect DEF Turn
      <3>2. /\ list[u] \in Seq(Tabs!Items) /\ n \in Nat \ {0} /\ n <= Len(list[u]) + 1
            /\ post[p].sent = Before(list[u], n)
        BY <1>1, <2>2, <3>1, SendingPost DEF WalkInv, Tabs!SendToUser
      <3>3. n = Len(list[u]) + 1
        BY <3>1, <3>2 DEF Tabs!Size
      <3>4. 1..(n - 1) = DOMAIN list[u]
        BY <3>2, <3>3
      <3> QED
        BY <3>1, <3>2, <3>4 DEF Tabs!Members, Before
    <2>3. CASE post'[p] = post[p]
      BY <2>3
    <2>4. ASSUME NEW q \in Posts, q # p,
                 \/ Tabs!SendToUser(q) \/ Tabs!BeginForeach(q)
                 \/ \E u \in Users : Tabs!AdminUser(q, u)
          PROVE  post'[p] = post[p]
      BY <1>1, <2>4, SendToUserEffect, BeginForeachEffect DEF Tabs!AdminUser, Tabs!TypeOK
    <2>5. ASSUME NEW u \in Users, Tabs!AdminUser(p, u)
          PROVE  post'[p].at # "done"
      BY <1>1, <2>5 DEF Tabs!AdminUser, Tabs!TypeOK
    <2> QED
      BY <1>1, <2>1, <2>2, <2>3, <2>4, <2>5
         DEF Tabs!Next, Tabs!Connect, Tabs!GetConnectionId, Tabs!OnDisconnectedAsync,
             Tabs!Add, Tabs!RemoveAtGap, tabsVars
  <1>2. Tabs!Spec => [][Tabs!Next]_tabsVars
    BY PTL DEF Tabs!Spec, Tabs!vars, tabsVars
  <1>3. Tabs!Spec => [][SentToAll]_tabsVars
    BY <1>1, <1>2, WalkInvariant, PTL
  <1> QED
    BY <1>3 DEF DoneReachesAll, Tabs!DoneReachesAll, Tabs!vars, tabsVars

-----------------------------------------------------------------------------
(* Webhooks: what was answered with 200 is in the list *)

Kept == {h \in Hooks!Hooks : hook[h] = "kept"}

\* The types of the handler's variables, and those of the list.
SendType ==
    /\ rows \subseteq Subscriptions
    /\ event \in 0..MaxEvents /\ sending \in BOOLEAN
    /\ unsent \subseteq Subscriptions /\ asked \subseteq Hooks!Hooks
    /\ broken \subseteq 1..MaxEvents
    /\ sending => event \in 1..MaxEvents
HookType ==
    hook \in [Hooks!Hooks -> {"none", "posted", "adding", "kept", "failed", "refused"}]
ListType ==
    /\ slot \in [Hooks!Hooks -> Nat] /\ size \in Nat /\ overlapped \subseteq Hooks!Hooks
    /\ items \in [1..Hooks!Cardinality(Hooks!Hooks) -> Hooks!Hooks \cup {Hooks!NoHook}]

\* The list is no longer than the hooks kept, and one that is being added has a place there.
Placed ==
    /\ size <= Cardinality(Kept)
    /\ \A h \in Hooks!Hooks : slot[h] <= Cardinality(Hooks!Hooks)
    /\ \A h \in Hooks!Adding : slot[h] \in 1..(Cardinality(Kept) + 1)

\* A request is started once: for no message to come, and for no subscription still to be
\* sent to, has one been.
Fresh ==
    \A h \in Hooks!Hooks :
       hook[h] # "none" => h[2] <= event /\ (sending /\ h[2] = event => h[1] \notin unsent)

ListInv == SendType /\ HookType /\ ListType /\ Fresh /\ Placed

\* A hook that is alone is put behind the last one; one that is in the list stays there, as
\* those that are being added come behind it.
KeepInv ==
    /\ \A h \in Hooks!Adding :
          h \notin overlapped => Hooks!Adding = {h} /\ slot[h] = size + 1
    /\ \A h \in Kept :
          h \notin overlapped
             => \E i \in 1..size : items[i] = h /\ \A g \in Hooks!Adding : slot[g] > i

LEMMA HooksCardinality ==
    ASSUME NEW S
    PROVE  Hooks!Cardinality(S) = Cardinality(S)
  BY DEF Cardinality, Hooks!Cardinality

LEMMA HooksFinite ==
    /\ IsFiniteSet(Hooks!Hooks) /\ Cardinality(Hooks!Hooks) \in Nat
    /\ IsFiniteSet(Kept) /\ Cardinality(Kept) \in Nat
    /\ Cardinality(Kept) <= Cardinality(Hooks!Hooks)
    /\ \A h \in Hooks!Hooks \ Kept : /\ Cardinality(Kept) + 1 <= Cardinality(Hooks!Hooks)
                                     /\ Cardinality(Kept \cup {h}) = Cardinality(Kept) + 1
PROOF
  <1>1. IsFiniteSet(Hooks!Hooks)
    <2>1. MaxEvents \in Nat /\ IsFiniteSet(Subscriptions)
      BY ServicesAssumption
    <2>2. IsFiniteSet(1..MaxEvents)
      BY <2>1, FS_Interval
    <2> QED
      BY <2>1, <2>2, FS_Product DEF Hooks!Hooks
  <1>2. IsFiniteSet(Kept) /\ Cardinality(Kept) <= Cardinality(Hooks!Hooks)
    BY <1>1, FS_Subset DEF Kept
  <1>3. Cardinality(Kept) \in Nat /\ Cardinality(Hooks!Hooks) \in Nat
    BY <1>1, <1>2, FS_CardinalityType
  <1>4. ASSUME NEW h \in Hooks!Hooks \ Kept
        PROVE  /\ Cardinality(Kept) + 1 <= Cardinality(Hooks!Hooks)
               /\ Cardinality(Kept \cup {h}) = Cardinality(Kept) + 1
    <2>1. Cardinality(Kept \cup {h}) = Cardinality(Kept) + 1
      BY <1>2, <1>4, FS_AddElement
    <2>2. Kept \cup {h} \in SUBSET Hooks!Hooks
      BY DEF Kept
    <2>3. Cardinality(Kept \cup {h}) <= Cardinality(Hooks!Hooks)
      BY <1>1, <2>2, FS_Subset
    <2> QED
      BY <2>1, <2>3
  <1> QED
    BY <1>1, <1>2, <1>3, <1>4

LEMMA ListInit ==
    ASSUME Hooks!Init
    PROVE  ListInv /\ KeepInv
PROOF
  <1>1. Kept = {} /\ Hooks!Adding = {}
    BY DEF Hooks!Init, Kept, Hooks!Adding
  <1>2. SendType /\ HookType /\ Fresh
    <2>1. hook = [h \in Hooks!Hooks |-> "none"] /\ rows = {} /\ event = 0 /\ sending = FALSE
          /\ unsent = {} /\ asked = {} /\ broken = {} /\ MaxEvents \in Nat
      BY ServicesAssumption DEF Hooks!Init
    <2>2. 0 \in 0..MaxEvents
      BY <2>1
    <2>3. SendType
      BY <2>1, <2>2, Zenon DEF SendType
    <2> QED
      BY <2>1, <2>3 DEF HookType, Fresh
  <1>3. ListType
    BY DEF Hooks!Init, ListType
  <1>4. Placed
    BY <1>1, HooksFinite DEF Hooks!Init, Placed
  <1> QED
    BY <1>1, <1>2, <1>3, <1>4 DEF ListInv, KeepInv

\* The steps outside the list: those of the sender, and the requests that fail or are refused.
Outside ==
    \/ \E s \in Subscriptions : Hooks!SubscribeWebhook(s) \/ Hooks!UnsubscribeWebhook(s)
    \/ Hooks!Handle \/ Hooks!Crash
    \/ \E h \in Hooks!Hooks : Hooks!RequestFails(h) \/ Hooks!BadRequest(h)
    \/ UNCHANGED hooksVars

\* What becomes of a request that is not being added.
Elsewhere(h) ==
    /\ hook[h] \in {"none", "posted"}
    /\ \E t \in {"posted", "failed", "refused"} : hook' = [hook EXCEPT ![h] = t]

LEMMA OutsideSteps ==
    ASSUME ListInv, Outside
    PROVE  /\ SendType' /\ HookType' /\ Fresh' /\ UNCHANGED <<slot, size, items, overlapped>>
           /\ hook' = hook \/ \E h \in Hooks!Hooks : Elsewhere(h)
PROOF
  <1>1. ASSUME NEW s \in Subscriptions, Hooks!SubscribeWebhook(s) \/ Hooks!UnsubscribeWebhook(s)
        PROVE  SendType' /\ UNCHANGED <<event, sending, unsent, hook, slot, size, items, overlapped>>
    <2>1. /\ UNCHANGED <<event, sending, unsent, asked, broken, hook>>
          /\ UNCHANGED <<slot, size, items, overlapped>>
          /\ rows' = rows \cup {s} \/ rows' = rows \ {s}
      BY <1>1 DEF Hooks!SubscribeWebhook, Hooks!UnsubscribeWebhook, Hooks!clientVars
    <2> QED
      BY <2>1 DEF ListInv, SendType
  <1>2. CASE Hooks!GetSubscriptionsOfType
    <2>1. event' = event + 1 /\ event + 1 \in 1..MaxEvents /\ event \in Nat
      BY <1>2, ServicesAssumption DEF ListInv, SendType, Hooks!GetSubscriptionsOfType
    <2>2. rows \X {event + 1} \subseteq Hooks!Hooks
      BY <2>1 DEF ListInv, SendType, Hooks!Hooks
    <2>3. SendType' /\ UNCHANGED <<hook, slot, size, items, overlapped>>
      BY <1>2, <2>1, <2>2, ServicesAssumption
         DEF ListInv, SendType, Hooks!GetSubscriptionsOfType, Hooks!clientVars
    <2>4. \A h \in Hooks!Hooks : h[2] \in Nat
      BY ServicesAssumption DEF Hooks!Hooks
    <2> QED
      BY <2>1, <2>3, <2>4 DEF ListInv, HookType, Fresh
  <1>3. CASE Hooks!WhenAll
    <2>1. /\ sending' = FALSE
          /\ UNCHANGED <<rows, event, unsent, asked, broken, hook, slot, size, items, overlapped>>
      BY <1>3 DEF Hooks!WhenAll, Hooks!clientVars
    <2> QED
      BY <2>1 DEF ListInv, SendType, HookType, Fresh
  <1>4. CASE UNCHANGED hooksVars
    <2>1. UNCHANGED <<rows, event, sending, unsent, asked, broken, hook>>
          /\ UNCHANGED <<slot, size, items, overlapped>>
      BY <1>4 DEF hooksVars
    <2> QED
      BY <2>1, Zenon DEF ListInv, SendType, HookType, Fresh
  <1>5. ASSUME NEW s \in Subscriptions, Hooks!OnSendData(s)
        PROVE  /\ SendType' /\ HookType' /\ Fresh' /\ UNCHANGED <<slot, size, items, overlapped>>
               /\ hook' = hook \/ \E h \in Hooks!Hooks : Elsewhere(h)
    <2> DEFINE g == <<s, event>>
    <2>1. g \in Hooks!Hooks /\ hook[g] = "none" /\ event \in Nat
      BY <1>5, ServicesAssumption DEF ListInv, SendType, Fresh, Hooks!OnSendData, Hooks!Hooks
    <2>2. SendType' /\ UNCHANGED <<event, slot, size, items, overlapped>>
      <3>1. sending /\ event \in 1..MaxEvents
        BY <1>5 DEF ListInv, SendType, Hooks!OnSendData
      <3>2. broken' \subseteq 1..MaxEvents
        BY <1>5, <3>1 DEF ListInv, SendType, Hooks!OnSendData
      <3> QED
        BY <1>5, <3>2 DEF ListInv, SendType, Hooks!OnSendData, Hooks!clientVars
    <2>3. \/ hook' = hook /\ sending' = FALSE
          \/ /\ hook' = [hook EXCEPT ![g] = "posted"] /\ sending' = sending
             /\ unsent' = unsent \ {s}
      BY <1>5 DEF Hooks!OnSendData
    <2>4. HookType'
      BY <2>1, <2>3 DEF ListInv, HookType
    <2>5. Fresh'
      <3> SUFFICES ASSUME NEW h \in Hooks!Hooks, hook'[h] # "none"
                   PROVE  h[2] <= event /\ (sending' /\ h[2] = event => h[1] \notin unsent')
        BY <2>2 DEF Fresh
      <3>1. CASE h = g
        BY <2>1, <2>3, <3>1
      <3>2. CASE h # g
        BY <2>3, <3>2 DEF ListInv, HookType, Fresh
      <3> QED
        BY <3>1, <3>2
    <2> QED
      BY <2>1, <2>2, <2>3, <2>4, <2>5 DEF Elsewhere
  <1>6. CASE Hooks!Crash
    <2>1. /\ sending' = FALSE /\ unsent' = {} /\ broken' = broken \cup {event}
          /\ event \in 1..MaxEvents
          /\ UNCHANGED <<rows, event, asked, hook, slot, size, items, overlapped>>
      BY <1>6 DEF ListInv, SendType, Hooks!Crash, Hooks!clientVars
    <2> QED
      BY <2>1 DEF ListInv, SendType, HookType, Fresh
  <1>7. ASSUME NEW g \in Hooks!Hooks, Hooks!RequestFails(g) \/ Hooks!BadRequest(g)
        PROVE  /\ SendType' /\ HookType' /\ Fresh' /\ UNCHANGED <<slot, size, items, overlapped>>
               /\ hook' = hook \/ \E h \in Hooks!Hooks : Elsewhere(h)
    <2>1. PICK t \in {"failed", "refused"} :
             hook[g] = "posted" /\ hook' = [hook EXCEPT ![g] = t]
      BY <1>7 DEF Hooks!RequestFails, Hooks!BadRequest
    <2>2. UNCHANGED <<rows, event, sending, unsent, asked, broken, slot, size, items, overlapped>>
      BY <1>7 DEF Hooks!RequestFails, Hooks!BadRequest, Hooks!clientVars
    <2>3. SendType' /\ HookType' /\ Fresh'
      BY <2>1, <2>2 DEF ListInv, SendType, HookType, Fresh
    <2>4. Elsewhere(g)
      BY <2>1 DEF Elsewhere
    <2> QED
      BY <2>2, <2>3, <2>4
  <1> QED
    BY <1>1, <1>2, <1>3, <1>4, <1>5, <1>6, <1>7 DEF Outside, Hooks!Handle, ListInv, HookType, Fresh

LEMMA OutsideAdds ==
    ASSUME ListInv, Outside
    PROVE  Kept' = Kept /\ Hooks!Adding' = Hooks!Adding
PROOF
  <1>1. CASE hook' = hook
    BY <1>1 DEF Kept, Hooks!Adding
  <1>2. ASSUME NEW h \in Hooks!Hooks, Elsewhere(h)
        PROVE  Kept' = Kept /\ Hooks!Adding' = Hooks!Adding
    <2>1. \A g \in Hooks!Hooks :
             hook'[g] = hook[g] \/ {hook[g], hook'[g]} \cap {"adding", "kept"} = {}
      BY <1>2 DEF Elsewhere, ListInv, HookType
    <2> QED
      BY <2>1 DEF Kept, Hooks!Adding
  <1> QED
    BY <1>1, <1>2, OutsideSteps

LEMMA ListStep ==
    ASSUME ListInv, [Hooks!Next]_hooksVars
    PROVE  ListInv'
PROOF
  <1> DEFINE n == Cardinality(Kept)  all == Cardinality(Hooks!Hooks)
  <1>1. /\ n \in Nat /\ all \in Nat /\ size \in Nat /\ \A h \in Hooks!Hooks : slot[h] \in Nat
        /\ size <= n /\ \A h \in Hooks!Hooks : slot[h] <= all
        /\ \A h \in Hooks!Adding : slot[h] \in 1..(n + 1)
    BY HooksFinite DEF ListInv, Placed, ListType
  <1>2. CASE Outside
    <2>1. Kept' = Kept /\ Hooks!Adding' = Hooks!Adding
      BY <1>2, OutsideAdds
    <2> QED
      BY <1>2, <2>1, OutsideSteps DEF ListInv, ListType, Placed
  <1>3. ASSUME NEW h \in Hooks!Hooks, Hooks!NewWebhook(h)
        PROVE  ListInv'
    <2>1. /\ hook[h] = "posted" /\ hook' = [hook EXCEPT ![h] = "adding"]
          /\ slot' = [slot EXCEPT ![h] = size + 1] /\ h \notin Kept
          /\ UNCHANGED <<rows, event, sending, unsent, asked, broken, size, items>>
      BY <1>3 DEF Hooks!NewWebhook, Kept
    <2>2. n + 1 <= all
      BY <2>1, HooksFinite
    <2>3. Kept' = Kept /\ Hooks!Adding' = Hooks!Adding \cup {h}
      BY <2>1 DEF ListInv, HookType, Kept, Hooks!Adding
    <2>4. SendType' /\ HookType' /\ Fresh'
      BY <2>1 DEF ListInv, SendType, HookType, Fresh
    <2>5. ListType'
      <3>1. overlapped' \subseteq Hooks!Hooks
        BY <1>3 DEF ListInv, ListType, Hooks!NewWebhook, Hooks!Adding
      <3>2. slot' \in [Hooks!Hooks -> Nat]
        BY <1>1, <2>1 DEF ListInv, ListType
      <3> QED
        BY <2>1, <3>1, <3>2 DEF ListInv, ListType
    <2>6. Placed'
      <3>1. \A g \in Hooks!Hooks : slot'[g] = IF g = h THEN size + 1 ELSE slot[g]
        BY <2>1 DEF ListInv, ListType
      <3>2. h \in Hooks!Hooks /\ Hooks!Adding \subseteq Hooks!Hooks
        BY DEF Hooks!Adding
      <3>3. \A g \in Hooks!Hooks : slot'[g] <= all
        BY <1>1, <2>2, <3>1
      <3>4. \A g \in Hooks!Adding' : slot'[g] \in 1..(n + 1)
        BY <1>1, <2>3, <3>1, <3>2
      <3> QED
        BY <1>1, <2>1, <2>3, <3>3, <3>4 DEF Placed
    <2> QED
      BY <2>4, <2>5, <2>6 DEF ListInv
  <1>4. ASSUME NEW h \in Hooks!Hooks, Hooks!Add(h)
        PROVE  ListInv'
    <2>1. /\ hook[h] = "adding" /\ hook' = [hook EXCEPT ![h] = "kept"]
          /\ size' = slot[h] /\ items' = [items EXCEPT ![size'] = h] /\ h \in Hooks!Hooks \ Kept
          /\ UNCHANGED <<rows, event, sending, unsent, asked, broken, slot, overlapped>>
      BY <1>4 DEF Hooks!Add, Kept
    <2>2. Cardinality(Kept \cup {h}) = n + 1 /\ slot[h] \in 1..(n + 1)
      BY <1>1, <2>1, HooksFinite DEF Hooks!Adding
    <2>3. Kept' = Kept \cup {h} /\ Hooks!Adding' = Hooks!Adding \ {h}
      BY <2>1 DEF ListInv, HookType, Kept, Hooks!Adding
    <2>4. SendType' /\ HookType' /\ Fresh'
      BY <2>1 DEF ListInv, SendType, HookType, Fresh
    <2>5. ListType'
      BY <1>1, <2>1 DEF ListInv, ListType
    <2>6. Placed'
      <3>1. \A g \in Hooks!Adding' : g \in Hooks!Adding /\ slot[g] \in 1..((n + 1) + 1)
        BY <1>1, <2>3
      <3>2. Cardinality(Kept') = n + 1
        BY <2>2, <2>3
      <3>3. slot[h] <= n + 1
        BY <1>1, <2>2
      <3> QED
        BY <1>1, <2>1, <3>1, <3>2, <3>3 DEF Placed
    <2> QED
      BY <2>4, <2>5, <2>6 DEF ListInv
  <1> QED
    BY <1>2, <1>3, <1>4 DEF Hooks!Next, Hooks!Client, Outside

LEMMA KeepStep ==
    ASSUME ListInv, KeepInv, [Hooks!Next]_hooksVars
    PROVE  KeepInv'
PROOF
  <1>1. /\ size \in Nat /\ \A h \in Hooks!Hooks : slot[h] \in Nat
        /\ \A h \in Hooks!Adding : slot[h] \in DOMAIN items /\ slot[h] >= 1
        /\ Hooks!Adding \subseteq Hooks!Hooks /\ Kept \subseteq Hooks!Hooks
    BY HooksFinite, HooksCardinality DEF ListInv, Placed, ListType, Hooks!Adding, Kept
  <1>2. CASE Outside
    <2>1. Kept' = Kept /\ Hooks!Adding' = Hooks!Adding
      BY <1>2, OutsideAdds
    <2> QED
      BY <1>2, <2>1, OutsideSteps DEF KeepInv
  <1>3. ASSUME NEW h \in Hooks!Hooks, Hooks!NewWebhook(h)
        PROVE  KeepInv'
    <2>1. /\ Kept' = Kept /\ Hooks!Adding' = Hooks!Adding \cup {h} /\ UNCHANGED <<size, items>>
          /\ overlapped' = IF Hooks!Adding = {} THEN overlapped
                           ELSE overlapped \cup Hooks!Adding \cup {h}
      BY <1>3 DEF Hooks!NewWebhook, ListInv, HookType, Kept, Hooks!Adding
    <2>2. \A g \in Hooks!Hooks : slot'[g] = IF g = h THEN size + 1 ELSE slot[g]
      BY <1>3 DEF Hooks!NewWebhook, ListInv, ListType
    <2>3. ASSUME NEW g \in Hooks!Adding', g \notin overlapped'
          PROVE  Hooks!Adding' = {g} /\ slot'[g] = size' + 1
      BY <1>1, <2>1, <2>2, <2>3
    <2>4. ASSUME NEW k \in Kept', k \notin overlapped'
          PROVE  \E i \in 1..size' : items'[i] = k /\ \A g \in Hooks!Adding' : slot'[g] > i
      <3>1. PICK i \in 1..size : items[i] = k /\ \A g \in Hooks!Adding : slot[g] > i
        BY <2>1, <2>4 DEF KeepInv
      <3>2. \A g \in Hooks!Adding' : slot'[g] > i
        BY <1>1, <2>1, <2>2, <3>1
      <3> QED
        BY <2>1, <3>1, <3>2
    <2> QED
      BY <2>3, <2>4 DEF KeepInv
  <1>4. ASSUME NEW h \in Hooks!Hooks, Hooks!Add(h)
        PROVE  KeepInv'
    <2>1. /\ Kept' = Kept \cup {h} /\ Hooks!Adding' = Hooks!Adding \ {h} /\ h \in Hooks!Adding
          /\ UNCHANGED <<slot, overlapped>> /\ size' = slot[h]
          /\ items' = [items EXCEPT ![slot[h]] = h]
      BY <1>4 DEF Hooks!Add, ListInv, HookType, Kept, Hooks!Adding
    <2>2. ASSUME NEW g \in Hooks!Adding', g \notin overlapped'
          PROVE  FALSE
      BY <2>1, <2>2 DEF KeepInv
    <2>3. ASSUME NEW k \in Kept', k \notin overlapped'
          PROVE  \E i \in 1..size' : items'[i] = k /\ \A g \in Hooks!Adding' : slot'[g] > i
      <3>1. CASE k = h
        <4>1. Hooks!Adding' = {} /\ items'[slot[h]] = h /\ slot[h] \in 1..size'
          BY <1>1, <2>1, <2>3, <3>1 DEF KeepInv
        <4> QED
          BY <2>1, <3>1, <4>1
      <3>2. CASE k # h
        <4>1. PICK i \in 1..size : items[i] = k /\ \A g \in Hooks!Adding : slot[g] > i
          BY <2>1, <2>3, <3>2 DEF KeepInv
        <4>2. i < slot[h] /\ slot[h] \in Nat /\ i \in Nat
          BY <1>1, <2>1, <4>1
        <4>3. items'[i] = k
          BY <2>1, <4>1, <4>2
        <4> QED
          BY <2>1, <4>1, <4>2, <4>3
      <3> QED
        BY <3>1, <3>2
    <2> QED
      BY <2>2, <2>3 DEF KeepInv
  <1> QED
    BY <1>2, <1>3, <1>4 DEF Hooks!Next, Hooks!Client, Outside

LEMMA KeepInvariant == Hooks!Spec => [](ListInv /\ KeepInv)
PROOF
  <1>1. Hooks!Init => ListInv /\ KeepInv
    BY ListInit
  <1>2. ListInv /\ KeepInv /\ [Hooks!Next]_hooksVars => (ListInv /\ KeepInv)'
    BY ListStep, KeepStep
  <1>3. Hooks!Spec => Hooks!Init /\ [][Hooks!Next]_hooksVars
    BY PTL DEF Hooks!Spec, Hooks!vars, hooksVars
  <1> QED
    BY <1>1, <1>2, <1>3, PTL

\* HooksRepository.AddNew: the list without a lock keeps every hook that was added alone.
THEOREM KeptListed == Hooks!Spec => []KeptHooksAreListed
PROOF
  <1>1. KeepInv => Hooks!KeptHooksAreListed
    BY DEF KeepInv, Kept, Hooks!KeptHooksAreListed
  <1> QED
    BY <1>1, KeepInvariant, PTL DEF KeptHooksAreListed

-----------------------------------------------------------------------------
(* The types of the components that have no theorem of their own *)

LEMMA GraceTypeInit == Grace!Init => Grace!TypeOK
  BY ServicesAssumption DEF Grace!Init, Grace!TypeOK

LEMMA GraceTypeStep ==
    ASSUME Grace!TypeOK, [Grace!Next]_graceVars
    PROVE  Grace!TypeOK'
PROOF
  <1>1. ASSUME NEW o \in Orders, Grace!GracePeriodEnds(o) \/ Grace!Confirm(o) \/ Grace!Lose(o)
        PROVE  Grace!TypeOK'
    BY <1>1, ServicesAssumption
       DEF Grace!TypeOK, Grace!GracePeriodEnds, Grace!Confirm, Grace!Lose
  <1>2. CASE Grace!Poll \/ Grace!Publish \/ Grace!Delay \/ Grace!NextTurn
    BY <1>2 DEF Grace!TypeOK, Grace!Poll, Grace!Publish, Grace!Delay, Grace!NextTurn, Grace!Due
  <1>3. CASE Grace!PollFails \/ Grace!PollThrows \/ Grace!PublishThrows
    BY <1>3, ServicesAssumption
       DEF Grace!TypeOK, Grace!PollFails, Grace!PollThrows, Grace!PublishThrows, Grace!Throws
  <1>4. CASE UNCHANGED graceVars
    BY <1>4 DEF Grace!TypeOK, graceVars
  <1> QED
    BY <1>1, <1>2, <1>3, <1>4 DEF Grace!Next, Grace!Loop

LEMMA HeadTail ==
    ASSUME NEW S, NEW s \in Seq(S), s # <<>>
    PROVE  Head(s) \in S /\ Tail(s) \in Seq(S)
  OBVIOUS

LEMMA HubTypeInit == Hub!Init => Hub!TypeOK
PROOF
  <1>1. 0 \in 0..MaxStatus /\ 0 \in 0..0 /\ <<>> \in Seq(1..MaxStatus)
    BY ServicesAssumption
  <1> QED
    BY <1>1, Zenon DEF Hub!Init, Hub!TypeOK

LEMMA HubTypeStep ==
    ASSUME Hub!TypeOK, [Hub!Next]_hubVars
    PROVE  Hub!TypeOK'
PROOF
  <1>1. CASE Hub!ChangeStatus
    BY <1>1, ServicesAssumption DEF Hub!TypeOK, Hub!ChangeStatus
  <1>2. CASE Hub!Publish
    <2>1. announced + 1 \in 0..status /\ announced + 1 \in 1..MaxStatus
      BY <1>2, ServicesAssumption DEF Hub!TypeOK, Hub!Publish
    <2> QED
      BY <1>2, <2>1 DEF Hub!TypeOK, Hub!Publish
  <1>3. CASE Hub!Lose \/ Hub!Handle
    <2>1. Tail(feed) \in Seq(1..MaxStatus) /\ Head(feed) \in 1..MaxStatus
      BY <1>3, HeadTail DEF Hub!TypeOK, Hub!Lose, Hub!Handle
    <2>2. Append(push, Head(feed)) \in Seq(1..MaxStatus)
      BY <2>1 DEF Hub!TypeOK
    <2>3. /\ UNCHANGED <<status, announced, shown, connection, timer>>
          /\ feed' \in Seq(1..MaxStatus) /\ push' \in Seq(1..MaxStatus) /\ missed' \in BOOLEAN
      BY <1>3, <2>1, <2>2 DEF Hub!TypeOK, Hub!Lose, Hub!Handle
    <2> QED
      BY <2>3 DEF Hub!TypeOK
  <1>4. CASE Hub!OnConnectedAsync \/ Hub!RegisterNotificationHandlers
    BY <1>4 DEF Hub!TypeOK, Hub!OnConnectedAsync, Hub!RegisterNotificationHandlers
  <1>5. CASE Hub!OnDisconnectedAsync
    BY <1>5 DEF Hub!TypeOK, Hub!OnDisconnectedAsync
  <1>6. CASE Hub!UpdatedOrderState \/ Hub!LosePush
    <2>1. Tail(push) \in Seq(1..MaxStatus)
      BY <1>6, HeadTail DEF Hub!TypeOK, Hub!UpdatedOrderState, Hub!LosePush
    <2> QED
      BY <1>6, <2>1 DEF Hub!TypeOK, Hub!UpdatedOrderState, Hub!LosePush
  <1>7. CASE Hub!Reload
    <2>1. status \in 0..status /\ <<>> \in Seq(1..MaxStatus)
      BY ServicesAssumption DEF Hub!TypeOK
    <2> QED
      BY <1>7, <2>1, Zenon DEF Hub!TypeOK, Hub!Reload
  <1>8. CASE UNCHANGED hubVars
    BY <1>8 DEF Hub!TypeOK, hubVars
  <1> QED
    BY <1>1, <1>2, <1>3, <1>4, <1>5, <1>6, <1>7, <1>8 DEF Hub!Next

LEMMA ItemsTypeInit == Items!Init => Items!TypeOK
PROOF
  <1> SUFFICES ASSUME Items!Init
               PROVE  Items!TypeOK
    OBVIOUS
  <1>1. PICK n \in 1..MaxItems : basket \in [1..n -> Items!Items]
    BY DEF Items!Init
  <1>2. basket \in Seq(Items!Items) /\ Len(basket) \in Nat
    BY <1>1, ServicesAssumption
  <1> QED
    <2>1. next \in 1..(Len(basket) + 1) /\ lines = <<>> /\ threw = FALSE
      BY <1>2 DEF Items!Init
    <2>2. DOMAIN lines = {} /\ lines \in [DOMAIN lines -> [price : Prices, units : Nat \ {0}]]
      BY <2>1
    <2> QED
      BY <1>2, <2>1, <2>2, Zenon DEF Items!TypeOK

LEMMA ItemsTypeStep ==
    ASSUME Items!TypeOK, [Items!Next]_itemsVars
    PROVE  Items!TypeOK'
PROOF
  <1>1. CASE Items!AddOrderItem
    <2> DEFINE i == basket[next]  p == Items!ProductId(i.product)
    <2>1. i \in Items!Items /\ next \in DOMAIN basket /\ Len(basket) \in Nat
      BY <1>1 DEF Items!TypeOK, Items!AddOrderItem
    <2>2. p \in Items!Products /\ i.price \in Prices /\ i.units \in Nat \ {0}
      BY <2>1, ServicesAssumption DEF Items!Items, Items!Products
    <2>3. CASE threw' = TRUE /\ UNCHANGED <<next, lines, basket>>
      BY <2>3 DEF Items!TypeOK
    <2>4. CASE next' = next + 1 /\ lines' = Items!WithItem(lines, i) /\ UNCHANGED <<threw, basket>>
      <3>1. next' \in 1..(Len(basket) + 1)
        BY <2>1, <2>4
      <3> HIDE DEF i
      <3>2. DOMAIN lines' = DOMAIN lines \cup {p}
        BY <2>4 DEF Items!WithItem
      <3>3. ASSUME NEW q \in DOMAIN lines'
            PROVE  lines'[q] \in [price : Prices, units : Nat \ {0}]
        <4>1. CASE q # p
          BY <2>4, <3>2, <3>3, <4>1 DEF Items!WithItem, Items!TypeOK
        <4>2. CASE q = p /\ p \in DOMAIN lines
          <5>1. lines'[q] = [lines[p] EXCEPT !.units = @ + i.units]
            BY <2>4, <3>2, <4>2 DEF Items!WithItem
          <5> QED
            BY <2>2, <4>2, <5>1 DEF Items!TypeOK
        <4>3. CASE q = p /\ p \notin DOMAIN lines
          <5>1. lines'[q] = [price |-> i.price, units |-> i.units]
            BY <2>4, <3>2, <4>3 DEF Items!WithItem
          <5> QED
            BY <2>2, <5>1
        <4> QED
          BY <4>1, <4>2, <4>3
      <3>4. lines' = [q \in DOMAIN lines' |-> lines'[q]]
        BY <2>4 DEF Items!WithItem
      <3>5. lines' \in [DOMAIN lines' -> [price : Prices, units : Nat \ {0}]]
        BY <3>3, <3>4
      <3> QED
        BY <2>2, <2>4, <3>1, <3>2, <3>5 DEF Items!TypeOK
    <2> QED
      BY <1>1, <2>3, <2>4 DEF Items!AddOrderItem
  <1>2. CASE UNCHANGED itemsVars
    BY <1>2 DEF Items!TypeOK, itemsVars
  <1> QED
    BY <1>1, <1>2 DEF Items!Next

-----------------------------------------------------------------------------
(* Sums over finite sets.  A smallest counterexample among the subsets     *)
(* of a finite set stands for induction.                                   *)

\* The element a fold takes first.
Pick(s) == CHOOSE x \in s : TRUE

\* g is the function by which the fold over S is defined.
Adds(f, S, g) == g = [s \in SUBSET S |-> IF s = {} THEN 0 ELSE f[Pick(s)] + g[s \ {Pick(s)}]]

LEMMA Picked == ASSUME NEW s, s # {} PROVE Pick(s) \in s
  BY DEF Pick

\* Among finite sets one is minimal.
LEMMA Smallest ==
    ASSUME NEW S, IsFiniteSet(S), NEW B \in SUBSET SUBSET S, B # {}
    PROVE  \E u \in B : \A v \in B : v \subseteq u => v = u
PROOF
  <1> DEFINE N == {Cardinality(u) : u \in B}  R == OpToRel(<, Nat)
  <1>1. \A u \in B : IsFiniteSet(u) /\ Cardinality(u) \in Nat
    BY FS_Subset, FS_CardinalityType
  <1>2. N \in SUBSET Nat /\ N # {}
    BY <1>1
  <1>3. IsWellFoundedOn(R, Nat)
    BY NatLessThanWellFounded, Zenon
  <1>4. PICK n \in N : \A k \in N : ~(<<k, n>> \in R)
    <2>1. PICK m : m \in N
      BY <1>2
    <2> HIDE DEF N, R
    <2> QED
      BY <1>2, <1>3, <2>1, WFMin, Zenon
  <1>5. \A k, j \in Nat : k < j => <<k, j>> \in R
    BY DEF OpToRel
  <1> HIDE DEF R
  <1>6. PICK u \in B : Cardinality(u) = n
    OBVIOUS
  <1>7. ASSUME NEW v \in B, v \subseteq u, v # u
        PROVE  FALSE
    <2>1. Cardinality(v) < Cardinality(u)
      BY <1>1, <1>7, FS_Subset
    <2> QED
      BY <1>1, <1>4, <1>5, <1>6, <2>1
  <1> QED
    BY <1>7

LEMMA SumChosen ==
    ASSUME NEW f, NEW S
    PROVE  SumFunctionOnSet(f, S) = (CHOOSE g : Adds(f, S, g))[S]
  BY Zenon DEF SumFunctionOnSet, FoldFunctionOnSet, MapThenFoldSet, Adds, Pick

LEMMA AddsValue ==
    ASSUME NEW f, NEW S, NEW g, Adds(f, S, g), NEW u \in SUBSET S
    PROVE  /\ u = {} => g[u] = 0
           /\ u # {} => g[u] = f[Pick(u)] + g[u \ {Pick(u)}]
  BY Zenon DEF Adds

\* Whatever set the recursion starts from, it sums a subset to the same value.
LEMMA AddsOnce ==
    ASSUME NEW f, NEW S, NEW T, IsFiniteSet(S), NEW g, NEW h, Adds(f, S, g), Adds(f, T, h),
           NEW u, u \in SUBSET S, u \in SUBSET T
    PROVE  g[u] = h[u]
PROOF
  <1> DEFINE B == {v \in SUBSET S : v \in SUBSET T /\ g[v] # h[v]}
  <1> SUFFICES ASSUME B # {} PROVE FALSE
    OBVIOUS
  <1>1. PICK v \in B : \A w \in B : w \subseteq v => w = v
    <2>1. B \in SUBSET SUBSET S
      OBVIOUS
    <2> HIDE DEF B
    <2> QED
      BY <2>1, Smallest
  <1>2. v # {}
    BY <1>1, AddsValue
  <1>3. v \ {Pick(v)} # v
    BY <1>2, Picked
  <1>4. g[v \ {Pick(v)}] = h[v \ {Pick(v)}]
    BY <1>1, <1>3
  <1>5. g[v] = f[Pick(v)] + g[v \ {Pick(v)}] /\ h[v] = f[Pick(v)] + h[v \ {Pick(v)}]
    <2>1. v \in SUBSET S /\ v \in SUBSET T
      OBVIOUS
    <2> QED
      BY <1>2, <2>1, AddsValue
  <1> QED
    BY <1>1, <1>4, <1>5

\* The recursion has a solution, so that the fold is not an arbitrary value.
LEMMA AddsSomewhere ==
    ASSUME NEW f, NEW S, IsFiniteSet(S)
    PROVE  \E g : Adds(f, S, g)
PROOF
  <1> DEFINE B == {s \in SUBSET S : ~\E g : Adds(f, s, g)}
             V(s) == (CHOOSE g : Adds(f, s, g))[s]
  <1> SUFFICES ASSUME B # {} PROVE FALSE
    OBVIOUS
  <1>1. PICK v \in B : \A w \in B : w \subseteq v => w = v
    <2>1. B \in SUBSET SUBSET S
      OBVIOUS
    <2> HIDE DEF B
    <2> QED
      BY <2>1, Smallest
  <1> DEFINE g == [s \in SUBSET v |-> IF s = {} THEN 0 ELSE f[Pick(s)] + V(s \ {Pick(s)})]
  <1>2. ASSUME NEW w \in SUBSET v, w # v
        PROVE  V(w) = g[w]
    <2>1. \A x \in SUBSET w : \E h : Adds(f, x, h)
      BY <1>1, <1>2
    <2>2. \A x \in SUBSET w : IsFiniteSet(x)
      BY <1>1, FS_Subset
    <2>3. PICK h : h = CHOOSE k : Adds(f, w, k)
      OBVIOUS
    <2>4. Adds(f, w, h) /\ V(w) = h[w]
      BY <2>1, <2>3
    <2>5. CASE w = {}
      BY <2>4, <2>5, AddsValue
    <2>6. CASE w # {}
      <3> DEFINE x == w \ {Pick(w)}
      <3>1. PICK j : j = CHOOSE k : Adds(f, x, k)
        OBVIOUS
      <3>2. Adds(f, x, j) /\ V(x) = j[x]
        BY <2>1, <3>1
      <3>3. h[x] = j[x]
        BY <2>2, <2>4, <3>2, AddsOnce
      <3>4. h[w] = f[Pick(w)] + h[x]
        BY <2>4, <2>6, AddsValue
      <3> QED
        BY <2>4, <2>6, <3>2, <3>3, <3>4
    <2> QED
      BY <2>5, <2>6
  <1>3. ASSUME NEW s \in SUBSET v, s # {}
        PROVE  V(s \ {Pick(s)}) = g[s \ {Pick(s)}]
    <2>1. s \ {Pick(s)} # v
      BY <1>3, Picked
    <2> QED
      BY <1>2, <2>1
  <1>4. g = [s \in SUBSET v |-> IF s = {} THEN 0 ELSE f[Pick(s)] + g[s \ {Pick(s)}]]
    <2>1. PICK k : k = g
      OBVIOUS
    <2>2. \A s \in SUBSET v : s # {} => V(s \ {Pick(s)}) = k[s \ {Pick(s)}]
      BY <1>3, <2>1
    <2>3. k = [s \in SUBSET v |-> IF s = {} THEN 0 ELSE f[Pick(s)] + V(s \ {Pick(s)})]
      BY <2>1
    <2> HIDE DEF g, V
    <2>4. k = [s \in SUBSET v |-> IF s = {} THEN 0 ELSE f[Pick(s)] + k[s \ {Pick(s)}]]
      BY <2>2, <2>3
    <2> QED
      BY <2>1, <2>4
  <1>5. Adds(f, v, g)
    BY <1>4, Zenon DEF Adds
  <1> QED
    BY <1>1, <1>5

\* What the fold computes, one element at a time.
LEMMA SumStep ==
    ASSUME NEW f, NEW S, IsFiniteSet(S)
    PROVE  /\ S = {} => SumFunctionOnSet(f, S) = 0
           /\ S # {} => SumFunctionOnSet(f, S) = f[Pick(S)] + SumFunctionOnSet(f, S \ {Pick(S)})
PROOF
  <1> DEFINE x == S \ {Pick(S)}
  <1>1. PICK g : g = CHOOSE k : Adds(f, S, k)
    OBVIOUS
  <1>2. PICK h : h = CHOOSE k : Adds(f, x, k)
    OBVIOUS
  <1>3. IsFiniteSet(x)
    BY FS_Subset
  <1>4. Adds(f, S, g) /\ Adds(f, x, h)
    BY <1>1, <1>2, <1>3, AddsSomewhere
  <1>5. g[x] = h[x]
    BY <1>3, <1>4, AddsOnce
  <1>6. SumFunctionOnSet(f, S) = g[S] /\ SumFunctionOnSet(f, x) = h[x]
    BY <1>1, <1>2, SumChosen, Zenon
  <1> QED
    BY <1>4, <1>5, <1>6, AddsValue

\* The sum depends on the values of the elements only.
LEMMA SumSame ==
    ASSUME NEW S, IsFiniteSet(S), NEW f, NEW h, \A x \in S : f[x] = h[x]
    PROVE  SumFunctionOnSet(f, S) = SumFunctionOnSet(h, S)
PROOF
  <1> DEFINE B == {s \in SUBSET S : SumFunctionOnSet(f, s) # SumFunctionOnSet(h, s)}
  <1> SUFFICES ASSUME B # {} PROVE FALSE
    OBVIOUS
  <1>1. PICK s \in B : \A w \in B : w \subseteq s => w = s
    <2>1. B \in SUBSET SUBSET S
      OBVIOUS
    <2> HIDE DEF B
    <2> QED
      BY <2>1, Smallest
  <1>2. IsFiniteSet(s)
    BY FS_Subset
  <1>3. s # {}
    BY <1>1, <1>2, SumStep
  <1>4. Pick(s) \in s
    BY <1>3, Picked
  <1>5. SumFunctionOnSet(f, s \ {Pick(s)}) = SumFunctionOnSet(h, s \ {Pick(s)})
    BY <1>1, <1>4
  <1>6. SumFunctionOnSet(f, s) = SumFunctionOnSet(h, s)
    BY <1>2, <1>3, <1>4, <1>5, SumStep
  <1> QED
    BY <1>6

\* The order in which the elements are taken does not matter.
LEMMA SumRemove ==
    ASSUME NEW S, IsFiniteSet(S), NEW f, \A x \in S : f[x] \in Int
    PROVE  /\ SumFunctionOnSet(f, S) \in Int
           /\ \A x \in S : /\ SumFunctionOnSet(f, S \ {x}) \in Int
                           /\ SumFunctionOnSet(f, S) = f[x] + SumFunctionOnSet(f, S \ {x})
PROOF
  <1> DEFINE V(s) == SumFunctionOnSet(f, s)
             Good(s) == V(s) \in Int /\ \A x \in s : V(s \ {x}) \in Int /\ V(s) = f[x] + V(s \ {x})
             B == {s \in SUBSET S : ~Good(s)}
  <1> SUFFICES ASSUME B # {} PROVE FALSE
    <2>1. S \in SUBSET S /\ S \notin B
      OBVIOUS
    <2> QED
      BY <2>1
  <1>1. PICK s \in B : \A w \in B : w \subseteq s => w = s
    <2>1. B \in SUBSET SUBSET S
      OBVIOUS
    <2> HIDE DEF B
    <2> QED
      BY <2>1, Smallest
  <1>2. IsFiniteSet(s)
    BY FS_Subset
  <1>3. \A w \in SUBSET s : w # s => Good(w)
    BY <1>1
  <1>4. s = {} => V(s) = 0
    BY <1>2, SumStep
  <1>5. s # {} => Pick(s) \in s /\ V(s) = f[Pick(s)] + V(s \ {Pick(s)})
    BY <1>2, SumStep, Picked
  <1>6. s # {}
    <2> SUFFICES ASSUME s = {} PROVE Good(s)
      BY <1>1
    <2> QED
      BY <1>4
  <1> DEFINE p == Pick(s)
  <1>7. \A x \in s : V(s \ {x}) \in Int /\ f[x] \in Int
    BY <1>3
  <1>8. V(s) \in Int
    BY <1>5, <1>6, <1>7
  <1>9. ASSUME NEW x \in s, x # p
        PROVE  V(s) = f[x] + V(s \ {x})
    <2>1. p \in s \ {x} /\ x \in s \ {p} /\ s \ {x} # s /\ s \ {p} # s
      BY <1>5, <1>6, <1>9
    <2>2. Good(s \ {x}) /\ Good(s \ {p})
      BY <1>3, <2>1
    <2>3. (s \ {x}) \ {p} = (s \ {p}) \ {x}
      OBVIOUS
    <2>4. V(s \ {x}) = f[p] + V((s \ {x}) \ {p}) /\ V((s \ {x}) \ {p}) \in Int
      BY <2>1, <2>2
    <2>5. V(s \ {p}) = f[x] + V((s \ {p}) \ {x})
      BY <2>1, <2>2
    <2> HIDE DEF V, p
    <2> QED
      <3>1. V(s) = f[p] + V(s \ {p}) /\ f[p] \in Int /\ f[x] \in Int
        BY <1>5, <1>6, <1>7 DEF p
      <3>2. V((s \ {p}) \ {x}) = V((s \ {x}) \ {p})
        BY <2>3
      <3> QED
        BY <2>4, <2>5, <3>1, <3>2
  <1>10. Good(s)
    BY <1>5, <1>6, <1>7, <1>8, <1>9
  <1> QED
    BY <1>1, <1>10

\* A new element adds its value.
LEMMA SumAdd ==
    ASSUME NEW S, IsFiniteSet(S), NEW x, x \notin S, NEW f, \A y \in S \cup {x} : f[y] \in Int
    PROVE  /\ SumFunctionOnSet(f, S) \in Int
           /\ SumFunctionOnSet(f, S \cup {x}) = f[x] + SumFunctionOnSet(f, S)
PROOF
  <1>1. IsFiniteSet(S \cup {x})
    BY FS_AddElement
  <1>2. (S \cup {x}) \ {x} = S
    OBVIOUS
  <1> QED
    BY <1>1, <1>2, SumRemove


-----------------------------------------------------------------------------
(* OrderItems: what an order has of its basket *)

\* The sums of OrderItems are those of the library.
LEMMA ItemsSums ==
    ASSUME NEW f, NEW S
    PROVE  /\ Items!SumFunctionOnSet(f, S) = SumFunctionOnSet(f, S)
           /\ Items!SumFunction(f) = SumFunctionOnSet(f, DOMAIN f)
  BY DEF Items!SumFunctionOnSet, Items!SumFunction, Items!FoldFunctionOnSet, Items!MapThenFoldSet,
         SumFunctionOnSet, FoldFunctionOnSet, MapThenFoldSet

\* The items before the n-th that ask for product p.
Shown(p, n) == {m \in 1..(n - 1) : Items!ProductId(basket[m].product) = p}
Totals == [p \in DOMAIN lines |-> lines[p].units * lines[p].price]

\* The lines are what the items before the next one amount to.
LinesInv ==
    /\ IsFiniteSet(DOMAIN lines)
    /\ DOMAIN lines = {p \in Items!Products : Shown(p, next) # {}}
    /\ \A p \in DOMAIN lines :
          /\ lines[p].units = SumFunctionOnSet(Items!Quantities, Shown(p, next))
          /\ \E m \in Shown(p, next) : lines[p].price = basket[m].price
    /\ Items!TwoPrices \/ Items!GetTotal(lines) = SumFunctionOnSet(Items!Amounts, 1..(next - 1))

LEMMA BasketRead ==
    ASSUME Items!TypeOK
    PROVE  /\ DOMAIN basket = 1..Len(basket) /\ Len(basket) \in Nat /\ next \in Nat \ {0}
           /\ \A n \in DOMAIN basket :
                 /\ basket[n].units \in Nat \ {0} /\ basket[n].price \in Int
                 /\ Items!ProductId(basket[n].product) \in Items!Products
                 /\ Items!Quantities[n] = basket[n].units
                 /\ Items!Amounts[n] = basket[n].units * basket[n].price /\ Items!Amounts[n] \in Int
PROOF
  <1>1. DOMAIN basket = 1..Len(basket) /\ Len(basket) \in Nat /\ next \in Nat \ {0}
    BY DEF Items!TypeOK
  <1>2. ASSUME NEW n \in DOMAIN basket
        PROVE  basket[n] \in Items!Items
    BY <1>1 DEF Items!TypeOK
  <1>3. ASSUME NEW n \in DOMAIN basket
        PROVE  /\ basket[n].units \in Nat \ {0} /\ basket[n].price \in Int
               /\ Items!ProductId(basket[n].product) \in Items!Products
    BY <1>2, <1>3, ServicesAssumption DEF Items!Items, Items!Products
  <1>4. ASSUME NEW n \in DOMAIN basket
        PROVE  Items!Amounts[n] = basket[n].units * basket[n].price
    BY DEF Items!Amounts
  <1>5. ASSUME NEW n \in DOMAIN basket
        PROVE  Items!Quantities[n] = basket[n].units
    BY DEF Items!Quantities
  <1>6. \A a \in Nat \ {0}, b \in Int : a * b \in Int
    OBVIOUS
  <1> QED
    BY <1>1, <1>3, <1>4, <1>5, <1>6

LEMMA ShownGrows ==
    ASSUME Items!TypeOK, next \in DOMAIN basket, next' = next + 1, basket' = basket, NEW p
    PROVE  /\ Shown(p, next)' = IF p = Items!ProductId(basket[next].product)
                               THEN Shown(p, next) \cup {next} ELSE Shown(p, next)
           /\ next \notin Shown(p, next) /\ IsFiniteSet(Shown(p, next))
           /\ Shown(p, next) \subseteq DOMAIN basket
PROOF
  <1>1. 1..(next' - 1) = 1..(next - 1) \cup {next} /\ next \notin 1..(next - 1)
    BY BasketRead
  <1>2. \A m : /\ basket'[m] = basket[m]
               /\ Items!ProductId(basket[m].product)' = Items!ProductId(basket[m].product)
    BY DEF Items!ProductId
  <1>3. IsFiniteSet(1..(next - 1))
    BY BasketRead, FS_Interval
  <1>4. 1..(next - 1) \subseteq DOMAIN basket
    BY BasketRead
  <1>5. Shown(p, next) \subseteq 1..(next - 1)
    BY DEF Shown
  <1>6. IsFiniteSet(Shown(p, next))
    BY <1>3, <1>5, FS_Subset, Zenon
  <1>7. Shown(p, next)' = {m \in 1..(next' - 1) : Items!ProductId(basket[m].product) = p}
    BY <1>2 DEF Shown, Items!ProductId
  <1>8. Shown(p, next)' = IF p = Items!ProductId(basket[next].product)
                          THEN Shown(p, next) \cup {next} ELSE Shown(p, next)
    BY <1>1, <1>7 DEF Shown
  <1> QED
    BY <1>1, <1>4, <1>5, <1>6, <1>8

LEMMA ItemsInit == Items!Init /\ Items!TypeOK => LinesInv
PROOF
  <1> SUFFICES ASSUME Items!Init, Items!TypeOK
               PROVE  LinesInv
    OBVIOUS
  <1>1. next = 1 /\ lines = <<>> /\ DOMAIN lines = {} /\ 1..(next - 1) = {}
    <2>1. next = 1 /\ lines = <<>>
      BY DEF Items!Init
    <2> QED
      BY <2>1
  <1>2. \A p : Shown(p, next) = {}
    BY <1>1 DEF Shown
  <1>3. IsFiniteSet({})
    BY FS_EmptySet
  <1>4. Items!GetTotal(lines) = SumFunctionOnSet(Totals, {})
    <2>1. DOMAIN Totals = {}
      BY <1>1 DEF Totals
    <2> QED
      BY <2>1, ItemsSums, Zenon DEF Items!GetTotal, Totals
  <1>5. SumFunctionOnSet(Totals, {}) = 0 /\ SumFunctionOnSet(Items!Amounts, {}) = 0
    BY <1>3, SumStep
  <1> QED
    BY <1>1, <1>2, <1>3, <1>4, <1>5 DEF LinesInv

LEMMA ItemsStep ==
    ASSUME Items!TypeOK, Items!TypeOK', LinesInv, next \in DOMAIN basket, next' = next + 1,
           basket' = basket, lines' = Items!WithItem(lines, basket[next])
    PROVE  LinesInv'
PROOF
  <1>1. PICK i : i = basket[next]
    OBVIOUS
  <1>2. PICK p : p = Items!ProductId(i.product)
    OBVIOUS
  <1>3. /\ i.units \in Nat \ {0} /\ i.price \in Int /\ p \in Items!Products
        /\ Items!Quantities[next] = i.units /\ Items!Amounts[next] = i.units * i.price
    BY <1>1, <1>2, BasketRead
  <1>4. DOMAIN lines' = DOMAIN lines \cup {p}
    BY <1>1, <1>2 DEF Items!WithItem
  <1>5. /\ Items!Quantities' = Items!Quantities /\ Items!Amounts' = Items!Amounts
        /\ (Items!TwoPrices' <=> Items!TwoPrices)
        /\ Items!Products' = Items!Products
    BY DEF Items!Quantities, Items!Amounts, Items!TwoPrices, Items!Products, Items!Showing,
           Items!ProductId
  <1>6. ASSUME NEW q \in DOMAIN lines, q # p
        PROVE  lines'[q] = lines[q]
    BY <1>1, <1>2, <1>4, <1>6 DEF Items!WithItem
  <1>7. p \in DOMAIN lines =>
           /\ lines'[p].units = lines[p].units + i.units
           /\ lines'[p].price = lines[p].price
    <2> SUFFICES ASSUME p \in DOMAIN lines
                 PROVE  /\ lines'[p].units = lines[p].units + i.units
                        /\ lines'[p].price = lines[p].price
      OBVIOUS
    <2>1. lines'[p] = [lines[p] EXCEPT !.units = @ + i.units]
      BY <1>1, <1>2, <1>4 DEF Items!WithItem
    <2>2. lines[p] \in [price : Prices, units : Nat \ {0}]
      BY DEF Items!TypeOK
    <2> QED
      BY <2>1, <2>2
  <1>8. p \notin DOMAIN lines => lines'[p].units = i.units /\ lines'[p].price = i.price
    <2> SUFFICES ASSUME p \notin DOMAIN lines
                 PROVE  lines'[p].units = i.units /\ lines'[p].price = i.price
      OBVIOUS
    <2>1. lines'[p] = [price |-> i.price, units |-> i.units]
      BY <1>1, <1>2, <1>4 DEF Items!WithItem
    <2> QED
      BY <2>1
  <1>9. /\ \A q \in DOMAIN lines : lines[q].units \in Nat \ {0} /\ lines[q].price \in Int
        /\ \A q \in DOMAIN lines' : lines'[q].units \in Nat \ {0} /\ lines'[q].price \in Int
    <2>1. /\ \A q \in DOMAIN lines : lines[q] \in [price : Prices, units : Nat \ {0}]
          /\ \A q \in DOMAIN lines' : lines'[q] \in [price : Prices, units : Nat \ {0}]
      BY DEF Items!TypeOK
    <2> QED
      BY <2>1, ServicesAssumption
  <1>10. \A q : /\ Shown(q, next)' = IF q = p THEN Shown(q, next) \cup {next} ELSE Shown(q, next)
               /\ next \notin Shown(q, next) /\ IsFiniteSet(Shown(q, next))
               /\ Shown(q, next) \subseteq DOMAIN basket
    BY <1>1, <1>2, ShownGrows
  <1>11. IsFiniteSet(DOMAIN lines') /\ IsFiniteSet(DOMAIN lines)
    BY <1>4, FS_AddElement DEF LinesInv
  <1>12. DOMAIN lines' = {q \in Items!Products : Shown(q, next)' # {}}
    BY <1>3, <1>4, <1>10 DEF LinesInv
  <1>13. SumFunctionOnSet(Items!Quantities, Shown(p, next) \cup {next})
            = i.units + SumFunctionOnSet(Items!Quantities, Shown(p, next))
    <2>1. \A n \in Shown(p, next) \cup {next} : Items!Quantities[n] \in Int
      BY <1>10, BasketRead
    <2> QED
      BY <1>3, <1>10, <2>1, SumAdd
  <1>14. ASSUME NEW q \in DOMAIN lines'
         PROVE  /\ lines'[q].units = SumFunctionOnSet(Items!Quantities, Shown(q, next)')
                /\ \E m \in Shown(q, next)' : lines'[q].price = basket[m].price
    <2>1. CASE q # p
      BY <1>4, <1>6, <1>10, <2>1 DEF LinesInv
    <2>2. CASE q = p /\ p \in DOMAIN lines
      <3>1. lines[p].units = SumFunctionOnSet(Items!Quantities, Shown(p, next))
        BY <2>2 DEF LinesInv
      <3>2. PICK m \in Shown(p, next) : lines[p].price = basket[m].price
        BY <2>2 DEF LinesInv
      <3>3. SumFunctionOnSet(Items!Quantities, Shown(p, next)') = i.units + lines[p].units
        BY <1>10, <1>13, <3>1
      <3>4. lines'[p].units = i.units + lines[p].units
        BY <1>3, <1>7, <1>9, <2>2
      <3> QED
        BY <1>7, <1>10, <2>2, <3>2, <3>3, <3>4
    <2>3. CASE q = p /\ p \notin DOMAIN lines
      <3>1. Shown(p, next) = {}
        BY <1>3, <2>3 DEF LinesInv
      <3>2. SumFunctionOnSet(Items!Quantities, Shown(p, next)) = 0
        BY <3>1, FS_EmptySet, SumStep
      <3>3. SumFunctionOnSet(Items!Quantities, Shown(p, next)') = i.units
        <4>1. SumFunctionOnSet(Items!Quantities, Shown(p, next) \cup {next}) = i.units
          BY <1>3, <1>13, <3>2
        <4> QED
          BY <1>10, <4>1
      <3>4. next \in Shown(p, next)' /\ lines'[p].price = basket[next].price
        BY <1>1, <1>8, <1>10, <2>3
      <3> QED
        BY <1>8, <2>3, <3>3, <3>4
    <2> QED
      BY <2>1, <2>2, <2>3
  <1>15. ASSUME ~Items!TwoPrices
         PROVE  Items!GetTotal(lines') = SumFunctionOnSet(Items!Amounts, 1..(next' - 1))
    <2> DEFINE T == Totals  U == Totals'  D == DOMAIN lines
    <2>1. Items!GetTotal(lines) = SumFunctionOnSet(T, D)
      <3>1. DOMAIN Totals = D
        BY DEF Totals
      <3> QED
        BY <3>1, ItemsSums, Zenon DEF Items!GetTotal, Totals
    <2>2. Items!GetTotal(lines') = SumFunctionOnSet(U, D \cup {p})
      <3>1. DOMAIN U = D \cup {p} /\ U = [q \in DOMAIN lines' |-> lines'[q].units * lines'[q].price]
        BY <1>4 DEF Totals
      <3> QED
        BY <3>1, ItemsSums, Zenon DEF Items!GetTotal
    <2>3. \A a, b \in Int : a * b \in Int
      OBVIOUS
    <2>4. \A q \in D : T[q] = lines[q].units * lines[q].price /\ T[q] \in Int
      BY <1>9, <2>3 DEF Totals
    <2>5. \A q \in D \cup {p} : U[q] = lines'[q].units * lines'[q].price /\ U[q] \in Int
      BY <1>4, <1>9, <2>3 DEF Totals
    <2>6. \A q \in D \ {p} : T[q] = U[q]
      BY <1>6, <2>4, <2>5
    <2>7. SumFunctionOnSet(Items!Amounts, 1..(next' - 1))
             = Items!Amounts[next] + SumFunctionOnSet(Items!Amounts, 1..(next - 1))
      <3>1. 1..(next' - 1) = 1..(next - 1) \cup {next} /\ next \notin 1..(next - 1)
        BY BasketRead
      <3>2. IsFiniteSet(1..(next - 1)) /\ 1..(next - 1) \cup {next} \subseteq DOMAIN basket
        <4>1. next - 1 \in Int /\ 1 \in Int
          BY BasketRead
        <4>2. IsFiniteSet(1..(next - 1))
          BY <4>1, FS_Interval, Zenon
        <4>3. 1..(next - 1) \cup {next} \subseteq DOMAIN basket
          BY BasketRead
        <4> QED
          BY <4>2, <4>3
      <3>3. \A n \in 1..(next - 1) \cup {next} : Items!Amounts[n] \in Int
        BY <3>2, BasketRead
      <3> QED
        BY <3>1, <3>2, <3>3, SumAdd
    <2>8. SumFunctionOnSet(T, D) = SumFunctionOnSet(Items!Amounts, 1..(next - 1))
      BY <1>15, <2>1 DEF LinesInv
    <2> HIDE DEF T, U, D
    <2>9. CASE p \in D
      <3>1. IsFiniteSet(D) /\ IsFiniteSet(D \ {p}) /\ D \cup {p} = D
        BY <1>11, <2>9, FS_Subset DEF D
      <3>2. /\ SumFunctionOnSet(T, D) = T[p] + SumFunctionOnSet(T, D \ {p})
            /\ SumFunctionOnSet(U, D) = U[p] + SumFunctionOnSet(U, D \ {p})
            /\ SumFunctionOnSet(T, D \ {p}) \in Int
        BY <2>4, <2>5, <2>9, <3>1, SumRemove
      <3>3. SumFunctionOnSet(T, D \ {p}) = SumFunctionOnSet(U, D \ {p})
        BY <2>6, <3>1, SumSame
      <3>4. lines[p].price = i.price
        <4>1. PICK m \in Shown(p, next) : lines[p].price = basket[m].price
          BY <2>9 DEF LinesInv, D
        <4>2. m \in Items!Showing(p) /\ next \in Items!Showing(p)
          BY <1>1, <1>2, <1>10 DEF Shown, Items!Showing
        <4> QED
          BY <1>1, <1>3, <1>15, <4>1, <4>2 DEF Items!TwoPrices
      <3>5. U[p] = T[p] + Items!Amounts[next]
        <4>1. \A a, b, c \in Int : (a + b) * c = a * c + b * c
          OBVIOUS
        <4>2. lines[p].units \in Int /\ i.units \in Int /\ i.price \in Int
          BY <1>3, <1>9, <2>9 DEF D
        <4>3. (lines[p].units + i.units) * i.price = lines[p].units * i.price + i.units * i.price
          BY <4>1, <4>2
        <4>4. U[p] = (lines[p].units + i.units) * i.price
          BY <1>7, <2>5, <2>9, <3>4 DEF D
        <4>5. T[p] = lines[p].units * i.price
          BY <2>4, <2>9, <3>4
        <4> QED
          BY <1>3, <4>3, <4>4, <4>5
      <3>6. T[p] \in Int /\ Items!Amounts[next] \in Int
        BY <2>4, <2>9, BasketRead
      <3>7. SumFunctionOnSet(U, D \cup {p}) = SumFunctionOnSet(U, D)
        BY <3>1
      <3>8. SumFunctionOnSet(U, D) = SumFunctionOnSet(Items!Amounts, 1..(next' - 1))
        BY <2>7, <2>8, <3>2, <3>3, <3>5, <3>6
      <3> QED
        BY <2>2, <3>7, <3>8
    <2>10. CASE p \notin D
      <3>1. SumFunctionOnSet(U, D \cup {p}) = U[p] + SumFunctionOnSet(U, D)
        BY <1>11, <2>5, <2>10, SumAdd DEF D
      <3>2. SumFunctionOnSet(T, D) = SumFunctionOnSet(U, D)
        BY <1>11, <2>6, <2>10, SumSame DEF D
      <3>3. U[p] = Items!Amounts[next]
        BY <1>3, <1>8, <2>5, <2>10 DEF D
      <3> QED
        BY <2>2, <2>7, <2>8, <3>1, <3>2, <3>3
    <2> QED
      BY <2>9, <2>10
  <1>16. Items!GetTotal(lines)' = Items!GetTotal(lines')
    BY DEF Items!GetTotal
  <1> QED
    BY <1>5, <1>11, <1>12, <1>14, <1>15, <1>16 DEF LinesInv

LEMMA ItemsAll ==
    ASSUME Items!TypeOK, LinesInv
    PROVE  Items!OrderIsItsBasket
PROOF
  <1> SUFFICES ASSUME next = Len(basket) + 1
               PROVE  /\ DOMAIN lines = {p \in Items!Products : Items!Showing(p) # {}}
                      /\ \A p \in DOMAIN lines :
                            lines[p].units
                               = Items!SumFunctionOnSet(Items!Quantities, Items!Showing(p))
                      /\ Items!TwoPrices \/ Items!GetTotal(lines) = Items!SumFunction(Items!Amounts)
    BY DEF Items!OrderIsItsBasket
  <1>1. 1..(next - 1) = DOMAIN basket
    BY BasketRead
  <1>2. \A p : Shown(p, next) = Items!Showing(p)
    BY <1>1 DEF Shown, Items!Showing
  <1>3. Items!SumFunction(Items!Amounts) = SumFunctionOnSet(Items!Amounts, DOMAIN basket)
    <2>1. DOMAIN Items!Amounts = DOMAIN basket
      BY DEF Items!Amounts
    <2> QED
      BY <2>1, ItemsSums, Zenon
  <1> QED
    BY <1>1, <1>2, <1>3, ItemsSums DEF LinesInv

LEMMA LinesNext ==
    ASSUME Items!TypeOK, Items!TypeOK', LinesInv, [Items!Next]_itemsVars
    PROVE  LinesInv'
PROOF
  <1>1. CASE UNCHANGED <<basket, next, lines>>
    <2>1. /\ Items!Quantities' = Items!Quantities /\ Items!Amounts' = Items!Amounts
          /\ Items!Products' = Items!Products /\ (Items!TwoPrices' <=> Items!TwoPrices)
      BY <1>1 DEF Items!Quantities, Items!Amounts, Items!Products, Items!TwoPrices, Items!Showing,
                  Items!ProductId
    <2>2. \A p : Shown(p, next)' = Shown(p, next)
      BY <1>1 DEF Shown, Items!ProductId
    <2>3. Items!GetTotal(lines)' = Items!GetTotal(lines')
      BY DEF Items!GetTotal
    <2> QED
      BY <1>1, <2>1, <2>2, <2>3 DEF LinesInv
  <1>2. CASE ~UNCHANGED <<basket, next, lines>>
    <2>1. /\ next \in DOMAIN basket /\ next' = next + 1 /\ basket' = basket
          /\ lines' = Items!WithItem(lines, basket[next])
      BY <1>2 DEF Items!AddOrderItem, Items!Next, itemsVars
    <2> QED
      BY <2>1, ItemsStep
  <1> QED
    BY <1>1, <1>2

\* Order.AddOrderItem: for any basket, an order that was built has one line for each
\* product of the basket with the units of all its items, and costs what the basket showed
\* unless a product was there at two prices.
THEOREM OrdersAreBaskets == Items!Spec => []OrderIsItsBasket
PROOF
  <1>1. Items!Init => Items!TypeOK /\ LinesInv
    BY ItemsTypeInit, ItemsInit
  <1>2. ASSUME Items!TypeOK, LinesInv, [Items!Next]_itemsVars
        PROVE  Items!TypeOK' /\ LinesInv'
    BY <1>2, ItemsTypeStep, LinesNext
  <1>3. Items!TypeOK /\ LinesInv => OrderIsItsBasket
    BY ItemsAll DEF OrderIsItsBasket
  <1>4. [Items!Next]_(Items!vars) => [Items!Next]_itemsVars
    BY DEF Items!vars, itemsVars
  <1> QED
    BY <1>1, <1>2, <1>3, <1>4, PTL DEF Items!Spec

-----------------------------------------------------------------------------
(* HubConnection: what the client implements *)

Written == Page!Notices \cup {Page!Handshake, Page!Refusal, Page!Close}

LEMMA NoticeMessages ==
    /\ \A m \in Written : Page!IsNotice(m) <=> m \in Page!Notices
    /\ \A n \in 1..MaxNotices : Page!Notice(n) \in Page!Notices
    /\ Page!Handshake \notin Page!Notices /\ Page!Refusal \notin Page!Notices
    /\ Page!Close \notin Page!Notices
PROOF
  <1>1. /\ ~Page!IsNotice(Page!Handshake) /\ ~Page!IsNotice(Page!Refusal)
        /\ ~Page!IsNotice(Page!Close)
    BY DEF Page!IsNotice, Page!Handshake, Page!Refusal, Page!Close
  <1>2. \A m \in Page!Notices : Page!IsNotice(m)
    BY DEF Page!IsNotice, Page!Notices, Page!Notice
  <1>3. \A n \in 1..MaxNotices : Page!Notice(n) \in Page!Notices
    BY DEF Page!Notices
  <1> QED
    BY <1>1, <1>2, <1>3 DEF Written

\* Only the first and the last message of s need not be a notice.
Framed(s) == \A i \in 1..Len(s) : 1 < i /\ i < Len(s) => s[i] \in Page!Notices

\* Where the notices of s begin and end.
From(s) == IF Len(s) > 0 /\ s[1] \notin Page!Notices THEN 2 ELSE 1
To(s) == IF Len(s) > 0 /\ s[Len(s)] \notin Page!Notices THEN Len(s) - 1 ELSE Len(s)

LEMMA NoticesOfProperties ==
    ASSUME NEW s \in Seq(Written), Framed(s)
    PROVE  /\ Page!NoticesOf(s) \in Seq(Page!Notices)
           /\ From(s) \in {1, 2} /\ To(s) \in Nat /\ To(s) <= Len(s)
           /\ Len(Page!NoticesOf(s)) = IF From(s) <= To(s) THEN To(s) - From(s) + 1 ELSE 0
           /\ \A i \in 1..(To(s) - From(s) + 1) : Page!NoticesOf(s)[i] = s[From(s) + i - 1]
PROOF
  <1>1. Page!NoticesOf(s) = SubSeq(s, From(s), To(s))
    <2>1. CASE Len(s) = 0
      BY <2>1 DEF Page!NoticesOf, From, To
    <2>2. CASE Len(s) # 0
      <3>1. Len(s) > 0 /\ s[1] \in Written /\ s[Len(s)] \in Written
        BY <2>2
      <3> QED
        BY <3>1, NoticeMessages DEF Page!NoticesOf, From, To
    <2> QED
      BY <2>1, <2>2
  <1>2. From(s) \in {1, 2} /\ To(s) \in Nat /\ To(s) <= Len(s)
    BY DEF From, To
  <1>3. \A i \in From(s)..To(s) : s[i] \in Page!Notices
    BY DEF From, To, Framed
  <1> QED
    BY <1>1, <1>2, <1>3, SubSeqProperties

LEMMA PrefixProperties ==
    ASSUME NEW s \in Seq(Written), NEW k \in 0..Len(s)
    PROVE  /\ SubSeq(s, 1, k) \in Seq(Written) /\ Len(SubSeq(s, 1, k)) = k
           /\ \A i \in 1..k : SubSeq(s, 1, k)[i] = s[i]
           /\ SubSeq(s, k + 1, Len(s)) \in Seq(Written)
           /\ Len(SubSeq(s, k + 1, Len(s))) = Len(s) - k
           /\ \A i \in 1..(Len(s) - k) : SubSeq(s, k + 1, Len(s))[i] = s[k + i]
PROOF
  <1>1. /\ \A i \in 1..k : s[i] \in Written
        /\ \A i \in (k + 1)..Len(s) : s[i] \in Written
    OBVIOUS
  <1>2. /\ SubSeq(s, 1, k) \in Seq(Written)
        /\ Len(SubSeq(s, 1, k)) = IF 1 <= k THEN k - 1 + 1 ELSE 0
        /\ \A i \in 1..(k - 1 + 1) : SubSeq(s, 1, k)[i] = s[1 + i - 1]
    BY <1>1, SubSeqProperties
  <1>3. /\ SubSeq(s, k + 1, Len(s)) \in Seq(Written)
        /\ Len(SubSeq(s, k + 1, Len(s))) = IF k + 1 <= Len(s) THEN Len(s) - (k + 1) + 1 ELSE 0
        /\ \A i \in 1..(Len(s) - (k + 1) + 1) :
              SubSeq(s, k + 1, Len(s))[i] = s[k + 1 + i - 1]
    BY <1>1, SubSeqProperties
  <1> QED
    BY <1>2, <1>3

LEMMA NoticesSplit ==
    ASSUME NEW s \in Seq(Written), Framed(s), NEW k \in 0..Len(s)
    PROVE  LET a == SubSeq(s, 1, k)  b == SubSeq(s, k + 1, Len(s))
           IN  /\ a \in Seq(Written) /\ b \in Seq(Written) /\ Framed(a) /\ Framed(b)
               /\ Page!NoticesOf(s) = Page!NoticesOf(a) \o Page!NoticesOf(b)
PROOF
  <1> DEFINE a == SubSeq(s, 1, k)  b == SubSeq(s, k + 1, Len(s))
             p == Page!NoticesOf(s)  q == Page!NoticesOf(a)  r == Page!NoticesOf(b)
  <1>1. /\ a \in Seq(Written) /\ Len(a) = k /\ \A i \in 1..k : a[i] = s[i]
        /\ b \in Seq(Written) /\ Len(b) = Len(s) - k /\ \A i \in 1..(Len(s) - k) : b[i] = s[k + i]
    BY PrefixProperties
  <1> HIDE DEF a, b
  <1>2. Framed(a) /\ Framed(b)
    <2>1. \A i \in 1..Len(a) : 1 < i /\ i < Len(a) => a[i] \in Page!Notices
      BY <1>1 DEF Framed
    <2>2. ASSUME NEW i \in 1..Len(b), 1 < i, i < Len(b)
          PROVE  b[i] \in Page!Notices
      <3>1. b[i] = s[k + i] /\ k + i \in 1..Len(s) /\ 1 < k + i /\ k + i < Len(s)
        BY <1>1, <2>2
      <3> QED
        BY <3>1 DEF Framed
    <2> QED
      BY <2>1, <2>2 DEF Framed
  <1>3. /\ p \in Seq(Page!Notices)
        /\ Len(p) = IF From(s) <= To(s) THEN To(s) - From(s) + 1 ELSE 0
        /\ \A i \in 1..(To(s) - From(s) + 1) : p[i] = s[From(s) + i - 1]
    BY NoticesOfProperties
  <1>4. /\ q \in Seq(Page!Notices)
        /\ Len(q) = IF From(a) <= To(a) THEN To(a) - From(a) + 1 ELSE 0
        /\ \A i \in 1..(To(a) - From(a) + 1) : q[i] = a[From(a) + i - 1]
    BY <1>1, <1>2, NoticesOfProperties
  <1>5. /\ r \in Seq(Page!Notices)
        /\ Len(r) = IF From(b) <= To(b) THEN To(b) - From(b) + 1 ELSE 0
        /\ \A i \in 1..(To(b) - From(b) + 1) : r[i] = b[From(b) + i - 1]
    BY <1>1, <1>2, NoticesOfProperties
  <1> HIDE DEF p, q, r
  <1>6. q \o r \in Seq(Page!Notices) /\ Len(q \o r) = Len(q) + Len(r)
        /\ \A i \in 1..(Len(q) + Len(r)) :
              (q \o r)[i] = IF i <= Len(q) THEN q[i] ELSE r[i - Len(q)]
    BY <1>4, <1>5, ConcatProperties
  <1>7. CASE k = 0
    <2>1. From(a) = 1 /\ To(a) = 0 /\ Len(q) = 0
      BY <1>1, <1>4, <1>7 DEF From, To
    <2>2. Len(b) = Len(s) /\ \A i \in 1..Len(s) : b[i] = s[i]
      BY <1>1, <1>7
    <2>3. From(b) = From(s) /\ To(b) = To(s)
      BY <2>2 DEF From, To
    <2>4. \A i \in 1..(To(s) - From(s) + 1) : s[From(s) + i - 1] = b[From(s) + i - 1]
      BY <2>2 DEF From, To
    <2>5. Len(r) = Len(p) /\ \A i \in 1..Len(p) : p[i] = r[i]
      BY <1>3, <1>5, <2>3, <2>4
    <2>6. p = r
      BY <1>3, <1>5, <2>5, SeqEqual
    <2>7. q \o r = r
      BY <1>4, <1>5, <2>1, ConcatEmptySeq
    <2> QED
      BY <1>1, <1>2, <2>6, <2>7 DEF p, q, r, a, b
  <1>8. CASE k = Len(s) /\ k > 0
    <2>1. From(b) = 1 /\ To(b) = 0 /\ Len(r) = 0
      BY <1>1, <1>5, <1>8 DEF From, To
    <2>2. Len(a) = Len(s) /\ \A i \in 1..Len(s) : a[i] = s[i]
      BY <1>1, <1>8
    <2>3. a = s
      BY <1>1, <2>2, SeqEqual
    <2>4. q \o r = p
      BY <1>4, <1>5, <2>1, <2>3, ConcatEmptySeq DEF p, q
    <2> QED
      BY <1>1, <1>2, <2>4 DEF p, q, r, a, b
  <1>9. CASE 0 < k /\ k < Len(s)
    <2>1. a[1] = s[1] /\ a[k] = s[k] /\ b[1] = s[k + 1] /\ b[Len(b)] = s[Len(s)]
      <3>1. 1 \in 1..k /\ k \in 1..k /\ 1 \in 1..(Len(s) - k) /\ Len(b) \in 1..(Len(s) - k)
        BY <1>1, <1>9
      <3>2. k + Len(b) = Len(s)
        BY <1>1
      <3> QED
        BY <1>1, <3>1, <3>2
    <2>2. From(a) = From(s) /\ k + To(b) = To(s)
      BY <1>1, <1>9, <2>1 DEF From, To
    <2>3. From(s) \in {1, 2} /\ To(s) \in Nat /\ To(s) <= Len(s) /\ k <= To(s)
      BY <1>9 DEF From, To
    <2>4. Len(q) = k - From(s) + 1
      <3>1. CASE k = 1 /\ s[1] \in Page!Notices
        BY <1>1, <1>4, <1>9, <2>1, <2>2, <3>1 DEF From, To
      <3>2. CASE k = 1 /\ s[1] \notin Page!Notices
        BY <1>1, <1>4, <1>9, <2>1, <2>2, <3>2 DEF From, To
      <3>3. CASE k > 1
        <4>1. s[k] \in Page!Notices
          BY <1>9, <3>3 DEF Framed
        <4>2. To(a) = k
          BY <1>1, <1>9, <2>1, <4>1 DEF To
        <4> QED
          BY <1>4, <2>2, <2>3, <3>3, <4>2
      <3> QED
        BY <1>9, <3>1, <3>2, <3>3
    <2>5. From(b) = 1 \/ To(b) = 0
      <3>1. CASE k + 1 = Len(s)
        BY <1>1, <1>9, <2>1, <3>1 DEF From, To
      <3>2. CASE k + 1 < Len(s)
        BY <1>1, <1>9, <2>1, <3>2 DEF From, Framed
      <3> QED
        BY <1>9, <3>1, <3>2
    <2>6. Len(r) = To(s) - k
      <3>1. CASE From(b) = 1
        <4>1. To(b) = To(s) - k
          BY <2>2, <2>3 DEF To
        <4> QED
          BY <1>5, <2>3, <3>1, <4>1
      <3>2. CASE To(b) = 0
        BY <1>5, <1>9, <2>2, <2>3, <3>2 DEF From
      <3> QED
        BY <2>5, <3>1, <3>2
    <2>7. Len(p) = Len(q) + Len(r)
      BY <1>3, <1>9, <2>3, <2>4, <2>6
    <2>8. ASSUME NEW i \in 1..Len(p), i <= Len(q)
          PROVE  p[i] = (q \o r)[i]
      <3>1. i \in 1..(To(s) - From(s) + 1) /\ i \in 1..Len(q) /\ From(s) + i - 1 \in 1..k
        BY <1>3, <1>4, <2>3, <2>4, <2>8
      <3>2. p[i] = s[From(s) + i - 1] /\ a[From(s) + i - 1] = s[From(s) + i - 1]
        BY <1>1, <1>3, <3>1
      <3>3. q[i] = a[From(a) + i - 1]
        <4>1. i \in 1..(To(a) - From(a) + 1)
          BY <1>4, <3>1
        <4> QED
          BY <1>4, <4>1
      <3>4. (q \o r)[i] = q[i]
        BY <1>4, <1>5, <1>6, <2>8, <3>1
      <3> QED
        BY <2>2, <3>2, <3>3, <3>4
    <2>9. ASSUME NEW i \in 1..Len(p), ~(i <= Len(q))
          PROVE  p[i] = (q \o r)[i]
      <3> DEFINE j == i - Len(q)
      <3>1. j \in 1..Len(r) /\ From(s) + i - 1 = k + j /\ k + j \in 1..Len(s) /\ From(b) = 1
        <4>1. j \in 1..Len(r) /\ From(s) + i - 1 = k + j
          <5>1. Len(q) \in Nat /\ Len(r) \in Nat /\ k \in Nat
            BY <1>4, <1>5
          <5>2. i \in Nat /\ i <= Len(q) + Len(r) /\ i > Len(q)
            BY <2>7, <2>9, <5>1
          <5>3. Len(q) = k - From(s) + 1 /\ From(s) \in Int
            BY <2>3, <2>4, <5>1
          <5>4. j \in 1..Len(r)
            BY <5>1, <5>2
          <5>5. From(s) + i - 1 = k + j
            BY <5>1, <5>2, <5>3
          <5> QED
            BY <5>4, <5>5
        <4>2. k + j \in 1..Len(s)
          BY <2>3, <2>6, <4>1
        <4>3. To(b) # 0
          BY <2>2, <2>3, <2>6, <4>1 DEF To
        <4> QED
          BY <2>5, <4>1, <4>2, <4>3
      <3>2. p[i] = s[k + j]
        <4>1. i \in 1..(To(s) - From(s) + 1)
          BY <1>3, <1>9, <2>3
        <4> QED
          BY <1>3, <3>1, <4>1
      <3>3. r[j] = b[j] /\ b[j] = s[k + j]
        <4>1. j \in 1..(To(b) - From(b) + 1) /\ j \in 1..(Len(s) - k)
          BY <1>5, <3>1
        <4>2. r[j] = b[From(b) + j - 1] /\ b[j] = s[k + j]
          BY <1>1, <1>5, <4>1
        <4> QED
          BY <3>1, <4>2
      <3>4. (q \o r)[i] = r[j]
        BY <1>4, <1>5, <1>6, <2>7, <2>9
      <3> QED
        BY <3>2, <3>3, <3>4
    <2>10. p = q \o r
      <3>1. \A i \in 1..Len(p) : p[i] = (q \o r)[i]
        BY <2>8, <2>9
      <3> QED
        BY <1>3, <1>6, <2>7, <3>1, SeqEqual
    <2> QED
      BY <1>1, <1>2, <2>10 DEF p, q, r, a, b
  <1> QED
    BY <1>7, <1>8, <1>9

\* The hub appends m to what it has written.
LEMMA NoticesAppend ==
    ASSUME NEW s \in Seq(Written), NEW m \in Written,
           \A i \in 1..Len(s) : 1 < i => s[i] \in Page!Notices
    PROVE  /\ Framed(Append(s, m)) /\ Append(s, m) \in Seq(Written)
           /\ Page!NoticesOf(Append(s, m)) = IF m \in Page!Notices
                                            THEN Append(Page!NoticesOf(s), m)
                                            ELSE Page!NoticesOf(s)
PROOF
  <1> DEFINE t == Append(s, m)  b == SubSeq(t, Len(s) + 1, Len(t))
             q == Page!NoticesOf(s)  r == Page!NoticesOf(b)
  <1>1. /\ t \in Seq(Written) /\ Len(t) = Len(s) + 1 /\ t[Len(s) + 1] = m
        /\ \A i \in 1..Len(s) : t[i] = s[i]
    BY AppendProperties
  <1> HIDE DEF t
  <1>2. Framed(t) /\ Framed(s)
    BY <1>1 DEF Framed
  <1>3. SubSeq(t, 1, Len(s)) = s
    <2>1. Len(s) \in 0..Len(t)
      BY <1>1
    <2>2. /\ SubSeq(t, 1, Len(s)) \in Seq(Written) /\ Len(SubSeq(t, 1, Len(s))) = Len(s)
          /\ \A i \in 1..Len(s) : SubSeq(t, 1, Len(s))[i] = t[i]
      BY <1>1, <2>1, PrefixProperties
    <2>3. \A i \in 1..Len(s) : SubSeq(t, 1, Len(s))[i] = s[i]
      BY <1>1, <2>2
    <2> QED
      BY <2>2, <2>3, SeqEqual
  <1>4. /\ b \in Seq(Written) /\ Len(b) = 1 /\ b[1] = m
    <2>1. Len(s) \in 0..Len(t)
      BY <1>1
    <2>2. /\ b \in Seq(Written) /\ Len(b) = Len(t) - Len(s)
          /\ \A i \in 1..(Len(t) - Len(s)) : b[i] = t[Len(s) + i]
      BY <1>1, <2>1, PrefixProperties
    <2>3. Len(t) - Len(s) = 1
      BY <1>1
    <2> QED
      BY <1>1, <2>2, <2>3
  <1> HIDE DEF b
  <1>5. /\ r \in Seq(Page!Notices) /\ Len(r) = IF m \in Page!Notices THEN 1 ELSE 0
        /\ m \in Page!Notices => r[1] = m
    <2>1. Framed(b)
      BY <1>4 DEF Framed
    <2>2. /\ From(b) = IF m \in Page!Notices THEN 1 ELSE 2
          /\ To(b) = IF m \in Page!Notices THEN 1 ELSE 0
      BY <1>4 DEF From, To
    <2>3. /\ r \in Seq(Page!Notices)
          /\ Len(r) = IF From(b) <= To(b) THEN To(b) - From(b) + 1 ELSE 0
          /\ \A i \in 1..(To(b) - From(b) + 1) : r[i] = b[From(b) + i - 1]
      BY <1>4, <2>1, NoticesOfProperties
    <2>4. CASE m \in Page!Notices
      BY <1>4, <2>2, <2>3, <2>4
    <2>5. CASE m \notin Page!Notices
      BY <2>2, <2>3, <2>5
    <2> QED
      BY <2>4, <2>5
  <1>6. Page!NoticesOf(t) = q \o r
    <2>1. Len(s) \in 0..Len(t)
      BY <1>1
    <2> QED
      BY <1>1, <1>2, <1>3, <2>1, NoticesSplit DEF b
  <1>7. q \in Seq(Page!Notices)
    BY <1>2, NoticesOfProperties
  <1> HIDE DEF q, r
  <1>8. CASE m \notin Page!Notices
    <2>1. r = <<>>
      BY <1>5, <1>8
    <2>2. q \o r = q
      BY <1>7, <2>1, ConcatEmptySeq
    <2> QED
      BY <1>1, <1>2, <1>6, <1>8, <2>2 DEF t, q
  <1>9. CASE m \in Page!Notices
    <2>1. <<m>> \in Seq(Page!Notices) /\ Len(<<m>>) = 1 /\ <<m>>[1] = m
      BY <1>9
    <2>2. r = <<m>>
      BY <1>5, <1>9, <2>1, SeqEqual
    <2>3. q \o r = Append(q, m)
      BY <1>7, <1>9, <2>2, AppendIsConcat
    <2> QED
      BY <1>1, <1>2, <1>6, <1>9, <2>3 DEF t, q
  <1> QED
    BY <1>8, <1>9

\* What reading k messages takes from the notices the hub has written.
LEMMA NoticesTaken ==
    ASSUME NEW s \in Seq(Written), Framed(s), NEW k \in 0..Len(s)
    PROVE  LET p == Page!NoticesOf(s)  q == Page!NoticesOf(SubSeq(s, 1, k))
           IN  /\ p \in Seq(Page!Notices) /\ q \in Seq(Page!Notices) /\ Len(q) \in 0..Len(p)
               /\ q = SubSeq(p, 1, Len(q))
               /\ Page!NoticesOf(SubSeq(s, k + 1, Len(s))) = SubSeq(p, Len(q) + 1, Len(p))
PROOF
  <1> DEFINE b == SubSeq(s, k + 1, Len(s))
             p == Page!NoticesOf(s)  q == Page!NoticesOf(SubSeq(s, 1, k))  r == Page!NoticesOf(b)
  <1>1. /\ p = q \o r /\ p \in Seq(Page!Notices) /\ q \in Seq(Page!Notices)
        /\ r \in Seq(Page!Notices)
    BY NoticesSplit, NoticesOfProperties
  <1> HIDE DEF p, q, r
  <1>2. /\ Len(p) = Len(q) + Len(r) /\ Len(q) \in Nat /\ Len(r) \in Nat
        /\ \A i \in 1..(Len(q) + Len(r)) : p[i] = IF i <= Len(q) THEN q[i] ELSE r[i - Len(q)]
    BY <1>1, ConcatProperties
  <1>3. Len(q) \in 0..Len(p)
    BY <1>2
  <1>4. q = SubSeq(p, 1, Len(q))
    <2>1. \A i \in 1..Len(q) : p[i] = q[i] /\ p[i] \in Page!Notices
      BY <1>1, <1>2
    <2>2. /\ SubSeq(p, 1, Len(q)) \in Seq(Page!Notices)
          /\ Len(SubSeq(p, 1, Len(q))) = IF 1 <= Len(q) THEN Len(q) - 1 + 1 ELSE 0
          /\ \A i \in 1..(Len(q) - 1 + 1) : SubSeq(p, 1, Len(q))[i] = p[1 + i - 1]
      BY <1>2, <2>1, SubSeqProperties
    <2>3. Len(SubSeq(p, 1, Len(q))) = Len(q) /\ \A i \in 1..Len(q) : SubSeq(p, 1, Len(q))[i] = q[i]
      BY <1>2, <2>1, <2>2
    <2> QED
      BY <1>1, <2>2, <2>3, SeqEqual
  <1>5. r = SubSeq(p, Len(q) + 1, Len(p))
    <2>1. \A i \in 1..Len(r) : p[Len(q) + i] = r[i]
      <3> SUFFICES ASSUME NEW i \in 1..Len(r)
                   PROVE  p[Len(q) + i] = r[i]
        OBVIOUS
      <3>1. Len(q) + i \in 1..(Len(q) + Len(r)) /\ ~(Len(q) + i <= Len(q))
            /\ (Len(q) + i) - Len(q) = i
        BY <1>2
      <3> QED
        BY <1>2, <3>1
    <2>2. \A i \in (Len(q) + 1)..Len(p) : p[i] \in Page!Notices
      BY <1>1, <1>2
    <2>3. /\ SubSeq(p, Len(q) + 1, Len(p)) \in Seq(Page!Notices)
          /\ Len(SubSeq(p, Len(q) + 1, Len(p)))
                = IF Len(q) + 1 <= Len(p) THEN Len(p) - (Len(q) + 1) + 1 ELSE 0
          /\ \A i \in 1..(Len(p) - (Len(q) + 1) + 1) :
                SubSeq(p, Len(q) + 1, Len(p))[i] = p[Len(q) + 1 + i - 1]
      BY <1>2, <2>2, SubSeqProperties
    <2>4. /\ Len(p) - (Len(q) + 1) + 1 = Len(r)
          /\ \A i \in 1..Len(r) : Len(q) + 1 + i - 1 = Len(q) + i
      BY <1>2
    <2>5. Len(SubSeq(p, Len(q) + 1, Len(p))) = Len(r)
      BY <1>2, <2>3
    <2>6. \A i \in 1..Len(r) : SubSeq(p, Len(q) + 1, Len(p))[i] = r[i]
      BY <2>1, <2>3, <2>4
    <2> QED
      BY <1>1, <2>3, <2>5, <2>6, SeqEqual
  <1> QED
    BY <1>1, <1>3, <1>4, <1>5 DEF p, q, r

\* The connection is closed once, by the end of the loop or by stop(): from then on nobody
\* reads.
Control ==
    /\ ends \in {0, 1}
    /\ start \in {"new", "negotiate", "connect"}
          => poll = "none" /\ ends = 0 /\ stop = "none" /\ ~aborted
    /\ start = "connect" => transport
    /\ poll \in {"next", "get"} => transport /\ ends = 0 /\ stop # "done"
    /\ poll = "get" => stop \in {"none", "called"}
    /\ poll = "none" => stop = "none"
    /\ aborted => stop \in {"receiving", "delete", "done"}
    /\ stop \in {"receiving", "delete"} => ends = 0 /\ aborted
    /\ stop = "delete" => poll = "over"
    /\ ends = 1 => ~transport /\ poll = "over"

\* Before the hub's end is gone, only the first message can be other than a notice.
Stream ==
    /\ out \in Seq(Written) /\ Framed(out)
    /\ peer # "gone" => \A i \in 1..Len(out) : 1 < i => out[i] \in Page!Notices
    /\ peer \in {"none", "open"} => out = <<>>
    /\ start \in {"new", "negotiate"} => peer = "none"
    /\ crashed => peer = "gone"

LEMMA ControlInit == Page!Init => Control /\ Stream /\ Page!TypeOK
PROOF
  <1> SUFFICES ASSUME Page!Init
               PROVE  Control /\ Stream /\ Page!TypeOK
    OBVIOUS
  <1>1. Control
    BY DEF Page!Init, Control
  <1>2. out = <<>> /\ out \in Seq(Written) /\ Len(out) = 0
    BY DEF Page!Init
  <1>3. Stream
    BY <1>2 DEF Page!Init, Stream, Framed
  <1>4. /\ heard \in Seq(Page!Notices) /\ ends \in Nat
        /\ notices \in 0..MaxNotices /\ timeouts \in 0..MaxTimeouts
        /\ out \in Seq(Page!Notices \cup {Page!Handshake, Page!Refusal, Page!Close})
    BY ServicesAssumption DEF Page!Init
  <1>5. {received, transport, running, aborted, listening, crashed} \subseteq BOOLEAN
    BY Zenon DEF Page!Init
  <1>6. Page!TypeOK
    BY <1>4, <1>5, Zenon DEF Page!Init, Page!TypeOK
  <1> QED
    BY <1>1, <1>3, <1>6

LEMMA ClosedOrNot ==
    Page!PollingComplete
       => /\ poll' = "over"
          /\ aborted => UNCHANGED <<transport, http, hub, ends, handshake>>
          /\ ~aborted => transport' = FALSE /\ ends' = ends + 1 /\ http' = "Disconnected"
                         /\ hub' = "Disconnected" /\ handshake' \in {handshake, "rejected"}
  BY DEF Page!PollingComplete, Page!ConnectionClosed, Page!Settle

\* Every step of the client keeps how the connection comes to its end.
LEMMA ControlStep ==
    ASSUME Page!TypeOK, Control, [Page!Next]_pageVars
    PROVE  Control'
PROOF
  <1>1. CASE Page!Start
    BY <1>1 DEF Page!Start, Control
  <1>2. CASE Page!StartFails
    BY <1>2 DEF Page!StartFails, Control
  <1>3. CASE Page!Negotiated
    BY <1>3 DEF Page!Negotiated, Control
  <1>4. CASE Page!Connected
    BY <1>4 DEF Page!Connected, Control
  <1>5. CASE Page!ConnectedToNothing
    BY <1>5 DEF Page!ConnectedToNothing, Control
  <1>6. CASE Page!Posted \/ Page!PostFails
    BY <1>6 DEF Page!Posted, Page!PostFails, Page!client, Control
  <1>7. CASE Page!Shaken
    BY <1>7 DEF Page!Shaken, Control
  <1>8. CASE Page!NextPoll
    <2>1. UNCHANGED <<start, stop, aborted, ends, transport>> /\ poll = "next"
      BY <1>8, ClosedOrNot DEF Page!NextPoll
    <2>2. (~aborted /\ poll' = "get") \/ (aborted /\ poll' = "over")
      BY <1>8, ClosedOrNot DEF Page!NextPoll
    <2>3. CASE ~aborted /\ poll' = "get"
      BY <2>1, <2>3 DEF Control, Page!TypeOK
    <2>4. CASE aborted /\ poll' = "over"
      BY <2>1, <2>4 DEF Control
    <2> QED
      BY <2>2, <2>3, <2>4
  <1>9. CASE Page!PollAnswered
    <2>1. PICK k \in 1..Len(out) :
             Page!HandshakeThrows(SubSeq(out, 1, k)) \/ Page!Processed(SubSeq(out, 1, k))
      BY <1>9 DEF Page!PollAnswered
    <2>2. UNCHANGED <<start, aborted>> /\ poll = "get"
      BY <1>9 DEF Page!PollAnswered
    <2>3. CASE Page!HandshakeThrows(SubSeq(out, 1, k))
      BY <2>2, <2>3, ClosedOrNot DEF Page!HandshakeThrows, Page!StopCalled, Control
    <2>4. CASE Page!Processed(SubSeq(out, 1, k))
      BY <2>2, <2>4 DEF Page!Processed, Page!StopCalled, Control
    <2> QED
      BY <2>1, <2>3, <2>4
  <1>10. CASE Page!PollEnded
    BY <1>10, ClosedOrNot DEF Page!PollEnded, Control
  <1>11. CASE Page!PollTimesOut
    BY <1>11 DEF Page!PollTimesOut, Control
  <1>12. CASE Page!Stop
    BY <1>12 DEF Page!Stop, Control
  <1>13. CASE Page!Delete
    BY <1>13 DEF Page!Delete, Control
  <1>14. CASE Page!Deleted
    BY <1>14 DEF Page!Deleted, Page!ConnectionClosed, Control
  <1>15. CASE \/ Page!Hub \/ Page!OnConnectedAsync \/ Page!SendNotice \/ Page!HubCloses
              \/ Page!HubCrashes \/ UNCHANGED pageVars
    <2>1. UNCHANGED <<start, ends, poll, stop, aborted, transport>>
      BY <1>15 DEF Page!Hub, Page!AcceptHandshake, Page!RefuseHandshake, Page!OnConnectedAsync,
         Page!SendNotice, Page!HubCloses, Page!HubCrashes, Page!client, pageVars
    <2> QED
      BY <2>1 DEF Control
  <1> QED
    BY <1>1, <1>2, <1>3, <1>4, <1>5, <1>6, <1>7, <1>8, <1>9, <1>10, <1>11, <1>12, <1>13,
       <1>14, <1>15
       DEF Page!Next, Page!Client, Page!Jobs

\* What the client reads leaves a stream of the same shape.
LEMMA RestFramed ==
    ASSUME NEW s \in Seq(Written), Framed(s), NEW k \in 0..Len(s)
    PROVE  LET b == SubSeq(s, k + 1, Len(s))
           IN  /\ b \in Seq(Written) /\ Framed(b)
               /\ (\A i \in 1..Len(s) : 1 < i => s[i] \in Page!Notices)
                     => \A i \in 1..Len(b) : 1 < i => b[i] \in Page!Notices
               /\ s = <<>> => b = <<>>
PROOF
  <1> DEFINE b == SubSeq(s, k + 1, Len(s))
  <1>1. b \in Seq(Written) /\ Framed(b)
    BY NoticesSplit
  <1>2. Len(b) = Len(s) - k /\ \A i \in 1..(Len(s) - k) : b[i] = s[k + i]
    BY PrefixProperties
  <1> HIDE DEF b
  <1>3. ASSUME \A i \in 1..Len(s) : 1 < i => s[i] \in Page!Notices,
               NEW i \in 1..Len(b), 1 < i
        PROVE  b[i] \in Page!Notices
    <2>1. b[i] = s[k + i] /\ k + i \in 1..Len(s) /\ 1 < k + i
      BY <1>2, <1>3
    <2> QED
      BY <1>3, <2>1
  <1>4. ASSUME s = <<>>
        PROVE  b = <<>>
    <2>1. Len(b) = 0
      BY <1>2, <1>4
    <2> QED
      BY <1>1, <2>1
  <1> QED
    BY <1>1, <1>3, <1>4 DEF b

\* What the hub writes keeps the shape.
LEMMA StreamAppend ==
    ASSUME Stream, NEW m \in Written, out' = Append(out, m), UNCHANGED <<start, crashed>>,
           peer \notin {"none", "gone"}, peer' \notin {"none", "open"},
           peer' # "gone" => out = <<>> \/ m \in Page!Notices
    PROVE  Stream'
PROOF
  <1>1. out' \in Seq(Written) /\ Framed(out')
    BY NoticesAppend DEF Stream
  <1>2. /\ Len(out') = Len(out) + 1 /\ out'[Len(out) + 1] = m
        /\ \A i \in 1..Len(out) : out'[i] = out[i]
    BY AppendProperties DEF Stream
  <1>3. ASSUME peer' # "gone", NEW i \in 1..Len(out'), 1 < i
        PROVE  out'[i] \in Page!Notices
    <2>1. CASE i \in 1..Len(out)
      BY <1>2, <1>3, <2>1 DEF Stream
    <2>2. CASE i \notin 1..Len(out)
      <3>1. i = Len(out) + 1 /\ out # <<>>
        BY <1>2, <1>3, <2>2 DEF Stream
      <3> QED
        BY <1>2, <1>3, <3>1
    <2> QED
      BY <2>1, <2>2
  <1>4. /\ start' \in {"new", "negotiate"} => FALSE
        /\ crashed' => FALSE
    BY DEF Stream
  <1> QED
    BY <1>1, <1>3, <1>4 DEF Stream

LEMMA StreamStep ==
    ASSUME Page!TypeOK, Control, Stream, [Page!Next]_pageVars
    PROVE  Stream'
PROOF
  <1>1. CASE /\ UNCHANGED <<out, peer, crashed>>
             /\ start' \in {"new", "negotiate"} => start \in {"new", "negotiate"}
    BY <1>1 DEF Stream, Framed
  <1>2. CASE Page!Start \/ Page!StartFails \/ Page!Connected \/ Page!ConnectedToNothing
             \/ Page!Posted \/ Page!PostFails
    BY <1>1, <1>2
       DEF Page!Start, Page!StartFails, Page!Connected, Page!ConnectedToNothing, Page!Posted,
           Page!PostFails, Page!client, Page!network
  <1>3. CASE Page!Shaken \/ Page!NextPoll \/ Page!Stop \/ Page!Delete \/ Page!PollEnded
             \/ UNCHANGED pageVars
    BY <1>1, <1>3
       DEF Page!Shaken, Page!NextPoll, Page!Stop, Page!Delete, Page!PollEnded, Page!network,
           pageVars
  <1>4. CASE Page!Negotiated
    BY <1>4 DEF Page!Negotiated, Stream, Framed
  <1>5. CASE Page!Deleted \/ Page!OnConnectedAsync
    <2>1. /\ UNCHANGED <<out, crashed, start>> /\ peer' \in {"gone", "joined"}
          /\ peer' = "joined" => peer = "shaken"
          /\ Page!Deleted => peer' = "gone"
      BY <1>5 DEF Page!Deleted, Page!OnConnectedAsync, Page!client
    <2>2. start' \in {"new", "negotiate"} => FALSE
      BY <1>5 DEF Page!Deleted, Page!OnConnectedAsync, Page!client, Control, Stream
    <2>3. CASE peer' = "gone"
      BY <2>1, <2>2, <2>3 DEF Stream, Framed
    <2>4. CASE peer' = "joined" /\ peer = "shaken"
      BY <2>1, <2>2, <2>4 DEF Stream, Framed
    <2> QED
      BY <2>1, <2>3, <2>4
  <1>6. CASE Page!PollAnswered \/ Page!PollTimesOut
    <2>1. PICK k \in 0..Len(out) : out' = SubSeq(out, k + 1, Len(out))
      BY <1>6 DEF Page!PollAnswered, Page!PollTimesOut, Stream
    <2>2. UNCHANGED <<start, peer, crashed>>
      BY <1>6 DEF Page!PollAnswered, Page!PollTimesOut
    <2>3. /\ out' \in Seq(Written) /\ Framed(out')
          /\ (\A i \in 1..Len(out) : 1 < i => out[i] \in Page!Notices)
                => \A i \in 1..Len(out') : 1 < i => out'[i] \in Page!Notices
          /\ out = <<>> => out' = <<>>
      BY <2>1, RestFramed DEF Stream
    <2> QED
      BY <2>2, <2>3 DEF Stream
  <1>7. CASE Page!AcceptHandshake \/ Page!RefuseHandshake
    <2>1. Page!Handshake \in Written /\ Page!Refusal \in Written
      BY DEF Written
    <2> QED
      BY <1>7, <2>1, StreamAppend
         DEF Page!AcceptHandshake, Page!RefuseHandshake, Page!client, Stream
  <1>8. CASE Page!SendNotice
    <2>1. /\ notices + 1 \in 1..MaxNotices /\ Page!Notice(notices + 1) \in Written
          /\ Page!Notice(notices + 1) \in Page!Notices
      <3>1. notices + 1 \in 1..MaxNotices
        BY <1>8, ServicesAssumption DEF Page!SendNotice, Page!TypeOK
      <3> QED
        BY <3>1, NoticeMessages DEF Written
    <2> QED
      BY <1>8, <2>1, StreamAppend DEF Page!SendNotice
  <1>9. CASE Page!HubCloses
    <2>1. Page!Close \in Written
      BY DEF Written
    <2> QED
      BY <1>9, <2>1, StreamAppend DEF Page!HubCloses, Page!client
  <1>10. CASE Page!HubCrashes
    <2>1. out' = <<>> /\ out' \in Seq(Written) /\ Framed(out')
      BY <1>10 DEF Page!HubCrashes, Framed
    <2> QED
      BY <1>10, <2>1 DEF Page!HubCrashes, Stream
  <1> QED
    BY <1>2, <1>3, <1>4, <1>5, <1>6, <1>7, <1>8, <1>9, <1>10
       DEF Page!Next, Page!Client, Page!Jobs, Page!Hub

\* The flags of the client, and what names a place in its code.
Flags == {received, transport, running, aborted, listening, crashed} \subseteq BOOLEAN

Places ==
    /\ start \in {"new", "negotiate", "connect", "post", "handshake", "resolved", "rejected"}
    /\ hub \in {"Disconnected", "Connected"}
    /\ http \in {"Disconnected", "Connecting", "Connected"}
    /\ handshake \in {"pending", "resolved", "rejected"}
    /\ poll \in {"none", "next", "get", "over"}
    /\ stop \in {"none", "called", "receiving", "delete", "done"}
    /\ request \in {"none", "sent", "arrived"}
    /\ peer \in {"none", "open", "shaken", "joined", "gone"}

Counts ==
    /\ heard \in Seq(Page!Notices) /\ ends \in Nat
    /\ notices \in 0..MaxNotices /\ timeouts \in 0..MaxTimeouts

LEMMA PageTypeParts ==
    Page!TypeOK <=> Flags /\ Places /\ Counts /\ out \in Seq(Written)
PROOF
  <1>1. Page!TypeOK => Flags /\ Places /\ Counts /\ out \in Seq(Written)
    BY Zenon DEF Page!TypeOK, Flags, Places, Counts, Written
  <1>2. Flags /\ Places /\ Counts /\ out \in Seq(Written) => Page!TypeOK
    BY Zenon DEF Page!TypeOK, Flags, Places, Counts, Written
  <1> QED
    BY <1>1, <1>2

LEMMA FlagsStep ==
    ASSUME Flags, [Page!Next]_pageVars
    PROVE  Flags'
PROOF
  <1> DEFINE flags == <<received, transport, running, aborted, listening, crashed>>
  <1>1. CASE UNCHANGED flags
    BY <1>1, Zenon DEF Flags
  <1>2. CASE Page!Start \/ Page!ConnectedToNothing \/ Page!Posted \/ Page!PostFails \/ Page!Delete
             \/ Page!PollTimesOut \/ UNCHANGED pageVars
    BY <1>1, <1>2
       DEF Page!Start, Page!ConnectedToNothing, Page!Posted, Page!PostFails, Page!Delete,
           Page!PollTimesOut, Page!client, Page!network, pageVars
  <1>3. CASE Page!AcceptHandshake \/ Page!RefuseHandshake \/ Page!OnConnectedAsync
             \/ Page!SendNotice \/ Page!HubCloses
    BY <1>1, <1>3
       DEF Page!AcceptHandshake, Page!RefuseHandshake, Page!OnConnectedAsync, Page!SendNotice,
           Page!HubCloses, Page!client
  <1>4. ASSUME UNCHANGED <<received, listening, crashed>>,
               transport' \in {transport, TRUE, FALSE}, running' \in {running, TRUE, FALSE},
               aborted' \in {aborted, TRUE}
        PROVE  Flags'
    BY <1>4, Zenon DEF Flags
  <1>5. CASE Page!StartFails \/ Page!Negotiated \/ Page!Connected \/ Page!Stop
    BY <1>4, <1>5
       DEF Page!StartFails, Page!Negotiated, Page!Connected, Page!Stop, Page!network
  <1>6. CASE Page!NextPoll \/ Page!PollEnded \/ Page!Deleted
    <2>1. UNCHANGED <<received, listening, crashed, aborted>>
      BY <1>6 DEF Page!NextPoll, Page!PollEnded, Page!Deleted, Page!network
    <2>2. transport' \in {transport, FALSE} /\ running' \in {running, FALSE}
      BY <1>6 DEF Page!NextPoll, Page!PollEnded, Page!Deleted, Page!PollingComplete,
         Page!ConnectionClosed
    <2> QED
      BY <1>4, <2>1, <2>2
  <1>7. CASE Page!PollAnswered
    <2>1. PICK k \in 1..Len(out) :
             Page!HandshakeThrows(SubSeq(out, 1, k)) \/ Page!Processed(SubSeq(out, 1, k))
      BY <1>7 DEF Page!PollAnswered
    <2>2. UNCHANGED <<listening, crashed, aborted>>
      BY <1>7 DEF Page!PollAnswered
    <2>3. CASE Page!HandshakeThrows(SubSeq(out, 1, k))
      <3>1. received' = received /\ transport' \in {transport, FALSE}
            /\ running' \in {running, FALSE}
        BY <2>3 DEF Page!HandshakeThrows, Page!PollingComplete, Page!ConnectionClosed
      <3> QED
        BY <1>4, <2>2, <3>1
    <2>4. CASE Page!Processed(SubSeq(out, 1, k))
      <3>1. received' = TRUE /\ UNCHANGED <<transport, running>>
        BY <2>4 DEF Page!Processed
      <3> QED
        BY <2>2, <3>1, Zenon DEF Flags
    <2> QED
      BY <2>1, <2>3, <2>4
  <1>8. CASE Page!Shaken
    <2>1. UNCHANGED <<received, transport, running, aborted, crashed>>
          /\ listening' \in {listening, TRUE}
      BY <1>8 DEF Page!Shaken, Page!network
    <2> QED
      BY <2>1, Zenon DEF Flags
  <1>9. CASE Page!HubCrashes
    <2>1. UNCHANGED <<received, transport, running, aborted, listening>> /\ crashed' = TRUE
      BY <1>9 DEF Page!HubCrashes, Page!client
    <2> QED
      BY <2>1, Zenon DEF Flags
  <1> QED
    BY <1>2, <1>3, <1>5, <1>6, <1>7, <1>8, <1>9 DEF Page!Next, Page!Client, Page!Jobs, Page!Hub

LEMMA PlacesStep ==
    ASSUME Places, [Page!Next]_pageVars
    PROVE  Places'
PROOF
  <1>1. CASE Page!Start \/ Page!ConnectedToNothing \/ Page!Posted \/ Page!PostFails
             \/ Page!Delete \/ Page!PollTimesOut \/ UNCHANGED pageVars
    BY <1>1
       DEF Places, Page!Start, Page!ConnectedToNothing, Page!Posted, Page!PostFails,
           Page!Delete, Page!PollTimesOut, Page!client, Page!network, pageVars
  <1>2. CASE Page!AcceptHandshake \/ Page!RefuseHandshake \/ Page!OnConnectedAsync
             \/ Page!SendNotice \/ Page!HubCloses \/ Page!HubCrashes
    BY <1>2
       DEF Places, Page!AcceptHandshake, Page!RefuseHandshake, Page!OnConnectedAsync,
           Page!SendNotice, Page!HubCloses, Page!HubCrashes, Page!client
  <1>3. CASE Page!StartFails \/ Page!Negotiated \/ Page!Connected
    BY <1>3 DEF Places, Page!StartFails, Page!Negotiated, Page!Connected, Page!network
  <1>4. CASE Page!Stop
    BY <1>4 DEF Places, Page!Stop, Page!network
  <1>5. CASE Page!Shaken
    BY <1>5 DEF Places, Page!Shaken, Page!network
  <1>6. CASE Page!NextPoll
    BY <1>6, ClosedOrNot DEF Places, Page!NextPoll, Page!network
  <1>7. CASE Page!PollEnded
    BY <1>7, ClosedOrNot DEF Places, Page!PollEnded, Page!network
  <1>8. CASE Page!Deleted
    BY <1>8 DEF Places, Page!Deleted, Page!ConnectionClosed, Page!Settle
  <1>9. CASE Page!PollAnswered
    <2>1. PICK k \in 1..Len(out) :
             Page!HandshakeThrows(SubSeq(out, 1, k)) \/ Page!Processed(SubSeq(out, 1, k))
      BY <1>9 DEF Page!PollAnswered
    <2>2. UNCHANGED <<start, request, peer>>
      BY <1>9 DEF Page!PollAnswered
    <2>3. CASE Page!HandshakeThrows(SubSeq(out, 1, k))
      BY <2>2, <2>3, ClosedOrNot DEF Places, Page!HandshakeThrows, Page!StopCalled
    <2>4. CASE Page!Processed(SubSeq(out, 1, k))
      BY <2>2, <2>4 DEF Places, Page!Processed, Page!StopCalled, Page!Settle
    <2> QED
      BY <2>1, <2>3, <2>4
  <1> QED
    BY <1>1, <1>2, <1>3, <1>4, <1>5, <1>6, <1>7, <1>8, <1>9
       DEF Page!Next, Page!Client, Page!Jobs, Page!Hub

LEMMA CountsStep ==
    ASSUME Counts, Stream, [Page!Next]_pageVars
    PROVE  Counts'
PROOF
  <1>1. ASSUME UNCHANGED <<heard, notices, timeouts>>, ends' \in {ends, ends + 1}
        PROVE  Counts'
    BY <1>1 DEF Counts
  <1>2. CASE Page!Start \/ Page!Client
    BY <1>1, <1>2
       DEF Page!Start, Page!Client, Page!StartFails, Page!Negotiated, Page!Connected,
           Page!ConnectedToNothing, Page!Posted, Page!PostFails, Page!client, Page!network
  <1>3. CASE Page!Jobs \/ Page!PollEnded \/ Page!Deleted
    <2>1. UNCHANGED <<heard, notices, timeouts>>
      BY <1>3
         DEF Page!Jobs, Page!Shaken, Page!NextPoll, Page!Stop, Page!Delete, Page!PollEnded,
             Page!Deleted, Page!network
    <2>2. ends' \in {ends, ends + 1}
      BY <1>3, ClosedOrNot
         DEF Page!Jobs, Page!Shaken, Page!NextPoll, Page!Stop, Page!Delete, Page!PollEnded,
             Page!Deleted, Page!ConnectionClosed, Page!network
    <2> QED
      BY <1>1, <2>1, <2>2
  <1>4. CASE Page!PollAnswered
    <2>1. PICK k \in 1..Len(out) :
             Page!HandshakeThrows(SubSeq(out, 1, k)) \/ Page!Processed(SubSeq(out, 1, k))
      BY <1>4 DEF Page!PollAnswered
    <2>2. UNCHANGED <<notices, timeouts>>
      BY <1>4 DEF Page!PollAnswered
    <2>3. CASE Page!HandshakeThrows(SubSeq(out, 1, k))
      <3>1. heard' = heard /\ ends' \in {ends, ends + 1}
        BY <2>3, ClosedOrNot DEF Page!HandshakeThrows
      <3> QED
        BY <1>1, <2>2, <3>1
    <2>4. CASE Page!Processed(SubSeq(out, 1, k))
      <3>1. Page!NoticesOf(SubSeq(out, 1, k)) \in Seq(Page!Notices)
        BY NoticesTaken DEF Stream
      <3>2. heard \o Page!NoticesOf(SubSeq(out, 1, k)) \in Seq(Page!Notices)
        BY <3>1, ConcatProperties DEF Counts
      <3>3. ends' = ends /\ heard' \in {heard, heard \o Page!NoticesOf(SubSeq(out, 1, k))}
        BY <2>4 DEF Page!Processed, Page!Invoke
      <3> QED
        BY <2>2, <3>2, <3>3 DEF Counts
    <2> QED
      BY <2>1, <2>3, <2>4
  <1>5. CASE Page!PollTimesOut \/ Page!SendNotice
    BY <1>5, ServicesAssumption
       DEF Counts, Page!PollTimesOut, Page!SendNotice, Page!client
  <1>6. CASE Page!Hub \/ Page!OnConnectedAsync \/ Page!HubCloses \/ Page!HubCrashes
             \/ UNCHANGED pageVars
    BY <1>1, <1>6
       DEF Page!Hub, Page!AcceptHandshake, Page!RefuseHandshake, Page!OnConnectedAsync,
           Page!HubCloses, Page!HubCrashes, Page!client, pageVars
  <1> QED
    BY <1>2, <1>3, <1>4, <1>5, <1>6 DEF Page!Next

PageInv == Page!TypeOK /\ Control /\ Stream

LEMMA PageInvInit == Page!Init => PageInv
  BY ControlInit DEF PageInv

LEMMA PageInvStep ==
    ASSUME PageInv, [Page!Next]_pageVars
    PROVE  PageInv'
PROOF
  <1>1. Page!TypeOK /\ Control /\ Stream /\ Flags /\ Places /\ Counts
    BY PageTypeParts DEF PageInv
  <1>2. Control' /\ Stream'
    BY <1>1, ControlStep, StreamStep
  <1>3. Flags' /\ Places' /\ Counts'
    BY <1>1, FlagsStep, PlacesStep, CountsStep
  <1>4. out' \in Seq(Written)
    BY <1>2 DEF Stream
  <1>5. (Page!TypeOK)'
    BY <1>3, <1>4, Zenon DEF Page!TypeOK, Flags, Places, Counts, Written
  <1> QED
    BY <1>2, <1>5 DEF PageInv

\* What the channel has pending, and its variables.
Pending == IF ends = 0 THEN Page!NoticesOf(out) ELSE <<>>
channelVars == <<Pending, listening, heard, timeouts + (IF crashed THEN 1 ELSE 0), ends>>

LEMMA ChannelInit == Page!Init => Page!Channel!Init
  BY DEF Page!Init, Page!Channel!Init, Page!NoticesOf

LEMMA ChannelStutters ==
    ASSUME UNCHANGED <<out, listening, heard, timeouts, crashed, ends>>
    PROVE  [Page!Channel!Next]_channelVars
  BY DEF channelVars, Pending, Page!NoticesOf

LEMMA PageEnds ==
    ASSUME PageInv, UNCHANGED <<listening, heard, timeouts, crashed>>, ends = 0, ends' = 1
    PROVE  Page!Channel!Next
PROOF
  <1>1. Pending' = <<>>
    BY DEF Pending
  <1>2. Page!Channel!End
    BY <1>1 DEF Page!Channel!End, Pending
  <1> QED
    BY <1>2 DEF Page!Channel!Next

\* An answer with data: what was read is heard.
LEMMA AnswerRead ==
    ASSUME PageInv, NEW k \in 1..Len(out), out' = SubSeq(out, k + 1, Len(out)),
           UNCHANGED <<listening, timeouts, crashed, ends>>, ends = 0,
           Page!Invoke(Page!NoticesOf(SubSeq(out, 1, k)))
    PROVE  [Page!Channel!Next]_channelVars
PROOF
  <1> DEFINE p == Page!NoticesOf(out)  q == Page!NoticesOf(SubSeq(out, 1, k))
  <1>1. /\ p \in Seq(Page!Notices) /\ q \in Seq(Page!Notices) /\ Len(q) \in 0..Len(p)
        /\ q = SubSeq(p, 1, Len(q)) /\ Page!NoticesOf(out') = SubSeq(p, Len(q) + 1, Len(p))
    BY NoticesTaken DEF PageInv, Stream
  <1>2. heard' = IF listening THEN heard \o q ELSE heard
    BY DEF Page!Invoke
  <1>3. Pending = p /\ Pending' = SubSeq(p, Len(q) + 1, Len(p))
    BY <1>1 DEF Pending
  <1>4. heard \in Seq(Page!Notices)
    BY PageTypeParts DEF PageInv, Counts
  <1> HIDE DEF p, q
  <1>5. CASE q = <<>>
    <2>1. Pending' = Pending
      <3>1. Len(q) = 0
        BY <1>5
      <3>2. SubSeq(p, 1, Len(p)) = p
        BY <1>1, SubSeqFull
      <3> QED
        BY <1>3, <3>1, <3>2
    <2>2. heard' = heard
      BY <1>2, <1>4, <1>5, ConcatEmptySeq
    <2> QED
      BY <2>1, <2>2 DEF channelVars
  <1>6. CASE q # <<>>
    <2>1. Len(q) \in 1..Len(Pending)
      BY <1>1, <1>3, <1>6
    <2>2. Page!Channel!Take(Len(q))
      BY <1>1, <1>2, <1>3 DEF Page!Channel!Take, Pending
    <2>3. Page!Channel!Read
      BY <2>1, <2>2 DEF Page!Channel!Read, Pending
    <2> QED
      BY <2>3 DEF Page!Channel!Next
  <1> QED
    BY <1>5, <1>6

\* A poll given up: what was on its way is lost.
LEMMA AnswerLost ==
    ASSUME PageInv, Page!PollTimesOut
    PROVE  Page!Channel!Next
PROOF
  <1>1. PICK k \in 0..Len(out) : out' = SubSeq(out, k + 1, Len(out))
    BY DEF Page!PollTimesOut
  <1> DEFINE p == Page!NoticesOf(out)  q == Page!NoticesOf(SubSeq(out, 1, k))
  <1>2. /\ Len(q) \in 0..Len(p) /\ Page!NoticesOf(out') = SubSeq(p, Len(q) + 1, Len(p))
    BY <1>1, NoticesTaken DEF PageInv, Stream
  <1>3. ends = 0 /\ ends' = 0
    BY DEF PageInv, Control, Page!PollTimesOut
  <1>4. timeouts \in Nat /\ timeouts' = timeouts + 1
    BY PageTypeParts, ServicesAssumption DEF PageInv, Counts, Page!PollTimesOut
  <1>5. timeouts' + (IF crashed THEN 1 ELSE 0) = (timeouts + (IF crashed THEN 1 ELSE 0)) + 1
    BY <1>4
  <1>6. Pending' = SubSeq(Pending, Len(q) + 1, Len(Pending)) /\ Len(q) \in 0..Len(Pending)
    BY <1>2, <1>3 DEF Pending
  <1> HIDE DEF p, q
  <1>7. Page!Channel!Fault
    BY <1>3, <1>5, <1>6 DEF Page!Channel!Fault, Pending, Page!PollTimesOut
  <1> QED
    BY <1>7 DEF Page!Channel!Next

\* A crash of the hub loses what it has written.
LEMMA CrashLoses ==
    ASSUME PageInv, Page!HubCrashes
    PROVE  Page!Channel!Next
PROOF
  <1>1. ~crashed /\ crashed' = TRUE
    BY DEF PageInv, Stream, Page!HubCrashes
  <1>2. timeouts \in Nat /\ timeouts' = timeouts
    BY PageTypeParts, ServicesAssumption DEF PageInv, Counts, Page!HubCrashes
  <1>3. timeouts' + (IF crashed' THEN 1 ELSE 0) = (timeouts + (IF crashed THEN 1 ELSE 0)) + 1
    BY <1>1, <1>2
  <1>4. Pending \in Seq(Page!Notices)
    BY NoticesOfProperties DEF PageInv, Stream, Pending
  <1>5. Pending' = <<>>
    BY DEF Pending, Page!HubCrashes, Page!NoticesOf
  <1>6. Len(Pending) \in 0..Len(Pending)
        /\ SubSeq(Pending, Len(Pending) + 1, Len(Pending)) = <<>>
    BY <1>4, SubSeqEmpty
  <1>7. UNCHANGED <<listening, heard, ends>>
    BY DEF Page!HubCrashes, Page!client
  <1>8. \E n \in 0..Len(Pending) : Pending' = SubSeq(Pending, n + 1, Len(Pending))
    BY <1>5, <1>6
  <1>9. Page!Channel!Fault
    BY <1>3, <1>7, <1>8 DEF Page!Channel!Fault, Pending
  <1> QED
    BY <1>9 DEF Page!Channel!Next

\* A message of the hub that is no notice is nothing to the channel.
LEMMA WriteStutters ==
    ASSUME PageInv, NEW m \in Written \ Page!Notices, out' = Append(out, m), peer # "gone",
           UNCHANGED <<listening, heard, timeouts, crashed, ends>>
    PROVE  [Page!Channel!Next]_channelVars
PROOF
  <1>1. Page!NoticesOf(out') = Page!NoticesOf(out)
    BY NoticesAppend DEF PageInv, Stream
  <1> QED
    BY <1>1 DEF channelVars, Pending

\* Every step of the client and of the hub is a step of the channel, or none to it.
LEMMA ChannelStep ==
    ASSUME PageInv, [Page!Next]_pageVars
    PROVE  [Page!Channel!Next]_channelVars
PROOF
  <1>1. CASE Page!Start \/ Page!Client
    BY <1>1, ChannelStutters
       DEF Page!Start, Page!Client, Page!StartFails, Page!Negotiated, Page!Connected,
           Page!ConnectedToNothing, Page!Posted, Page!PostFails, Page!client, Page!network
  <1>2. CASE Page!Shaken
    <2>1. UNCHANGED <<out, heard, timeouts, crashed, ends>>
      BY <1>2 DEF Page!Shaken, Page!network
    <2>2. CASE listening' = listening
      BY <2>1, <2>2, ChannelStutters
    <2>3. CASE listening' = TRUE
      <3>1. Page!Channel!Listen
        BY <2>1, <2>3 DEF Page!Channel!Listen, Page!NoticesOf
      <3> QED
        BY <3>1 DEF Page!Channel!Next
    <2> QED
      BY <1>2, <2>2, <2>3 DEF Page!Shaken
  <1>3. CASE Page!NextPoll \/ Page!Stop \/ Page!Delete \/ Page!OnConnectedAsync
             \/ UNCHANGED pageVars
    <2>1. UNCHANGED <<out, listening, heard, timeouts, crashed, ends>>
      BY <1>3, ClosedOrNot
         DEF Page!NextPoll, Page!Stop, Page!Delete, Page!OnConnectedAsync, Page!client,
             Page!network, pageVars
    <2> QED
      BY <2>1, ChannelStutters
  <1>4. CASE Page!PollAnswered
    <2>1. PICK k \in 1..Len(out) :
             /\ Page!HandshakeThrows(SubSeq(out, 1, k)) \/ Page!Processed(SubSeq(out, 1, k))
             /\ out' = SubSeq(out, k + 1, Len(out))
      BY <1>4 DEF Page!PollAnswered
    <2>2. UNCHANGED <<listening, timeouts, crashed>> /\ ends = 0 /\ ~aborted
      <3>1. poll = "get"
        BY <1>4 DEF Page!PollAnswered
      <3> QED
        BY <1>4, <3>1 DEF Page!PollAnswered, PageInv, Control
    <2>3. CASE Page!HandshakeThrows(SubSeq(out, 1, k))
      BY <2>2, <2>3, ClosedOrNot, PageEnds DEF Page!HandshakeThrows
    <2>4. CASE Page!Processed(SubSeq(out, 1, k))
      BY <2>1, <2>2, <2>4, AnswerRead DEF Page!Processed
    <2> QED
      BY <2>1, <2>3, <2>4
  <1>5. CASE Page!PollEnded
    <2>1. ends = 0 /\ ~aborted
      BY <1>5 DEF Page!PollEnded, PageInv, Control
    <2> QED
      BY <1>5, <2>1, ClosedOrNot, PageEnds DEF Page!PollEnded, Page!network
  <1>6. CASE Page!PollTimesOut
    BY <1>6, AnswerLost
  <1>7. CASE Page!Deleted
    <2>1. ends = 0
      BY <1>7 DEF Page!Deleted, PageInv, Control
    <2> QED
      BY <1>7, <2>1, PageEnds DEF Page!Deleted, Page!ConnectionClosed
  <1>8. CASE Page!AcceptHandshake \/ Page!RefuseHandshake \/ Page!HubCloses
    <2>1. {Page!Handshake, Page!Refusal, Page!Close} \subseteq Written \ Page!Notices
      BY NoticeMessages DEF Written
    <2> QED
      BY <1>8, <2>1, WriteStutters
         DEF Page!AcceptHandshake, Page!RefuseHandshake, Page!HubCloses, Page!client
  <1>9. CASE Page!SendNotice
    <2> DEFINE n == Page!Notice(notices + 1)
    <2>1. n \in Page!Notices /\ n \in Written
      <3>1. notices + 1 \in 1..MaxNotices
        BY <1>9, PageTypeParts, ServicesAssumption DEF Page!SendNotice, PageInv, Counts
      <3> QED
        BY <3>1, NoticeMessages DEF Written
    <2>2. out' = Append(out, n) /\ UNCHANGED <<listening, heard, timeouts, crashed, ends>>
          /\ peer # "gone"
      BY <1>9 DEF Page!SendNotice, Page!client
    <2> HIDE DEF n
    <2>3. Page!NoticesOf(out') = Append(Page!NoticesOf(out), n)
      BY <2>1, <2>2, NoticesAppend DEF PageInv, Stream
    <2>4. CASE ends = 0
      <3>1. Page!Channel!Send
        BY <2>1, <2>2, <2>3, <2>4 DEF Page!Channel!Send
      <3> QED
        BY <3>1 DEF Page!Channel!Next
    <2>5. CASE ends # 0
      BY <2>2, <2>5 DEF channelVars, Pending
    <2> QED
      BY <2>4, <2>5
  <1>10. CASE Page!HubCrashes
    BY <1>10, CrashLoses
  <1> QED
    BY <1>1, <1>2, <1>3, <1>4, <1>5, <1>6, <1>7, <1>8, <1>9, <1>10
       DEF Page!Next, Page!Jobs, Page!Hub

\* The client of site.js keeps what a notification channel promises to the page: the handler
\* hears the hub's notices in their order and once each, the end of the connection is
\* announced once, and nothing is heard after it.
THEOREM PageKeepsChannel == Page!Spec => KeepsChannel
PROOF
  <1>1. Page!Spec => Page!Init /\ [][Page!Next]_pageVars
    <2>1. [Page!Next]_(Page!vars) => [Page!Next]_pageVars
      BY DEF Page!vars, Page!client, Page!network, pageVars
    <2> QED
      BY <2>1, PTL DEF Page!Spec
  <1>2. Page!Init => PageInv /\ Page!Channel!Init
    BY PageInvInit, ChannelInit
  <1>3. PageInv /\ [Page!Next]_pageVars => PageInv' /\ [Page!Channel!Next]_channelVars
    BY PageInvStep, ChannelStep
  <1>4. Page!Init /\ [][Page!Next]_pageVars
           => Page!Channel!Init /\ [][Page!Channel!Next]_channelVars
    BY <1>2, <1>3, PTL
  <1>5. Page!Channel!Init /\ [][Page!Channel!Next]_channelVars => KeepsChannel
    BY PTL DEF KeepsChannel, Page!KeepsChannel, Page!Channel!Spec, Page!Channel!vars,
       channelVars, Pending
  <1> QED
    BY <1>1, <1>4, <1>5, PTL

-----------------------------------------------------------------------------
(* The types of all of them *)

\* Where the list has its hooks, it has its type.
LEMMA HooksTyped == ListInv => Hooks!TypeOK
PROOF
  <1> SUFFICES ASSUME ListInv
               PROVE  Hooks!TypeOK
    OBVIOUS
  <1>1. /\ Cardinality(Hooks!Hooks) \in Nat /\ Cardinality(Kept) \in Nat
        /\ Cardinality(Kept) <= Cardinality(Hooks!Hooks)
        /\ Hooks!Cardinality(Hooks!Hooks) = Cardinality(Hooks!Hooks)
    BY HooksFinite, HooksCardinality
  <1>2. size \in 0..Hooks!Cardinality(Hooks!Hooks)
    BY <1>1 DEF ListInv, ListType, Placed
  <1>3. slot \in [Hooks!Hooks -> 0..Hooks!Cardinality(Hooks!Hooks)]
    BY <1>1 DEF ListInv, ListType, Placed
  <1> QED
    BY <1>2, <1>3, Zenon DEF ListInv, SendType, HookType, ListType, Hooks!TypeOK

\* The invariants the types of the components rest on.
ComponentTypes ==
    /\ Inv /\ Buyer!TypeOK /\ Grace!TypeOK /\ Tabs!TypeOK /\ Hub!TypeOK /\ ListInv
    /\ Items!TypeOK /\ PageInv

LEMMA ServicesTypeInit == ServicesInit => ComponentTypes
PROOF
  <1> SUFFICES ASSUME ServicesInit
               PROVE  ComponentTypes
    OBVIOUS
  <1>1. Items!TypeOK
    <2>1. CASE service = "Items"
      BY <2>1, ItemsTypeInit DEF ServicesInit
    <2>2. CASE service # "Items"
      <3>1. basket = <<>> /\ next = 1 /\ lines = <<>> /\ threw = FALSE
        BY <2>2 DEF ServicesInit
      <3>2. /\ basket \in Seq(Items!Items) /\ next \in 1..(Len(basket) + 1) /\ DOMAIN lines = {}
            /\ lines \in [DOMAIN lines -> [price : Prices, units : Nat \ {0}]]
        BY <3>1
      <3> QED
        BY <3>1, <3>2, Zenon DEF Items!TypeOK
    <2> QED
      BY <2>1, <2>2
  <1> QED
    BY <1>1, InvInit, BuyerTypeInit, GraceTypeInit, TabsTypeInit, HubTypeInit, ListInit,
       PageInvInit
       DEF ServicesInit, ComponentTypes

\* Whoever is at work, every component takes a step of its own or none.
LEMMA ServicesSteps ==
    ASSUME [ServicesNext]_allVars
    PROVE  /\ [Next]_busVars /\ [Buyer!Next]_buyerVars /\ [Grace!Next]_graceVars
           /\ [Tabs!Next]_tabsVars /\ [Hub!Next]_hubVars /\ [Hooks!Next]_hooksVars
           /\ [Items!Next]_itemsVars /\ [Page!Next]_pageVars
  BY DEF ServicesNext, allVars

LEMMA ServicesTypeStep ==
    ASSUME ComponentTypes, [ServicesNext]_allVars
    PROVE  ComponentTypes'
PROOF
  <1>1. Inv'
    BY ServicesSteps, InvStep DEF ComponentTypes, busVars
  <1>2. (Buyer!TypeOK)' /\ (Grace!TypeOK)' /\ (Tabs!TypeOK)' /\ (Hub!TypeOK)'
    BY ServicesSteps, BuyerTypeStep, GraceTypeStep, TabsTypeStep, HubTypeStep DEF ComponentTypes
  <1>3. ListInv' /\ (Items!TypeOK)' /\ PageInv'
    BY ServicesSteps, ListStep, ItemsTypeStep, PageInvStep DEF ComponentTypes
  <1> QED
    BY <1>1, <1>2, <1>3 DEF ComponentTypes

\* The state of every component keeps its type, whichever component is at work.
THEOREM ServicesTypeCorrect == ServicesSpec => []ServicesTypeOK
PROOF
  <1>1. ComponentTypes => ServicesTypeOK
    BY TypesAreTypeOK, HooksTyped DEF ComponentTypes, Inv, ServicesTypeOK, PageInv
  <1> QED
    BY <1>1, ServicesTypeInit, ServicesTypeStep, PTL DEF ServicesSpec
===============================================================================
