--------------------------- MODULE UserConnections ---------------------------
(***************************************************************************)
(* MapUserMVC: the static map from users to their SignalR connections      *)
(* (UserConnectionManager), filled by the hub method GetConnectionId,      *)
(* cleared by OnDisconnectedAsync and walked by the action AdminUser.      *)
(*                                                                         *)
(* The lock of the manager covers one call.  AdminUser gets the list       *)
(* itself and walks it after the lock has been given up, an await in every *)
(* turn: it can see List<T> between any two writes of Add and Remove.  Add *)
(* raises _version before it touches the items, RemoveAt lowers _size      *)
(* first, closes the gap item by item and raises _version last.  MoveNext  *)
(* is one step: before it ends a walk it reads _version again.             *)
(***************************************************************************)
EXTENDS Naturals, SequencesExt

CONSTANTS
    Users, Connections,
    UserOf,    \* the userId in the query string of each connection
    Posts      \* requests to AdminUser

VARIABLES
    state,     \* connection -> "new", "connected", "kept", "gone"
    list,      \* user -> his entry in userConnectionMap
    entries,   \* the keys of userConnectionMap
    version,   \* user -> List<T>._version of his entry
    inside,    \* the call that has the lock of the manager
    post       \* request -> where AdminUser is

vars == <<state, list, entries, version, inside, post>>

Idle == [at |-> "idle"]
Free == [op |-> "none"]
NoConnection == <<>>   \* an item that is not written yet
Members(s) == {s[i] : i \in DOMAIN s}

Init ==
    /\ state = [c \in Connections |-> "new"]
    /\ list = [u \in Users |-> <<>>] /\ entries = {}
    /\ version = [u \in Users |-> 0]
    /\ inside = Free
    /\ post = [p \in Posts |-> Idle]

\* The page connects.
Connect(c) ==
    /\ state[c] = "new" /\ state' = [state EXCEPT ![c] = "connected"]
    /\ UNCHANGED <<list, entries, version, inside, post>>

\* GetConnectionId, which the page calls once, and KeepUserConnection: the lock, the entry
\* of the user, and List.Add raises the version.
GetConnectionId(c) ==
    /\ state[c] = "connected" /\ inside = Free
    /\ state' = [state EXCEPT ![c] = "kept"]
    /\ LET u == UserOf[c]
       IN /\ entries' = entries \cup {u}
          /\ version' = [version EXCEPT ![u] = @ + 1]
          /\ inside' = [op |-> "grow", user |-> u, connection |-> c]
    /\ UNCHANGED <<list, post>>

\* The rest of List.Add: the size, and then the item.
Add ==
    /\ \/ /\ inside.op = "grow"
          /\ list' = [list EXCEPT ![inside.user] = Append(@, NoConnection)]
          /\ inside' = [inside EXCEPT !.op = "write"]
       \/ /\ inside.op = "write"
          /\ list' = [list EXCEPT ![inside.user] = Append(Front(@), inside.connection)]
          /\ inside' = Free
    /\ UNCHANGED <<state, entries, version, post>>

\* List.Remove: where c is first in s.
IndexOf(s, c) == {i \in DOMAIN s : s[i] = c /\ \A j \in 1..(i - 1) : s[j] # c}

\* OnDisconnectedAsync and RemoveUserConnection: the lock, and the first user whose list has
\* the connection, where RemoveAt lowers the size; his entry stays, empty or not.  The hub
\* runs the calls of one connection one after the other, so GetConnectionId does not come
\* later.
OnDisconnectedAsync(c) ==
    /\ state[c] \in {"connected", "kept"} /\ inside = Free
    /\ state' = [state EXCEPT ![c] = "gone"]
    /\ LET holders == {u \in entries : c \in Members(list[u])}
       IN \/ holders = {} /\ UNCHANGED inside
          \/ \E u \in holders : \E i \in IndexOf(list[u], c) :
                inside' = [op |-> "remove", user |-> u, gap |-> i]
    /\ UNCHANGED <<list, entries, version, post>>

Removing(u) == inside.op = "remove" /\ inside.user = u

\* The rest of RemoveAt: the items behind the gap move up one by one, and in the end the
\* last place is cleared and the version raised.
RemoveAtGap ==
    /\ inside.op = "remove"
    /\ LET u == inside.user  i == inside.gap
       IN \/ /\ i < Len(list[u])
             /\ list' = [list EXCEPT ![u][i] = list[u][i + 1]]
             /\ inside' = [inside EXCEPT !.gap = i + 1] /\ UNCHANGED version
          \/ /\ i = Len(list[u])
             /\ list' = [list EXCEPT ![u] = Front(@)]
             /\ version' = [version EXCEPT ![u] = @ + 1] /\ inside' = Free
    /\ UNCHANGED <<state, entries, post>>

\* _size, which RemoveAt has lowered before it moves the items.
Size(u) == IF Removing(u) THEN Len(list[u]) - 1 ELSE Len(list[u])

\* AdminUser: GetUserConnections, which throws for a user without an entry.
AdminUser(p, u) ==
    /\ post[p].at = "idle" /\ inside = Free
    /\ post' = [post EXCEPT ![p] =
                   IF u \in entries THEN [at |-> "listed", user |-> u] ELSE [at |-> "threw"]]
    /\ UNCHANGED <<state, list, entries, version, inside>>

\* An empty list ends the request; otherwise the foreach begins and notes the version.
BeginForeach(p) ==
    /\ LET u == post[p].user
       IN \/ /\ post[p].at = "listed" /\ Size(u) = 0
             /\ post' = [post EXCEPT ![p] = [at |-> "done", user |-> u, sent |-> {}]]
          \/ /\ post[p].at = "listed" /\ Size(u) > 0
             /\ post' = [post EXCEPT ![p].at = "counted"]
          \/ /\ post[p].at = "counted"
             /\ post' = [post EXCEPT ![p] = [at |-> "sending", user |-> u, next |-> 1,
                                            version |-> version[u], sent |-> {}]]
    /\ UNCHANGED <<state, list, entries, version, inside>>

\* Mutant: a for loop with an index.
SendToUserMutant(p) ==
    /\ post[p].at = "sending"
    /\ LET u == post[p].user  n == post[p].next  sent == post[p].sent
       IN \/ /\ n <= Size(u)
             /\ post' = [post EXCEPT ![p].next = n + 1, ![p].sent = sent \cup {list[u][n]}]
          \/ /\ n > Size(u)
             /\ post' = [post EXCEPT ![p] = [at |-> "done", user |-> u, sent |-> sent]]
    /\ UNCHANGED <<state, list, entries, version, inside>>

\* One turn of the foreach: MoveNext throws when the version is not that of the beginning.
\* Otherwise the message is sent, in vain when the connection is gone; to send to the empty
\* item throws.
SendToUser(p) ==
    /\ post[p].at = "sending"
    /\ LET u == post[p].user  n == post[p].next  sent == post[p].sent
           same == post[p].version = version[u]
       IN \/ /\ ~same \/ (n <= Size(u) /\ list[u][n] = NoConnection)
             /\ post' = [post EXCEPT ![p] = [at |-> "threw"]]
          \/ /\ same /\ n <= Size(u) /\ list[u][n] # NoConnection
             /\ post' = [post EXCEPT ![p].next = n + 1, ![p].sent = sent \cup {list[u][n]}]
          \/ /\ same /\ n > Size(u)
             /\ post' = [post EXCEPT ![p] = [at |-> "done", user |-> u, sent |-> sent]]
    /\ UNCHANGED <<state, list, entries, version, inside>>

Next ==
    \/ \E c \in Connections : Connect(c) \/ GetConnectionId(c) \/ OnDisconnectedAsync(c)
    \/ Add \/ RemoveAtGap
    \/ \E p \in Posts : \/ \E u \in Users : AdminUser(p, u)
                        \/ BeginForeach(p) \/ SendToUser(p)

Spec == Init /\ [][Next]_vars

-----------------------------------------------------------------------------
(* Properties *)

Items == Connections \cup {NoConnection}

Listed == [at : {"listed", "counted"}, user : Users]
Sending == [at : {"sending"}, user : Users, next : Nat \ {0}, version : Nat,
            sent : SUBSET Connections]
Done == [at : {"done"}, user : Users, sent : SUBSET Connections]

Keeping == [op : {"grow", "write"}, user : Users, connection : Connections]
Gap == [op : {"remove"}, user : Users, gap : Nat \ {0}]

TypeOK ==
    /\ state \in [Connections -> {"new", "connected", "kept", "gone"}]
    /\ list \in [Users -> Seq(Items)] /\ entries \subseteq Users
    /\ version \in [Users -> Nat]
    /\ inside \in {Free} \cup Keeping \cup Gap
    /\ inside.op = "write" => list[inside.user] # <<>>
    /\ inside.op = "remove" => inside.gap <= Len(list[inside.user])
    /\ post \in [Posts -> {Idle, [at |-> "threw"]} \cup Listed \cup Sending \cup Done]

\* A request to AdminUser that ends well has sent its message to exactly the connections its
\* user has at its end, whoever came or left while it was walking the list without the lock,
\* unless a connection of the same user is being removed at that very moment: the list is
\* short by then and its version still the old one, and a connection that stays may have
\* been passed over.
DoneReachesAll ==
    [][\A p \in Posts : post'[p].at = "done" /\ post[p].at # "done"
          => \/ post'[p].sent = Members(list[post'[p].user])
             \/ Removing(post'[p].user)]_vars
==============================================================================
