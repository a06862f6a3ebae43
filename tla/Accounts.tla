------------------------------ MODULE Accounts ------------------------------
(***************************************************************************)
(* Who a request acts for, and the rows it may act on: registering, login  *)
(* and the demo account (routers/auth.py, auth.py), and the rows of the    *)
(* watchlist (routers/watchlist.py).  The endpoints run in worker threads, *)
(* one session each, and no statement that only reads opens a transaction: *)
(* other requests commit between any two statements of one request.        *)
(*                                                                         *)
(* Row ids are SQLite's: one more than the largest in the table, so that   *)
(* an id is handed out again once the row that had the largest is deleted. *)
(***************************************************************************)
EXTENDS Integers, FiniteSetsExt

CONSTANTS
    Clients,        \* browser tabs and scripts
    Email,          \* the address each of them signs in with
    Password,       \* ... and the password
    DemoEmail,      \* the documented demo account, which nobody registers:
    DemoPassword,   \* its domain is reserved, EmailStr refuses it
    Symbols,
    MaxItem,        \* bound on the row ids of watchlist_items
    MaxRestarts     \* bound on restarts of the process

ASSUME EmailAssumption ==
    /\ DOMAIN Email = Clients /\ DOMAIN Password = Clients
    /\ \A c \in Clients : Email[c] # DemoEmail
ASSUME BoundAssumption == MaxItem \in Nat /\ MaxRestarts \in Nat

VARIABLES
    users,      \* id -> [email, password]
    items,      \* id -> [user, symbol]
    token,      \* per client, the id its token encodes; 0 without a token
    req,        \* per client, the request under way
    restarts

vars == <<users, items, token, req, restarts>>

\* The history field `stale` tells that the row a request works on has been
\* deleted by another request meanwhile.
NoRequest == [at |-> "idle", email |-> DemoEmail, password |-> DemoPassword,
              user |-> 0, symbol |-> "none", id |-> 0, stale |-> FALSE]

UsersWith(email) == {i \in DOMAIN users : users[i].email = email}
ItemsOf(user, symbol) ==
    {i \in DOMAIN items : items[i] = [user |-> user, symbol |-> symbol]}

FreshId(table) == IF DOMAIN table = {} THEN 1 ELSE 1 + Max(DOMAIN table)
Insert(table, row) ==
    [i \in DOMAIN table \cup {FreshId(table)} |->
        IF i = FreshId(table) THEN row ELSE table[i]]

Init ==
    /\ users = [i \in {} |-> NoRequest]
    /\ items = [i \in {} |-> NoRequest]
    /\ token = [c \in Clients |-> 0]
    /\ req = [c \in Clients |-> NoRequest]
    /\ restarts = 0

Ends(c) == req' = [req EXCEPT ![c] = NoRequest]

\* create_access_token(user.id), and the client keeps it.
Issues(c, id) ==
    /\ token' = [token EXCEPT ![c] = id]
    /\ Ends(c)

\* register looks for the address (409 if it is taken) and hashes the password.
Register(c) ==
    /\ req[c].at = "idle" /\ token[c] = 0
    /\ UsersWith(Email[c]) = {}
    /\ req' = [req EXCEPT ![c] =
           [NoRequest EXCEPT !.at = "hashing", !.email = Email[c],
                             !.password = Password[c]]]
    /\ UNCHANGED <<users, items, token, restarts>>

\* Mutant of CommitUser: the loser of a race is handed the winner's account.
CommitUserOrGet(c) ==
    /\ req[c].at = "hashing"
    /\ IF UsersWith(req[c].email) = {}
       THEN /\ users' = Insert(users, [email |-> req[c].email,
                                       password |-> req[c].password])
            /\ Issues(c, FreshId(users))
       ELSE /\ Issues(c, CHOOSE i \in UsersWith(req[c].email) : TRUE)
            /\ UNCHANGED users
    /\ UNCHANGED <<items, restarts>>

\* The insert of register and of demo_login: an address taken meanwhile
\* violates the unique constraint, the request is a 500 and leaves no row.
CommitUser(c) ==
    /\ req[c].at = "hashing"
    /\ IF UsersWith(req[c].email) = {}
       THEN /\ users' = Insert(users, [email |-> req[c].email,
                                       password |-> req[c].password])
            /\ Issues(c, FreshId(users))
       ELSE Ends(c) /\ UNCHANGED <<users, token>>
    /\ UNCHANGED <<items, restarts>>

\* login: both an unknown address and a wrong password are a 401.
Login(c) ==
    /\ req[c].at = "idle" /\ token[c] = 0
    /\ \E i \in UsersWith(Email[c]) :
         /\ users[i].password = Password[c]
         /\ Issues(c, i)
    /\ UNCHANGED <<users, items, restarts>>

\* Mutant of DemoLogin: create, never get.
DemoLoginCreates(c) ==
    /\ req[c].at = "idle" /\ token[c] = 0
    /\ req' = [req EXCEPT ![c] = [NoRequest EXCEPT !.at = "hashing"]]
    /\ UNCHANGED <<users, items, token, restarts>>

\* demo_login gets the demo account or goes on to create it.
DemoLogin(c) ==
    /\ req[c].at = "idle" /\ token[c] = 0
    /\ \/ \E i \in UsersWith(DemoEmail) : Issues(c, i)
       \/ /\ UsersWith(DemoEmail) = {}
          /\ req' = [req EXCEPT ![c] = [NoRequest EXCEPT !.at = "hashing"]]
          /\ UNCHANGED token
    /\ UNCHANGED <<users, items, restarts>>

\* The token expires, or the profile menu drops it.
Expire(c) ==
    /\ req[c].at = "idle" /\ token[c] # 0
    /\ token' = [token EXCEPT ![c] = 0]
    /\ UNCHANGED <<users, items, req, restarts>>

\* get_current_user: the account the token names; without one it is a 401.
CurrentUser(c) == IF token[c] \in DOMAIN users THEN token[c] ELSE 0

\* add_to_watchlist looks for the row (409 if there is one) ...
Add(c, symbol) ==
    /\ req[c].at = "idle" /\ CurrentUser(c) # 0
    /\ ItemsOf(CurrentUser(c), symbol) = {}
    /\ req' = [req EXCEPT ![c] =
           [NoRequest EXCEPT !.at = "adding", !.user = CurrentUser(c),
                             !.symbol = symbol]]
    /\ UNCHANGED <<users, items, token, restarts>>

\* Mutant of CommitItem: no unique constraint on user and symbol.
CommitItemAnyway(c) ==
    /\ req[c].at = "adding" /\ FreshId(items) <= MaxItem
    /\ items' = Insert(items, [user |-> req[c].user, symbol |-> req[c].symbol])
    /\ req' = [req EXCEPT ![c].at = "added", ![c].id = FreshId(items)]
    /\ UNCHANGED <<users, token, restarts>>

\* Mutant of CommitItem: rows are unique by symbol, and taken over.
CommitItemTakesOver(c) ==
    LET old == {i \in DOMAIN items : items[i].symbol = req[c].symbol}
        id == IF old = {} THEN FreshId(items) ELSE Min(old)
    IN  /\ req[c].at = "adding" /\ id <= MaxItem
        /\ items' = [i \in DOMAIN items \cup {id} |->
               IF i = id THEN [user |-> req[c].user, symbol |-> req[c].symbol]
               ELSE items[i]]
        /\ req' = [req EXCEPT ![c].at = "added", ![c].id = id]
        /\ UNCHANGED <<users, token, restarts>>

\* ... and inserts it; the second of two concurrent adds is a 500.
CommitItem(c) ==
    /\ req[c].at = "adding"
    /\ IF ItemsOf(req[c].user, req[c].symbol) = {}
       THEN /\ FreshId(items) <= MaxItem
            /\ items' = Insert(items, [user |-> req[c].user, symbol |-> req[c].symbol])
            /\ req' = [req EXCEPT ![c].at = "added", ![c].id = FreshId(items)]
       ELSE Ends(c) /\ UNCHANGED items
    /\ UNCHANGED <<users, token, restarts>>

\* db.refresh(item) reads the row by its id, and the answer is made from it; a
\* row that is gone is a 500.
RefreshItem(c) ==
    /\ req[c].at = "added"
    /\ Ends(c)
    /\ UNCHANGED <<users, items, token, restarts>>

\* Mutant of Remove: the row is looked up by its id alone.
RemoveAnyones(c, id) ==
    /\ req[c].at = "idle" /\ CurrentUser(c) # 0
    /\ id \in DOMAIN items
    /\ req' = [req EXCEPT ![c] =
           [NoRequest EXCEPT !.at = "removing", !.user = CurrentUser(c), !.id = id]]
    /\ UNCHANGED <<users, items, token, restarts>>

\* remove_from_watchlist looks for the user's row with this id (404 without) ...
Remove(c, id) ==
    /\ req[c].at = "idle" /\ CurrentUser(c) # 0
    /\ id \in DOMAIN items /\ items[id].user = CurrentUser(c)
    /\ req' = [req EXCEPT ![c] =
           [NoRequest EXCEPT !.at = "removing", !.user = CurrentUser(c), !.id = id]]
    /\ UNCHANGED <<users, items, token, restarts>>

\* ... and deletes the row with this id, whosever it is by now.  That it
\* matches none only makes SQLAlchemy log a warning.
CommitRemoval(c) ==
    LET id == req[c].id
    IN  /\ req[c].at = "removing"
        /\ items' = [i \in DOMAIN items \ {id} |-> items[i]]
        /\ req' = [d \in Clients |->
               IF d = c THEN NoRequest
               ELSE IF req[d].at \in {"added", "removing"} /\ req[d].id = id
                    THEN [req[d] EXCEPT !.stale = TRUE]
               ELSE req[d]]
        /\ UNCHANGED <<users, token, restarts>>

\* The process dies and comes back; tokens stay good, requests are lost.
Restart ==
    /\ restarts < MaxRestarts
    /\ restarts' = restarts + 1
    /\ req' = [c \in Clients |-> NoRequest]
    /\ UNCHANGED <<users, items, token>>

Next ==
    \/ \E c \in Clients :
         \/ Register(c) \/ CommitUser(c) \/ Login(c) \/ DemoLogin(c) \/ Expire(c)
         \/ \E symbol \in Symbols : Add(c, symbol)
         \/ CommitItem(c) \/ RefreshItem(c)
         \/ \E id \in 1..MaxItem : Remove(c, id)
         \/ CommitRemoval(c)
    \/ Restart

Spec == Init /\ [][Next]_vars

\* A page without a token asks for the demo account, and again after a failure
\* when it is loaded again; requests that were started are served.
Fairness == \A c \in Clients : WF_vars(DemoLogin(c)) /\ WF_vars(CommitUser(c))

FairSpec == Spec /\ Fairness
-----------------------------------------------------------------------------
(* Properties *)

Emails == {Email[c] : c \in Clients} \cup {DemoEmail}
Passwords == {Password[c] : c \in Clients} \cup {DemoPassword}

Account == [email : Emails, password : Passwords]
Item == [user : DOMAIN users, symbol : Symbols]
Request == [at : {"idle", "hashing", "adding", "added", "removing"},
            email : Emails, password : Passwords,
            user : DOMAIN users \cup {0}, symbol : Symbols \cup {"none"},
            id : 0..MaxItem, stale : BOOLEAN]

TypeOK ==
    /\ IsFiniteSet(DOMAIN users) /\ DOMAIN users = 1..Cardinality(DOMAIN users)
    /\ users \in [DOMAIN users -> Account]
    /\ DOMAIN items \subseteq 1..MaxItem
    /\ items \in [DOMAIN items -> Item]
    /\ token \in [Clients -> DOMAIN users \cup {0}]
    /\ req \in [Clients -> Request]
    /\ restarts \in 0..MaxRestarts

AccountOf(c, account) ==
    \/ account = [email |-> Email[c], password |-> Password[c]]
    \/ account = [email |-> DemoEmail, password |-> DemoPassword]

\* Whatever registrations and logins race for one address, a client holds a
\* token for an account only if it knows the account's password; the demo
\* account is everybody's.
TokenNeedsPassword ==
    \A c \in Clients : token[c] # 0 => AccountOf(c, users[token[c]])

\* Two requests that both found nothing never leave two rows: one account per
\* address, one row per user and symbol.
KeysAreUnique ==
    /\ \A i, j \in DOMAIN users : users[i].email = users[j].email => i = j
    /\ \A i, j \in DOMAIN items : items[i] = items[j] => i = j

\* POST /api/watchlist reads back, and answers with, the row it was asked for,
\* unless another request deleted that row before.
AnswerIsTheRowAdded ==
    \A c \in Clients : req[c].at = "added" /\ req[c].id \in DOMAIN items =>
        \/ items[req[c].id] = [user |-> req[c].user, symbol |-> req[c].symbol]
        \/ req[c].stale

\* A row is deleted at its owner's request alone, unless the request looked it
\* up before another one deleted it, and its id was handed out again.
OnlyOwnerDeletes ==
    [][ \A i \in DOMAIN items \ DOMAIN items' :
          \E c \in Clients :
              /\ req[c].at = "removing" /\ req[c].id = i /\ req'[c].at = "idle"
              /\ req[c].user = items[i].user \/ req[c].stale ]_vars

\* However many pages open at once, and although all but one of those that
\* create the demo account fail, everyone is signed in in the end.
EveryoneSignsIn == \A c \in Clients : []<>(token[c] # 0)
=============================================================================
