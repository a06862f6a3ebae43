--------------------------- MODULE AccountsProofs ---------------------------
(***************************************************************************)
(* Accounts, proved for every set of clients, addresses and passwords, for *)
(* any number of rows and of restarts.  The ids that SQLite hands out are  *)
(* what the proofs turn on: an account is never deleted, so its id never   *)
(* comes back; a watchlist row's does.                                     *)
(***************************************************************************)
EXTENDS Accounts, FiniteSetTheorems, WellFoundedInduction, TLAPS

(* The inductive invariant: what a request that is under way has looked up, *)
(* and what it found, is still so, or known to be out of date.              *)

\* A client hashes the password that it sent, for the account it sent it for.
HashesItsPassword ==
    \A c \in Clients : req[c].at = "hashing" =>
        AccountOf(c, [email |-> req[c].email, password |-> req[c].password])

\* The demo account keeps its published password.
DemoIsEverybodys ==
    \A i \in DOMAIN users :
        users[i].email = DemoEmail => users[i].password = DemoPassword

\* A row is added for an account that exists.
AddsForSomebody ==
    \A c \in Clients : req[c].at = "adding" =>
        req[c].user \in DOMAIN users /\ req[c].symbol \in Symbols

\* The row a request has looked up is its user's, unless known to be stale.
RowIsTheRequests ==
    \A c \in Clients : req[c].at \in {"added", "removing"} /\ ~req[c].stale =>
        /\ req[c].id \in DOMAIN items
        /\ items[req[c].id].user = req[c].user
        /\ req[c].at = "added" => items[req[c].id].symbol = req[c].symbol

IInv ==
    /\ TypeOK
    /\ TokenNeedsPassword
    /\ KeysAreUnique
    /\ HashesItsPassword
    /\ DemoIsEverybodys
    /\ AddsForSomebody
    /\ RowIsTheRequests
-----------------------------------------------------------------------------

\* A set of natural numbers has a least element ...
LEMMA LeastNatural ==
    ASSUME NEW S \in SUBSET Nat, S # {}
    PROVE  \E m \in S : \A n \in S : m <= n
<1> DEFINE R == {ss \in Nat \X Nat : ss[1] < ss[2]}
<1>1. IsWellFoundedOn(R, Nat)
  BY NatLessThanWellFounded DEF OpToRel
<1>2. PICK m \in S : \A n \in S : <<n, m>> \notin R
  <2> HIDE DEF R
  <2>1. QED
    BY <1>1, WFMin
<1>3. \A n \in S : ~(n < m)
  BY <1>2
<1>4. QED
  BY <1>3

\* ... and a bounded one that is not empty a largest, which Max is.
LEMMA MaxOfBounded ==
    ASSUME NEW n \in Nat, NEW S \in SUBSET (0..n), S # {}
    PROVE  Max(S) \in S /\ \A y \in S : Max(S) >= y
<1> DEFINE T == {n - x : x \in S}
<1>1. T \in SUBSET Nat
  <2>1. \A x \in S : n - x \in Nat
    OBVIOUS
  <2>2. QED
    BY <2>1
<1>2. T # {}
  OBVIOUS
<1>3. PICK m \in T : \A y \in T : m <= y
  <2> HIDE DEF T
  <2>1. QED
    BY <1>1, <1>2, LeastNatural
<1>4. PICK x \in S : m = n - x
  OBVIOUS
<1>5. ASSUME NEW y \in S PROVE x >= y
  <2>1. m <= n - y
    BY <1>3
  <2>2. QED
    BY <1>4, <2>1
<1>6. QED
  BY <1>5 DEF Max

\* The id of a new row is no other row's, and the other rows stay.
LEMMA InsertRow ==
    ASSUME NEW table, NEW row, NEW n \in Nat, DOMAIN table \subseteq 1..n
    PROVE  /\ FreshId(table) \in 1..(n + 1) /\ FreshId(table) \notin DOMAIN table
           /\ DOMAIN Insert(table, row) = DOMAIN table \cup {FreshId(table)}
           /\ Insert(table, row)[FreshId(table)] = row
           /\ \A i \in DOMAIN table : Insert(table, row)[i] = table[i]
<1>1. FreshId(table) \in 1..(n + 1) /\ FreshId(table) \notin DOMAIN table
  <2>1. CASE DOMAIN table = {}
    BY <2>1 DEF FreshId
  <2>2. CASE DOMAIN table # {}
    <3>1. /\ Max(DOMAIN table) \in DOMAIN table
          /\ \A y \in DOMAIN table : Max(DOMAIN table) >= y
      <4>1. DOMAIN table \in SUBSET (0..n)
        OBVIOUS
      <4>2. QED
        BY <2>2, <4>1, MaxOfBounded
    <3>2. FreshId(table) = 1 + Max(DOMAIN table)
      BY <2>2 DEF FreshId
    <3>3. QED
      BY <3>1, <3>2
  <2>3. QED
    BY <2>1, <2>2
<1>2. QED
  BY <1>1 DEF Insert

\* Accounts are numbered without a gap.
LEMMA FreshUserId ==
    ASSUME TypeOK
    PROVE  /\ Cardinality(DOMAIN users) \in Nat
           /\ FreshId(users) = Cardinality(DOMAIN users) + 1
<1> DEFINE n == Cardinality(DOMAIN users)
<1>1. n \in Nat /\ DOMAIN users = 1..n
  BY FS_CardinalityType DEF TypeOK
<1> HIDE DEF n
<1>2. CASE n = 0
  BY <1>1, <1>2 DEF FreshId, n
<1>3. CASE n # 0
  <2>1. n \in DOMAIN users /\ \A i \in DOMAIN users : n >= i
    BY <1>1, <1>3
  <2>2. Max(DOMAIN users) = n
    BY <1>1, <2>1 DEF Max
  <2>3. QED
    BY <1>1, <2>1, <2>2 DEF FreshId, n
<1>4. QED
  BY <1>2, <1>3

\* The invariant holds at the start.
LEMMA InitIInv == Init => IInv
<1> SUFFICES ASSUME Init PROVE IInv
  OBVIOUS
<1>1. /\ DOMAIN users = {} /\ DOMAIN items = {} /\ restarts = 0
      /\ token = [c \in Clients |-> 0] /\ req = [c \in Clients |-> NoRequest]
      /\ users = [i \in {} |-> NoRequest] /\ items = [i \in {} |-> NoRequest]
  BY DEF Init
<1>2. TypeOK
  <2>1. IsFiniteSet(DOMAIN users) /\ DOMAIN users = 1..Cardinality(DOMAIN users)
    BY <1>1, FS_EmptySet
  <2>2. NoRequest \in Request
    BY BoundAssumption DEF NoRequest, Request, Emails, Passwords
  <2>3. QED
    BY <1>1, <2>1, <2>2, BoundAssumption DEF TypeOK
<1>3. QED
  BY <1>1, <1>2 DEF IInv, TokenNeedsPassword, KeysAreUnique, HashesItsPassword,
     DemoIsEverybodys, AddsForSomebody, RowIsTheRequests, NoRequest

\* A step of one client that writes no row.
LEMMA RequestIInv ==
    ASSUME IInv, NEW c \in Clients, NEW r \in Request, NEW t \in DOMAIN users \cup {0},
           req' = [req EXCEPT ![c] = r], token' = [token EXCEPT ![c] = t],
           UNCHANGED <<users, items, restarts>>,
           t # 0 => AccountOf(c, users[t]),
           r.at = "hashing" =>
               AccountOf(c, [email |-> r.email, password |-> r.password]),
           r.at = "adding" => r.user \in DOMAIN users /\ r.symbol \in Symbols,
           r.at # "added",
           r.at = "removing" => r.id \in DOMAIN items /\ items[r.id].user = r.user
    PROVE  IInv'
<1>1. /\ \A d \in Clients : req'[d] = IF d = c THEN r ELSE req[d]
      /\ \A d \in Clients : token'[d] = IF d = c THEN t ELSE token[d]
  BY DEF IInv, TypeOK
<1>2. TypeOK'
  BY DEF IInv, TypeOK, Request, Item
<1>3. TokenNeedsPassword'
  BY <1>1 DEF IInv, TokenNeedsPassword, AccountOf
<1>4. KeysAreUnique' /\ DemoIsEverybodys'
  BY DEF IInv, KeysAreUnique, DemoIsEverybodys
<1>5. HashesItsPassword'
  BY <1>1 DEF IInv, HashesItsPassword, AccountOf
<1>6. AddsForSomebody' /\ RowIsTheRequests'
  BY <1>1 DEF IInv, AddsForSomebody, RowIsTheRequests
<1>7. QED
  BY <1>2, <1>3, <1>4, <1>5, <1>6 DEF IInv

\* A client without a request is of the type of a request.
LEMMA NoRequestType ==
    ASSUME TypeOK
    PROVE  NoRequest \in Request /\ NoRequest.at = "idle"
BY BoundAssumption DEF NoRequest, Request, Emails, Passwords

\* A request ends without a row; the client may be left with a token.
LEMMA EndsIInv ==
    ASSUME IInv, NEW c \in Clients, NEW t \in DOMAIN users \cup {0},
           Ends(c), token' = [token EXCEPT ![c] = t],
           UNCHANGED <<users, items, restarts>>,
           t # 0 => AccountOf(c, users[t])
    PROVE  IInv'
BY RequestIInv, NoRequestType DEF IInv, Ends

\* The requests that look something up.
LEMMA LookupIInv ==
    ASSUME IInv, NEW c \in Clients,
           \/ Register(c) \/ Login(c) \/ DemoLogin(c) \/ Expire(c) \/ RefreshItem(c)
           \/ \E symbol \in Symbols : Add(c, symbol)
           \/ \E id \in 1..MaxItem : Remove(c, id)
    PROVE  IInv'
<1>1. /\ TypeOK /\ req[c] \in Request /\ NoRequest \in Request
      /\ token[c] \in DOMAIN users \cup {0} /\ token = [token EXCEPT ![c] = token[c]]
      /\ token[c] # 0 => AccountOf(c, users[token[c]])
  BY NoRequestType DEF IInv, TypeOK, TokenNeedsPassword
<1>2. CASE Register(c)
  <2> DEFINE r == [NoRequest EXCEPT !.at = "hashing", !.email = Email[c],
                                    !.password = Password[c]]
  <2>1. /\ r \in Request /\ r.at = "hashing"
        /\ r.email = Email[c] /\ r.password = Password[c]
    BY <1>1 DEF Request, NoRequest, Emails, Passwords
  <2>2. req' = [req EXCEPT ![c] = r] /\ UNCHANGED <<users, items, token, restarts>>
    BY <1>2 DEF Register
  <2> HIDE DEF r
  <2>3. QED
    BY <1>1, <2>1, <2>2, RequestIInv DEF AccountOf
<1>3. CASE Login(c)
  <2>1. PICK i \in UsersWith(Email[c]) : users[i].password = Password[c] /\ Issues(c, i)
    BY <1>3 DEF Login
  <2>2. i \in DOMAIN users /\ users[i] \in Account /\ users[i].email = Email[c]
    BY <1>1, <2>1 DEF UsersWith, TypeOK
  <2>3. AccountOf(c, users[i])
    BY <2>1, <2>2 DEF Account, AccountOf
  <2>4. Ends(c) /\ token' = [token EXCEPT ![c] = i] /\ UNCHANGED <<users, items, restarts>>
    BY <1>3, <2>1 DEF Login, Issues
  <2>5. QED
    BY <2>2, <2>3, <2>4, EndsIInv
<1>4. CASE DemoLogin(c)
  <2>1. ASSUME NEW i \in UsersWith(DemoEmail), Issues(c, i)
        PROVE  IInv'
    <3>1. i \in DOMAIN users /\ users[i] \in Account /\ users[i].email = DemoEmail
      BY <1>1, <2>1 DEF UsersWith, TypeOK
    <3>2. AccountOf(c, users[i])
      BY <3>1 DEF IInv, DemoIsEverybodys, Account, AccountOf
    <3>3. Ends(c) /\ token' = [token EXCEPT ![c] = i] /\ UNCHANGED <<users, items, restarts>>
      BY <1>4, <2>1 DEF DemoLogin, Issues
    <3>4. QED
      BY <3>1, <3>2, <3>3, EndsIInv
  <2>2. ASSUME req' = [req EXCEPT ![c] = [NoRequest EXCEPT !.at = "hashing"]],
               UNCHANGED token
        PROVE  IInv'
    <3> DEFINE r == [NoRequest EXCEPT !.at = "hashing"]
    <3>1. /\ r \in Request /\ r.at = "hashing"
          /\ r.email = DemoEmail /\ r.password = DemoPassword
      BY <1>1 DEF Request, NoRequest
    <3>2. req' = [req EXCEPT ![c] = r] /\ UNCHANGED <<users, items, token, restarts>>
      BY <1>4, <2>2 DEF DemoLogin
    <3> HIDE DEF r
    <3>3. QED
      BY <1>1, <3>1, <3>2, RequestIInv DEF AccountOf
  <2>3. QED
    BY <1>4, <2>1, <2>2 DEF DemoLogin
<1>5. CASE Expire(c)
  <2>1. /\ req[c].at = "idle" /\ req' = [req EXCEPT ![c] = req[c]]
        /\ token' = [token EXCEPT ![c] = 0] /\ UNCHANGED <<users, items, restarts>>
    BY <1>1, <1>5 DEF Expire, TypeOK
  <2>2. QED
    BY <1>1, <2>1, RequestIInv
<1>6. CASE RefreshItem(c)
  BY <1>1, <1>6, EndsIInv DEF RefreshItem
<1>7. ASSUME NEW symbol \in Symbols, Add(c, symbol)
      PROVE  IInv'
  <2> DEFINE r == [NoRequest EXCEPT !.at = "adding", !.user = CurrentUser(c),
                                    !.symbol = symbol]
  <2>1. CurrentUser(c) \in DOMAIN users
    BY <1>7 DEF Add, CurrentUser
  <2>2. /\ r \in Request /\ r.at = "adding"
        /\ r.user = CurrentUser(c) /\ r.symbol = symbol
    BY <1>1, <2>1 DEF Request, NoRequest
  <2>3. req' = [req EXCEPT ![c] = r] /\ UNCHANGED <<users, items, token, restarts>>
    BY <1>7 DEF Add
  <2> HIDE DEF r
  <2>4. QED
    BY <1>1, <2>1, <2>2, <2>3, RequestIInv
<1>8. ASSUME NEW id \in 1..MaxItem, Remove(c, id)
      PROVE  IInv'
  <2> DEFINE r == [NoRequest EXCEPT !.at = "removing", !.user = CurrentUser(c), !.id = id]
  <2>1. /\ CurrentUser(c) \in DOMAIN users
        /\ id \in DOMAIN items /\ items[id].user = CurrentUser(c)
    BY <1>8 DEF Remove, CurrentUser
  <2>2. r \in Request /\ r.at = "removing" /\ r.user = CurrentUser(c) /\ r.id = id
    <3>1. id \in 0..MaxItem
      OBVIOUS
    <3>2. QED
      BY <1>1, <2>1, <3>1 DEF Request, NoRequest
  <2>3. req' = [req EXCEPT ![c] = r] /\ UNCHANGED <<users, items, token, restarts>>
    BY <1>8 DEF Remove
  <2> HIDE DEF r
  <2>4. QED
    BY <1>1, <2>1, <2>2, <2>3, RequestIInv
<1>9. QED
  BY <1>2, <1>3, <1>4, <1>5, <1>6, <1>7, <1>8

\* The insert of register and demo_login.
LEMMA CommitUserIInv ==
    ASSUME IInv, NEW c \in Clients, CommitUser(c)
    PROVE  IInv'
<1>1. /\ TypeOK /\ req[c] \in Request /\ NoRequest \in Request /\ NoRequest.at = "idle"
      /\ req[c].at = "hashing" /\ UNCHANGED <<items, restarts>>
      /\ token[c] \in DOMAIN users \cup {0} /\ token = [token EXCEPT ![c] = token[c]]
      /\ token[c] # 0 => AccountOf(c, users[token[c]])
  BY NoRequestType DEF IInv, TypeOK, TokenNeedsPassword, CommitUser
<1>2. CASE UsersWith(req[c].email) # {}
  BY <1>1, <1>2, EndsIInv DEF CommitUser
<1>3. CASE UsersWith(req[c].email) = {}
  <2> DEFINE row == [email |-> req[c].email, password |-> req[c].password]
             n == Cardinality(DOMAIN users)
             k == FreshId(users)
  <2>1. n \in Nat /\ k = n + 1 /\ DOMAIN users = 1..n
    BY <1>1, FreshUserId DEF TypeOK
  <2>2. row \in Account /\ AccountOf(c, row)
    BY <1>1 DEF IInv, HashesItsPassword, Request, Account
  <2>3. /\ users' = Insert(users, row) /\ token' = [token EXCEPT ![c] = k]
        /\ req' = [req EXCEPT ![c] = NoRequest]
    BY <1>3 DEF CommitUser, Issues, Ends
  <2>4. row.email = req[c].email /\ row.password = req[c].password
    OBVIOUS
  <2> HIDE DEF row, k
  <2>5. /\ k \notin DOMAIN users /\ DOMAIN users' = DOMAIN users \cup {k}
        /\ users'[k] = row /\ \A i \in DOMAIN users : users'[i] = users[i]
    <3>1. DOMAIN users \subseteq 1..n /\ n \in Nat
      BY <2>1
    <3>2. /\ FreshId(users) \notin DOMAIN users
          /\ DOMAIN Insert(users, row) = DOMAIN users \cup {FreshId(users)}
          /\ Insert(users, row)[FreshId(users)] = row
          /\ \A i \in DOMAIN users : Insert(users, row)[i] = users[i]
      BY <3>1, InsertRow
    <3>3. QED
      BY <2>3, <3>2 DEF k
  <2>6. TypeOK'
    <3>1. IsFiniteSet(DOMAIN users') /\ Cardinality(DOMAIN users') = k
      BY <1>1, <2>1, <2>5, FS_AddElement DEF TypeOK
    <3>2. DOMAIN users' = 1..Cardinality(DOMAIN users')
      BY <2>1, <2>5, <3>1
    <3>3. users' \in [DOMAIN users' -> Account]
      <4>1. \A i \in DOMAIN users' : users'[i] \in Account
        BY <1>1, <2>2, <2>5 DEF TypeOK
      <4>2. users' = [i \in DOMAIN users' |-> users'[i]]
        BY <2>3 DEF Insert
      <4>3. QED
        BY <4>1, <4>2
    <3>4. items' \in [DOMAIN items' -> Item']
      BY <1>1, <2>5 DEF TypeOK, Item
    <3>5. req' \in [Clients -> Request']
      <4>1. \A r \in Request : r \in Request'
        BY <2>5 DEF Request
      <4>2. QED
        BY <1>1, <2>3, <4>1 DEF TypeOK
    <3>6. token' \in [Clients -> DOMAIN users' \cup {0}]
      BY <1>1, <2>3, <2>5 DEF TypeOK
    <3>7. QED
      BY <1>1, <3>1, <3>2, <3>3, <3>4, <3>5, <3>6 DEF TypeOK, Account
  <2>7. \A d \in Clients : req'[d] = IF d = c THEN NoRequest ELSE req[d]
    BY <1>1, <2>3 DEF TypeOK
  <2>8. TokenNeedsPassword'
    BY <1>1, <2>2, <2>3, <2>5 DEF IInv, TypeOK, TokenNeedsPassword, AccountOf
  <2>9. \A i \in DOMAIN users : users[i].email # row.email
    BY <1>3, <2>4 DEF UsersWith
  <2>10. KeysAreUnique'
    BY <1>1, <2>5, <2>9 DEF IInv, KeysAreUnique
  <2>11. HashesItsPassword'
    BY <1>1, <2>7 DEF IInv, HashesItsPassword, AccountOf
  <2>12. DemoIsEverybodys'
    <3>1. row.email = DemoEmail => row.password = DemoPassword
      BY <2>2, EmailAssumption DEF AccountOf
    <3>2. QED
      BY <2>5, <3>1 DEF IInv, DemoIsEverybodys
  <2>13. AddsForSomebody' /\ RowIsTheRequests'
    BY <1>1, <2>5, <2>7 DEF IInv, AddsForSomebody, RowIsTheRequests
  <2>14. QED
    BY <2>6, <2>8, <2>10, <2>11, <2>12, <2>13 DEF IInv
<1>4. QED
  BY <1>2, <1>3

\* The insert of add_to_watchlist: an id that comes back finds only requests
\* that are known to be out of date.
LEMMA CommitItemIInv ==
    ASSUME IInv, NEW c \in Clients, CommitItem(c)
    PROVE  IInv'
<1>1. /\ TypeOK /\ req[c] \in Request /\ req[c].at = "adding"
      /\ UNCHANGED <<users, token, restarts>>
      /\ token[c] \in DOMAIN users \cup {0} /\ token = [token EXCEPT ![c] = token[c]]
      /\ token[c] # 0 => AccountOf(c, users[token[c]])
  BY DEF IInv, TypeOK, TokenNeedsPassword, CommitItem
<1>2. CASE ItemsOf(req[c].user, req[c].symbol) # {}
  BY <1>1, <1>2, EndsIInv DEF CommitItem
<1>3. CASE ItemsOf(req[c].user, req[c].symbol) = {}
  <2> DEFINE row == [user |-> req[c].user, symbol |-> req[c].symbol]
             k == FreshId(items)
             r == [req[c] EXCEPT !.at = "added", !.id = k]
  <2>1. /\ k <= MaxItem /\ items' = Insert(items, row)
        /\ req' = [req EXCEPT ![c] = r]
    BY <1>3 DEF CommitItem
  <2>2. /\ row \in Item /\ row.user = req[c].user /\ row.symbol = req[c].symbol
        /\ \A i \in DOMAIN items : items[i] # row
    BY <1>1, <1>3 DEF IInv, AddsForSomebody, Item, ItemsOf
  <2> HIDE DEF row, k
  <2>3. /\ k \in 1..MaxItem /\ k \notin DOMAIN items
        /\ DOMAIN items' = DOMAIN items \cup {k}
        /\ items'[k] = row /\ \A i \in DOMAIN items : items'[i] = items[i]
    <3>1. DOMAIN items \subseteq 1..MaxItem /\ MaxItem \in Nat
      BY <1>1, BoundAssumption DEF TypeOK
    <3>2. /\ FreshId(items) \in 1..(MaxItem + 1) /\ FreshId(items) \notin DOMAIN items
          /\ DOMAIN Insert(items, row) = DOMAIN items \cup {FreshId(items)}
          /\ Insert(items, row)[FreshId(items)] = row
          /\ \A i \in DOMAIN items : Insert(items, row)[i] = items[i]
      BY <3>1, InsertRow
    <3>3. QED
      BY <2>1, <3>1, <3>2 DEF k
  <2>4. k \in 0..MaxItem
    BY <2>3, BoundAssumption
  <2>5. /\ r \in Request /\ r.at = "added" /\ r.id = k
        /\ r.user = req[c].user /\ r.symbol = req[c].symbol
    BY <1>1, <2>4 DEF Request
  <2> HIDE DEF r
  <2>6. \A d \in Clients : req'[d] = IF d = c THEN r ELSE req[d]
    BY <1>1, <2>1 DEF TypeOK
  <2>7. TypeOK'
    <3>1. items' \in [DOMAIN items' -> Item]
      <4>1. \A i \in DOMAIN items' : items'[i] \in Item
        BY <1>1, <2>2, <2>3 DEF TypeOK
      <4>2. items' = [i \in DOMAIN items' |-> items'[i]]
        BY <2>1 DEF Insert
      <4>3. QED
        BY <4>1, <4>2
    <3>2. req' \in [Clients -> Request]
      BY <1>1, <2>1, <2>5 DEF TypeOK
    <3>3. Item' = Item /\ Request' = Request /\ DOMAIN items' \subseteq 1..MaxItem
      BY <1>1, <2>3 DEF Item, Request, TypeOK
    <3>4. QED
      BY <1>1, <3>1, <3>2, <3>3 DEF TypeOK
  <2>8. TokenNeedsPassword' /\ DemoIsEverybodys'
    BY <1>1 DEF IInv, TokenNeedsPassword, AccountOf, DemoIsEverybodys
  <2>9. KeysAreUnique'
    BY <1>1, <2>2, <2>3 DEF IInv, KeysAreUnique
  <2>10. HashesItsPassword' /\ AddsForSomebody'
    BY <1>1, <2>5, <2>6 DEF IInv, HashesItsPassword, AddsForSomebody, AccountOf
  <2>11. RowIsTheRequests'
    BY <2>2, <2>3, <2>5, <2>6 DEF IInv, RowIsTheRequests
  <2>12. QED
    BY <2>7, <2>8, <2>9, <2>10, <2>11 DEF IInv
<1>4. QED
  BY <1>2, <1>3

\* A removal makes every other request for the row out of date.
LEMMA CommitRemovalIInv ==
    ASSUME IInv, NEW c \in Clients, CommitRemoval(c)
    PROVE  IInv'
<1> DEFINE id == req[c].id
           Hit(d) == req[d].at \in {"added", "removing"} /\ req[d].id = id
<1>1. /\ TypeOK /\ NoRequest \in Request /\ NoRequest.at = "idle"
      /\ UNCHANGED <<users, token, restarts>>
  BY NoRequestType DEF IInv, CommitRemoval
<1>2. /\ items' = [i \in DOMAIN items \ {id} |-> items[i]]
      /\ DOMAIN items' = DOMAIN items \ {id}
      /\ \A i \in DOMAIN items' : items'[i] = items[i]
  BY DEF CommitRemoval
<1>3. /\ req' = [d \in Clients |-> IF d = c THEN NoRequest
                                   ELSE IF Hit(d) THEN [req[d] EXCEPT !.stale = TRUE]
                                   ELSE req[d]]
  BY DEF CommitRemoval
<1>4. \A d \in Clients : LET s == [req[d] EXCEPT !.stale = TRUE]
                         IN  /\ s \in Request /\ s.stale
                             /\ s.at = req[d].at /\ s.user = req[d].user
                             /\ s.symbol = req[d].symbol /\ s.id = req[d].id
                             /\ s.email = req[d].email /\ s.password = req[d].password
  BY <1>1 DEF TypeOK, Request
<1>5. TypeOK'
  <2>1. req' \in [Clients -> Request]
    BY <1>1, <1>3, <1>4 DEF TypeOK
  <2>2. items' \in [DOMAIN items' -> Item]
    BY <1>1, <1>2 DEF TypeOK
  <2>3. Item' = Item /\ Request' = Request /\ DOMAIN items' \subseteq 1..MaxItem
    BY <1>1, <1>2 DEF Item, Request, TypeOK
  <2>4. QED
    BY <1>1, <2>1, <2>2, <2>3 DEF TypeOK
<1>6. \A d \in Clients :
        \/ req'[d] = NoRequest
        \/ req'[d] = req[d] /\ ~Hit(d)
        \/ /\ req'[d].stale /\ req'[d].at = req[d].at /\ req'[d].user = req[d].user
           /\ req'[d].symbol = req[d].symbol /\ Hit(d)
  BY <1>3, <1>4
<1>7. TokenNeedsPassword' /\ DemoIsEverybodys'
  BY <1>1 DEF IInv, TokenNeedsPassword, AccountOf, DemoIsEverybodys
<1>8. KeysAreUnique'
  BY <1>1, <1>2 DEF IInv, KeysAreUnique
<1>9. HashesItsPassword' /\ AddsForSomebody'
  BY <1>1, <1>6 DEF IInv, HashesItsPassword, AddsForSomebody, AccountOf
<1>10. RowIsTheRequests'
  BY <1>1, <1>2, <1>6 DEF IInv, RowIsTheRequests
<1>11. QED
  BY <1>5, <1>7, <1>8, <1>9, <1>10 DEF IInv

\* A restart forgets the requests under way and keeps the rows and the tokens.
LEMMA RestartIInv ==
    ASSUME IInv, Restart
    PROVE  IInv'
<1>1. /\ TypeOK /\ NoRequest \in Request /\ NoRequest.at = "idle"
      /\ req' = [c \in Clients |-> NoRequest] /\ UNCHANGED <<users, items, token>>
      /\ restarts' \in 0..MaxRestarts
  BY NoRequestType, BoundAssumption DEF IInv, TypeOK, Restart
<1>2. TypeOK'
  BY <1>1 DEF TypeOK, Item, Request
<1>3. TokenNeedsPassword' /\ KeysAreUnique' /\ DemoIsEverybodys'
  BY <1>1 DEF IInv, TokenNeedsPassword, AccountOf, KeysAreUnique, DemoIsEverybodys
<1>4. HashesItsPassword' /\ AddsForSomebody' /\ RowIsTheRequests'
  BY <1>1 DEF HashesItsPassword, AddsForSomebody, RowIsTheRequests
<1>5. QED
  BY <1>2, <1>3, <1>4 DEF IInv

\* Each action keeps it.
LEMMA NextIInv == IInv /\ [Next]_vars => IInv'
<1> SUFFICES ASSUME IInv, [Next]_vars PROVE IInv'
  OBVIOUS
<1>1. ASSUME NEW c \in Clients,
             \/ Register(c) \/ Login(c) \/ DemoLogin(c) \/ Expire(c) \/ RefreshItem(c)
             \/ \E symbol \in Symbols : Add(c, symbol)
             \/ \E id \in 1..MaxItem : Remove(c, id)
      PROVE  IInv'
  BY <1>1, LookupIInv
<1>2. ASSUME NEW c \in Clients, CommitUser(c) \/ CommitItem(c) \/ CommitRemoval(c)
      PROVE  IInv'
  BY <1>2, CommitUserIInv, CommitItemIInv, CommitRemovalIInv
<1>3. CASE Restart
  BY <1>3, RestartIInv
<1>4. CASE UNCHANGED vars
  BY <1>4 DEF vars, IInv, TypeOK, Item, Request, TokenNeedsPassword, AccountOf,
     KeysAreUnique, HashesItsPassword, DemoIsEverybodys, AddsForSomebody,
     RowIsTheRequests
<1>5. QED
  BY <1>1, <1>2, <1>3, <1>4 DEF Next

\* So it holds throughout.
LEMMA InvariantIInv == Spec => []IInv
  BY InitIInv, NextIInv, PTL DEF Spec
-----------------------------------------------------------------------------
\* A client that holds a token for an account knows the account's password, or
\* the account is the demo's.
THEOREM TokensNeedPasswords == Spec => []TokenNeedsPassword
<1>1. IInv => TokenNeedsPassword
  BY DEF IInv
<1>2. QED
  BY <1>1, InvariantIInv, PTL

\* Racing requests leave one account per address and one row per user and symbol.
THEOREM KeysStayUnique == Spec => []KeysAreUnique
<1>1. IInv => KeysAreUnique
  BY DEF IInv
<1>2. QED
  BY <1>1, InvariantIInv, PTL

\* add_to_watchlist answers with the row it was asked for, or that row was
\* deleted meanwhile.
THEOREM AnswersWithTheRowAdded == Spec => []AnswerIsTheRowAdded
<1>1. IInv => AnswerIsTheRowAdded
  <2> SUFFICES ASSUME IInv, NEW c \in Clients, req[c].at = "added",
                      req[c].id \in DOMAIN items, ~req[c].stale
               PROVE  items[req[c].id] = [user |-> req[c].user, symbol |-> req[c].symbol]
    BY DEF IInv, TypeOK, Request, AnswerIsTheRowAdded
  <2>1. items[req[c].id] \in Item
    BY DEF IInv, TypeOK
  <2>2. /\ items[req[c].id].user = req[c].user
        /\ items[req[c].id].symbol = req[c].symbol
    BY DEF IInv, RowIsTheRequests
  <2>3. QED
    BY <2>1, <2>2 DEF Item
<1>2. QED
  BY <1>1, InvariantIInv, PTL

\* A row is deleted at its owner's request, or at one that is out of date.
THEOREM OnlyOwnersDelete == Spec => OnlyOwnerDeletes
<1> DEFINE Owned == \A i \in DOMAIN items \ DOMAIN items' :
                      \E c \in Clients :
                        /\ req[c].at = "removing" /\ req[c].id = i /\ req'[c].at = "idle"
                        /\ req[c].user = items[i].user \/ req[c].stale
<1>1. ASSUME IInv, [Next]_vars
      PROVE  Owned
  <2> SUFFICES ASSUME NEW i \in DOMAIN items \ DOMAIN items'
               PROVE  \E c \in Clients :
                        /\ req[c].at = "removing" /\ req[c].id = i /\ req'[c].at = "idle"
                        /\ req[c].user = items[i].user \/ req[c].stale
    OBVIOUS
  <2>1. CASE UNCHANGED items
    BY <2>1
  <2>2. ASSUME NEW c \in Clients, CommitItem(c), ~UNCHANGED items
        PROVE  FALSE
    <3>1. i \in DOMAIN items'
      BY <2>2 DEF CommitItem, Insert
    <3>2. QED
      BY <3>1
  <2>3. ASSUME NEW c \in Clients, CommitRemoval(c)
        PROVE  /\ req[c].at = "removing" /\ req[c].id = i /\ req'[c].at = "idle"
               /\ req[c].user = items[i].user \/ req[c].stale
    BY <1>1, <2>3 DEF IInv, RowIsTheRequests, TypeOK, Request, CommitRemoval, NoRequest
  <2>4. QED
    BY <1>1, <2>1, <2>2, <2>3 DEF Next, vars, Register, CommitUser, Login, DemoLogin,
       Expire, Add, RefreshItem, Remove, Restart, Issues, Ends
<1>2. IInv /\ [Next]_vars => [Owned]_vars
  BY <1>1
<1>3. QED
  BY <1>2, InvariantIInv, PTL DEF Spec, OnlyOwnerDeletes
=============================================================================
