--------------------------- MODULE AccountsProofs ---------------------------
(***************************************************************************)
(* What holds of rows, sessions, rights and keys whatever requests overlap *)
(* and wherever the server dies, for any number of users and clients; and  *)
(* of the directives each user lists and the marks of what he removed.     *)
(***************************************************************************)
EXTENDS Accounts, TLAPS

----------------------------------------------------------------------------
(* The invariant.                                                          *)

RowsTyped == rows \in [Uids -> Rows \union {None}]

\* A process has the key made last, and so has every row; the file has it, or
\* is lost.
OneKey ==
  /\ file # None => file = keys
  /\ mem # None => mem = keys
  /\ \A u \in Users : rows[u].key = keys

KeysAgree ==
  /\ keys \in 0..MaxKeys /\ astray \in BOOLEAN
  /\ file # None => file \in 1..keys
  /\ mem # None => mem \in 1..keys
  /\ ~astray => OneKey

\* A change in flight that no other has crossed is of the row as it stands.
RequestsAgree ==
  /\ req = [c \in Clients |-> req[c]]
  /\ \A c \in Clients :
       /\ req[c].at = "registering" =>
            req[c].name \in Names /\ req[c].ak \in Values /\ req[c].secret \in Values
       /\ req[c].at = "changing" =>
            /\ req[c].uid \in Uids
            /\ req[c].ak \in Values \union {None} /\ req[c].secret \in Values \union {None}
            /\ req[c].pair \in Seq(Values \union {None})
            /\ req[c].uid \in Users /\ ~rows[req[c].uid].crossed =>
                 req[c].pair = <<Given(req[c].ak, rows[req[c].uid].ak),
                                 Given(req[c].secret, rows[req[c].uid].secret)>>
       /\ req[c].at = "deleting" => req[c].uid \in Uids

SessionsTyped == sessions \subseteq Nat \X Uids /\ tokens \in Nat

\* The counter is ahead of every id, so a new user's is nobody's.
IdsAreFresh == lastUid \in Nat /\ \A u \in Users : u <= lastUid

AccountInv ==
  /\ RowsTyped /\ SessionsTyped /\ IdsAreFresh /\ KeysAgree /\ RequestsAgree
  /\ SessionsAreOfUsers /\ AdminIsSole /\ KeysWereValidated

----------------------------------------------------------------------------
(* The key.                                                                *)

\* A row's fields.
LEMMA RowFields ==
  ASSUME RowsTyped, NEW u \in Users
  PROVE  /\ u \in Uids /\ rows[u] \in Rows
         /\ rows[u].name \in Names /\ rows[u].admin \in BOOLEAN /\ rows[u].key \in 1..MaxKeys
         /\ rows[u].ak \in Values \union {None} /\ rows[u].secret \in Values \union {None}
         /\ rows[u].pair \in Seq(Values \union {None}) /\ rows[u].crossed \in BOOLEAN
  BY DEF RowsTyped, Users, Rows

Keyholders == {mem, None} \union 1..MaxKeys

LEMMA EnsureKeeps ==
  ASSUME RowsTyped, KeysAgree, NEW m \in Keyholders, EnsureFernet(m)
  PROVE  /\ keys' \in 1..MaxKeys /\ mem' \in 1..keys' /\ astray' \in BOOLEAN
         /\ file' # None => file' \in 1..keys'
         /\ ~astray' => /\ ~astray /\ mem' = keys'
                        /\ file' # None => file' = keys'
                        /\ Users # {} => keys' = keys
  <1>1. PICK blind \in BOOLEAN :
          /\ Ensured(m, blind) # None /\ (blind => Lost(m) /\ Users # {})
          /\ mem' = Ensured(m, blind)
          /\ file' = IF m = None THEN Ensured(m, blind) ELSE file
          /\ keys' = IF Ensured(m, blind) > keys THEN Ensured(m, blind) ELSE keys
          /\ astray' = (astray \/ blind \/ (m # None /\ keys > 0 /\ m # keys))
    BY DEF EnsureFernet
  <1>2. /\ keys \in 0..MaxKeys /\ astray \in BOOLEAN /\ None \notin Nat /\ MaxKeys \in Nat
        /\ file # None => file \in 1..keys
        /\ mem # None => mem \in 1..keys
    BY AccountAssumption DEF KeysAgree
  <1>3. ASSUME ~astray'
        PROVE  /\ ~astray /\ ~blind /\ OneKey
               /\ m # None => m = keys \/ keys = 0
    <2>1. ~(astray \/ blind \/ (m # None /\ keys > 0 /\ m # keys))
      BY <1>1, <1>3
    <2>2. keys > 0 \/ keys = 0
      BY <1>2
    <2> QED
      BY <2>1, <2>2 DEF KeysAgree
  <1>4. CASE m # None
    <2>1. Ensured(m, blind) = m /\ m \in 1..MaxKeys
      BY <1>2, <1>4 DEF Ensured, Lost, Keyholders
    <2>2. ASSUME ~astray' PROVE mem' = keys' /\ (file' # None => file' = keys')
      BY <1>1, <1>2, <1>3, <1>4, <2>1, <2>2 DEF OneKey
    <2>3. ASSUME ~astray', Users # {} PROVE keys' = keys
      <3>1. keys > 0
        BY <1>2, <1>3, <2>3, RowFields DEF OneKey
      <3> QED
        BY <1>1, <1>2, <1>3, <1>4, <2>1, <2>3, <3>1
    <2> QED
      BY <1>1, <1>2, <1>3, <1>4, <2>1, <2>2, <2>3
  <1>5. CASE m = None /\ file # None
    <2>1. Ensured(m, blind) = file
      BY <1>5 DEF Ensured, Lost
    <2> QED
      BY <1>1, <1>2, <1>3, <1>5, <2>1 DEF OneKey
  <1>6. CASE Lost(m)
    <2>1. Ensured(m, blind) = keys + 1 /\ keys < MaxKeys /\ MayGenerate(blind)
      BY <1>1, <1>6 DEF Ensured, Lost
    <2>2. ~blind => Users = {}
      BY <2>1 DEF MayGenerate
    <2> QED
      BY <1>1, <1>2, <1>3, <1>6, <2>1, <2>2 DEF Lost
  <1> QED
    BY <1>4, <1>5, <1>6 DEF Lost

LEMMA AccountInit == Init => AccountInv
  <1> SUFFICES ASSUME Init PROVE AccountInv
    OBVIOUS
  <1>1. \A n \in Names : Legacy(n) \in Rows
    BY AccountAssumption DEF Legacy, Rows, Forms
  <1>2. SessionsTyped /\ SessionsAreOfUsers /\ AdminIsSole
    BY DEF Init, SessionsTyped, SessionsAreOfUsers, AdminIsSole
  <1>3. RequestsAgree
    BY DEF Init, RequestsAgree, Idle
  <1>4. /\ keys \in 0..MaxKeys /\ mem = None
        /\ file # None => file = keys /\ file \in 1..keys
    BY AccountAssumption DEF Init
  <1>5. astray \in BOOLEAN
    BY DEF Init
  <1>6. CASE rows = [u \in Uids |-> None] /\ lastUid = 0
    <2>1. Users = {} /\ RowsTyped
      BY <1>6 DEF Users, RowsTyped
    <2>2. KeysAgree
      BY <1>4, <1>5, <2>1 DEF KeysAgree, OneKey
    <2> QED
      BY <1>2, <1>3, <1>6, <2>1, <2>2 DEF AccountInv, IdsAreFresh, KeysWereValidated
  <1>7. ASSUME NEW n \in Names, keys = 1, rows = [u \in Uids |-> IF u = 1 THEN Legacy(n) ELSE None],
               lastUid = 1
        PROVE  AccountInv
    <2>1. RowsTyped
      BY <1>1, <1>7 DEF RowsTyped
    <2>2. \A u \in Users : rows[u] = Legacy(n)
      BY <1>7 DEF Users
    <2>3. \A u \in Users : rows[u].key = 1 /\ <<rows[u].ak, rows[u].secret>> = rows[u].pair
      BY <2>2 DEF Legacy
    <2>4. KeysWereValidated
      BY <2>3 DEF KeysWereValidated
    <2>5. KeysAgree
      <3>1. OneKey
        BY <1>4, <1>7, <2>3 DEF OneKey
      <3> QED
        BY <1>4, <1>5, <3>1 DEF KeysAgree
    <2>6. IdsAreFresh
      BY <1>7 DEF Users, IdsAreFresh
    <2> QED
      BY <1>2, <1>3, <2>1, <2>4, <2>5, <2>6 DEF AccountInv
  <1> QED
    BY <1>6, <1>7 DEF Init

----------------------------------------------------------------------------
(* What the operations have in common.                                     *)

\* A new key is made only while there is no row, whatever else is done then.
LEMMA KeysKept ==
  ASSUME AccountInv, NEW m \in Keyholders, EnsureFernet(m),
         \A u \in Users' : rows'[u].key = mem' \/ (u \in Users /\ rows'[u].key = rows[u].key)
  PROVE  KeysAgree'
  <1>1. /\ keys' \in 1..MaxKeys /\ mem' \in 1..keys' /\ astray' \in BOOLEAN
        /\ file' # None => file' \in 1..keys'
        /\ ~astray' => /\ ~astray /\ mem' = keys'
                       /\ file' # None => file' = keys'
                       /\ Users # {} => keys' = keys
    BY EnsureKeeps DEF AccountInv
  <1>2. ~astray => \A u \in Users : rows[u].key = keys
    BY DEF AccountInv, KeysAgree, OneKey
  <1>3. ~astray' => \A u \in Users' : rows'[u].key = keys'
    BY <1>1, <1>2
  <1> QED
    BY <1>1, <1>3 DEF KeysAgree, OneKey

\* A step that leaves the rows be, and lets nobody in.
LEMMA RowsUntouched ==
  ASSUME AccountInv, UNCHANGED rows, sessions' \subseteq sessions, tokens' = tokens,
         UNCHANGED <<lastUid, seeded>>, KeysAgree', RequestsAgree', up' => up
  PROVE  AccountInv'
  <1>1. Users' = Users
    BY DEF Users
  <1>2. RowsTyped' /\ SessionsTyped' /\ IdsAreFresh'
    BY <1>1 DEF AccountInv, RowsTyped, SessionsTyped, IdsAreFresh
  <1>3. SessionsAreOfUsers' /\ AdminIsSole' /\ KeysWereValidated'
    BY <1>1 DEF AccountInv, SessionsAreOfUsers, AdminIsSole, KeysWereValidated
  <1> QED
    BY <1>2, <1>3 DEF AccountInv

LEMMA RequestsKept ==
  ASSUME AccountInv, UNCHANGED <<rows, req>> PROVE RequestsAgree'
  BY DEF AccountInv, RequestsAgree, Users

LEMMA KeysUntouched ==
  ASSUME AccountInv, UNCHANGED <<rows, keyring>> PROVE KeysAgree'
  BY DEF AccountInv, KeysAgree, OneKey, Users, keyring

\* One request is answered, the others wait on.
LEMMA Answered ==
  ASSUME AccountInv, NEW c \in Clients, UNCHANGED rows, req' = [req EXCEPT ![c] = Idle]
  PROVE  RequestsAgree'
  <1>1. req'[c].at = "idle" /\ \A d \in Clients \ {c} : req'[d] = req[d]
    BY DEF AccountInv, RequestsAgree, Idle
  <1>2. Users' = Users
    BY DEF Users
  <1>3. req' = [d \in Clients |-> req'[d]]
    BY DEF AccountInv, RequestsAgree
  <1> QED
    BY <1>1, <1>2, <1>3 DEF AccountInv, RequestsAgree

\* A step that gives a row no new keys, and rights to the administrator only.
LEMMA RowsSettled ==
  ASSUME AccountInv, RowsTyped', Users' = Users, UNCHANGED <<lastUid, seeded, req>>,
         \A u \in Users :
           /\ rows'[u].name = rows[u].name
           /\ rows'[u].admin => rows[u].admin \/ rows[u].name = Admin
           /\ rows'[u].ak = rows[u].ak /\ rows'[u].secret = rows[u].secret
           /\ rows'[u].pair = rows[u].pair /\ rows'[u].crossed = rows[u].crossed,
         SessionsTyped', SessionsAreOfUsers', KeysAgree', up' => up
  PROVE  AccountInv'
  <1>1. IdsAreFresh'
    BY DEF AccountInv, IdsAreFresh
  <1>2. AdminIsSole'
    BY DEF AccountInv, AdminIsSole
  <1>3. KeysWereValidated'
    BY DEF AccountInv, KeysWereValidated
  <1>4. RequestsAgree'
    BY DEF AccountInv, RequestsAgree
  <1> QED
    BY <1>1, <1>2, <1>3, <1>4 DEF AccountInv

\* Only a row's form is changed.
LEMMA FormSet ==
  ASSUME AccountInv, NEW v \in Users, rows' = [rows EXCEPT ![v].form = "hash"]
  PROVE  /\ RowsTyped' /\ Users' = Users
         /\ \A u \in Users :
              /\ rows'[u].name = rows[u].name /\ rows'[u].admin = rows[u].admin
              /\ rows'[u].ak = rows[u].ak /\ rows'[u].secret = rows[u].secret
              /\ rows'[u].pair = rows[u].pair /\ rows'[u].crossed = rows[u].crossed
              /\ rows'[u].key = rows[u].key
  <1>1. \A u \in Users : rows[u] \in Rows /\ u \in Uids
    BY RowFields DEF AccountInv
  <1>2. RowsTyped
    BY DEF AccountInv
  <1>3. [rows[v] EXCEPT !.form = "hash"] \in Rows
    BY <1>1 DEF Rows, Forms
  <1>4. rows'[v] = [rows[v] EXCEPT !.form = "hash"] /\ \A u \in Uids \ {v} : rows'[u] = rows[u]
    BY <1>1, <1>2 DEF RowsTyped
  <1>5. RowsTyped'
    BY <1>2, <1>3 DEF RowsTyped
  <1>6. Users' = Users
    BY <1>1, <1>3, <1>4, RowAssumption DEF Users
  <1>7. \A u \in Users :
          /\ rows'[u].name = rows[u].name /\ rows'[u].admin = rows[u].admin
          /\ rows'[u].ak = rows[u].ak /\ rows'[u].secret = rows[u].secret
          /\ rows'[u].pair = rows[u].pair /\ rows'[u].crossed = rows[u].crossed
          /\ rows'[u].key = rows[u].key
    <2>1. rows[v] \in Rows
      BY <1>1
    <2> QED
      BY <2>1, <1>1, <1>4 DEF Rows
  <1> QED
    BY <1>5, <1>6, <1>7

\* A session is opened for a user there is.
LEMMA SessionOpened ==
  ASSUME SessionsTyped, NEW v \in Users', Users' \subseteq Uids, CreateSession(v),
         \A s \in sessions : s[2] \in Users'
  PROVE  SessionsTyped' /\ SessionsAreOfUsers'
  BY DEF SessionsTyped, CreateSession, SessionsAreOfUsers

----------------------------------------------------------------------------
(* The operations.                                                         *)

LEMMA KillKeeps == AccountInv /\ (Kill \/ KeyFileMoves) => AccountInv'
  <1>1. ASSUME AccountInv, Kill PROVE AccountInv'
    BY <1>1, RowsUntouched, RequestsKept, KeysUntouched DEF Kill, Dying
  <1>2. ASSUME AccountInv, KeyFileMoves PROVE AccountInv'
    <2>1. Users' = Users
      BY <1>2 DEF KeyFileMoves, Users
    <2>2. KeysAgree'
      BY <1>2, <2>1, AccountAssumption DEF AccountInv, KeyFileMoves, KeysAgree, OneKey
    <2> QED
      BY <1>2, <2>2, RowsUntouched, RequestsKept DEF KeyFileMoves
  <1> QED
    BY <1>1, <1>2

LEMMA SessionClosed ==
  ASSUME AccountInv, NEW s, LookupExpired(s) \/ Logout(s) PROVE AccountInv'
  BY RowsUntouched, RequestsKept, KeysUntouched DEF LookupExpired, Logout

LEMMA LoginKeeps ==
  ASSUME AccountInv, NEW v \in Uids, Login(v) PROVE AccountInv'
  <1>1. v \in Users /\ EnsureFernet(mem) /\ CreateSession(v)
        /\ rows' = [rows EXCEPT ![v].form = "hash"]
        /\ UNCHANGED <<lastUid, up, seeded, req>>
    BY DEF Login
  <1>2. /\ RowsTyped' /\ Users' = Users
        /\ \A u \in Users :
             /\ rows'[u].name = rows[u].name /\ rows'[u].admin = rows[u].admin
             /\ rows'[u].ak = rows[u].ak /\ rows'[u].secret = rows[u].secret
             /\ rows'[u].pair = rows[u].pair /\ rows'[u].crossed = rows[u].crossed
             /\ rows'[u].key = rows[u].key
    BY <1>1, FormSet
  <1>3. KeysAgree'
    BY <1>1, <1>2, KeysKept DEF Keyholders
  <1>4. SessionsTyped' /\ SessionsAreOfUsers'
    BY <1>1, <1>2, SessionOpened DEF AccountInv, SessionsAreOfUsers, Users
  <1> QED
    BY <1>1, <1>2, <1>3, <1>4, RowsSettled

LEMMA PasswordSet ==
  ASSUME AccountInv, NEW v \in Users, SetsPassword(v) PROVE AccountInv'
  <1>1. EnsureFernet(mem) /\ rows' = [rows EXCEPT ![v].form = "hash"]
        /\ UNCHANGED <<lastUid, sessions, tokens, up, seeded, req>>
    BY DEF SetsPassword
  <1>2. /\ RowsTyped' /\ Users' = Users
        /\ \A u \in Users :
             /\ rows'[u].name = rows[u].name /\ rows'[u].admin = rows[u].admin
             /\ rows'[u].ak = rows[u].ak /\ rows'[u].secret = rows[u].secret
             /\ rows'[u].pair = rows[u].pair /\ rows'[u].crossed = rows[u].crossed
             /\ rows'[u].key = rows[u].key
    BY <1>1, FormSet
  <1>3. KeysAgree'
    BY <1>1, <1>2, KeysKept DEF Keyholders
  <1>4. SessionsTyped' /\ SessionsAreOfUsers'
    BY <1>1, <1>2 DEF AccountInv, SessionsTyped, SessionsAreOfUsers
  <1> QED
    BY <1>1, <1>2, <1>3, <1>4, RowsSettled

LEMMA PasswordKeeps ==
  ASSUME AccountInv
  PROVE  /\ \A s \in sessions : ChangePassword(s) => AccountInv'
         /\ \A u \in Uids : RecoverPassword(u) => AccountInv'
  BY PasswordSet DEF AccountInv, SessionsAreOfUsers, ChangePassword, RecoverPassword

LEMMA AdminMemberKeeps ==
  ASSUME AccountInv, NEW s \in sessions, NEW v \in Users, AdminMember(s, v)
  PROVE  AccountInv'
  <1>1. rows' = [rows EXCEPT ![v].admin = (rows[v].name = Admin)]
        /\ UNCHANGED <<lastUid, sessions, tokens, keyring, up, seeded, req>>
    BY DEF AdminMember
  <1>2. \A u \in Users : rows[u] \in Rows /\ u \in Uids
    BY RowFields DEF AccountInv
  <1>3. rows'[v] = [rows[v] EXCEPT !.admin = (rows[v].name = Admin)]
        /\ \A u \in Uids \ {v} : rows'[u] = rows[u]
    BY <1>1, <1>2 DEF AccountInv, RowsTyped
  <1>4. rows[v] \in Rows
    BY <1>2
  <1>5. rows'[v] \in Rows
    BY <1>3, <1>4 DEF Rows
  <1>6. RowsTyped'
    BY <1>1, <1>3, <1>5 DEF AccountInv, RowsTyped
  <1>7. Users' = Users
    BY <1>2, <1>3, <1>5, RowAssumption DEF Users
  <1>8. \A u \in Users :
          /\ rows'[u].name = rows[u].name
          /\ rows'[u].admin => rows[u].admin \/ rows[u].name = Admin
          /\ rows'[u].ak = rows[u].ak /\ rows'[u].secret = rows[u].secret
          /\ rows'[u].pair = rows[u].pair /\ rows'[u].crossed = rows[u].crossed
          /\ rows'[u].key = rows[u].key
    <2>1. CASE rows[v].name = Admin
      BY <2>1, <1>2, <1>3, <1>4 DEF Rows
    <2>2. CASE rows[v].name # Admin
      BY <2>2, <1>2, <1>3, <1>4 DEF Rows
    <2> QED
      BY <2>1, <2>2
  <1>9. KeysAgree'
    BY <1>1, <1>7, <1>8 DEF AccountInv, KeysAgree, OneKey, keyring
  <1>10. SessionsTyped' /\ SessionsAreOfUsers'
    BY <1>1, <1>7 DEF AccountInv, SessionsTyped, SessionsAreOfUsers
  <1> QED
    BY <1>1, <1>6, <1>7, <1>8, <1>9, <1>10, RowsSettled

LEMMA RegisterKeeps ==
  ASSUME AccountInv, NEW c \in Clients, NEW n \in Names, NEW v \in Values, Register(c, n, v)
  PROVE  AccountInv'
  <1> DEFINE new == [at |-> "registering", name |-> n, ak |-> v, secret |-> v]
  <1>1. req' = [req EXCEPT ![c] = new]
        /\ UNCHANGED <<rows, lastUid, sessions, tokens, keyring, up, seeded>>
    BY DEF Register
  <1>2. Users' = Users
    BY <1>1 DEF Users
  <1>3. req'[c] = new /\ (\A d \in Clients \ {c} : req'[d] = req[d])
        /\ req' = [d \in Clients |-> req'[d]]
    BY <1>1 DEF AccountInv, RequestsAgree
  <1>4. RequestsAgree'
    BY <1>1, <1>2, <1>3 DEF AccountInv, RequestsAgree
  <1> QED
    BY <1>1, <1>4, RowsUntouched, KeysUntouched

\* What is asked of the broker is what the row would become.
LEMMA CredentialsKeeps ==
  ASSUME AccountInv, NEW c \in Clients, NEW s \in sessions,
         NEW ak \in Values \union {None}, NEW secret \in Values \union {None},
         Credentials(c, s, ak, secret)
  PROVE  AccountInv'
  <1> DEFINE u == s[2]
  <1> DEFINE asked == <<Given(ak, rows[u].ak), Given(secret, rows[u].secret)>>
  <1> DEFINE new == [at |-> "changing", uid |-> u, ak |-> ak, secret |-> secret,
                     pair |-> asked, upgrading |-> rows[u].mode = "viewer"]
  <1>1. req' = [req EXCEPT ![c] = new] /\ EnsureFernet(mem)
        /\ UNCHANGED <<rows, lastUid, sessions, tokens, up, seeded>>
    BY DEF Credentials
  <1>2. Users' = Users /\ u \in Users
    BY <1>1 DEF Users, AccountInv, SessionsAreOfUsers
  <1>3. req'[c] = new /\ (\A d \in Clients \ {c} : req'[d] = req[d])
        /\ req' = [d \in Clients |-> req'[d]]
    BY <1>1 DEF AccountInv, RequestsAgree
  <1>4. asked \in Seq(Values \union {None})
    <2>1. rows[u].ak \in Values \union {None} /\ rows[u].secret \in Values \union {None}
      BY <1>2, RowFields DEF AccountInv
    <2>2. Given(ak, rows[u].ak) \in Values \union {None}
          /\ Given(secret, rows[u].secret) \in Values \union {None}
      BY <2>1 DEF Given
    <2> QED
      BY <2>2
  <1>5. u \in Uids
    BY <1>2 DEF Users
  <1> HIDE DEF asked
  <1>6. /\ req'[c].at = "changing" /\ req'[c].uid = u
        /\ req'[c].ak = ak /\ req'[c].secret = secret /\ req'[c].pair = asked
    BY <1>3
  <1>7. RequestsAgree'
    <2>1. \A d \in Clients \ {c} : req'[d] = req[d]
      BY <1>3
    <2>2. req'[c].pair = <<Given(req'[c].ak, rows'[u].ak), Given(req'[c].secret, rows'[u].secret)>>
      BY <1>1, <1>6 DEF asked
    <2> QED
      BY <1>1, <1>2, <1>3, <1>4, <1>5, <1>6, <2>1, <2>2 DEF AccountInv, RequestsAgree
  <1>8. KeysAgree'
    BY <1>1, <1>2, KeysKept DEF Keyholders
  <1> QED
    BY <1>1, <1>7, <1>8, RowsUntouched

LEMMA DeletesKeeps ==
  ASSUME AccountInv, NEW c \in Clients, NEW v \in Users, Deletes(c, v) PROVE AccountInv'
  <1> DEFINE new == [at |-> "deleting", uid |-> v]
  <1>1. req' = [req EXCEPT ![c] = new] /\ EnsureFernet(mem)
        /\ UNCHANGED <<rows, lastUid, sessions, tokens, up, seeded>>
    BY DEF Deletes
  <1>2. Users' = Users /\ v \in Uids
    BY <1>1 DEF Users
  <1>3. req'[c] = new /\ (\A d \in Clients \ {c} : req'[d] = req[d])
        /\ req' = [d \in Clients |-> req'[d]]
    BY <1>1 DEF AccountInv, RequestsAgree
  <1>4. RequestsAgree'
    BY <1>1, <1>2, <1>3 DEF AccountInv, RequestsAgree
  <1>5. KeysAgree'
    BY <1>1, <1>2, KeysKept DEF Keyholders
  <1> QED
    BY <1>1, <1>4, <1>5, RowsUntouched

LEMMA DeletionAsked ==
  ASSUME AccountInv, NEW c \in Clients, NEW s \in sessions
  PROVE  /\ DeleteAccount(c, s) => AccountInv'
         /\ \A u \in Users : AdminMemberDelete(c, s, u) => AccountInv'
  BY DeletesKeeps DEF AccountInv, SessionsAreOfUsers, DeleteAccount, AdminMemberDelete

\* The sessions go with the row.
LEMMA DecommissionedKeeps ==
  ASSUME AccountInv, NEW c \in Clients, NEW cut, Decommissioned(c, cut) PROVE AccountInv'
  <1> DEFINE u == req[c].uid
  <1>1. /\ up /\ req' = [req EXCEPT ![c] = Idle] /\ u \in Uids
        /\ UNCHANGED <<lastUid, tokens, keyring, seeded>>
    BY DEF Decommissioned, AccountInv, RequestsAgree
  <1>2. CASE UNCHANGED <<rows, sessions>>
    BY <1>1, <1>2, RowsUntouched, KeysUntouched, Answered
  <1>3. CASE rows' = [rows EXCEPT ![u] = None] /\ sessions' = SessionsLeft(u)
    <2>1. rows'[u] = None /\ (\A v \in Uids \ {u} : rows'[v] = rows[v]) /\ RowsTyped'
      BY <1>1, <1>3 DEF AccountInv, RowsTyped
    <2>2. Users' = Users \ {u}
      BY <2>1 DEF Users
    <2>3. \A v \in Users' : v \in Users /\ rows'[v] = rows[v]
      BY <2>1, <2>2 DEF Users
    <2>4. SessionsTyped' /\ SessionsAreOfUsers'
      BY <1>1, <1>3, <2>2 DEF AccountInv, SessionsTyped, SessionsAreOfUsers, SessionsLeft
    <2>5. IdsAreFresh' /\ KeysAgree' /\ AdminIsSole' /\ KeysWereValidated'
      <3>1. IdsAreFresh' /\ KeysAgree'
        BY <1>1, <2>3 DEF AccountInv, IdsAreFresh, KeysAgree, OneKey, keyring
      <3>2. AdminIsSole' /\ KeysWereValidated'
        BY <1>1, <2>3 DEF AccountInv, AdminIsSole, KeysWereValidated
      <3> QED
        BY <3>1, <3>2
    <2>6. RequestsAgree'
      <3>1. req'[c].at = "idle" /\ (\A d \in Clients \ {c} : req'[d] = req[d])
            /\ req' = [d \in Clients |-> req'[d]]
        BY <1>1 DEF AccountInv, RequestsAgree, Idle
      <3> QED
        BY <2>3, <3>1 DEF AccountInv, RequestsAgree
    <2> QED
      BY <2>1, <2>4, <2>5, <2>6 DEF AccountInv
  <1> QED
    BY <1>2, <1>3 DEF Decommissioned

\* The answer to a change that no other has crossed is about the row it finds.
LEMMA CredentialsWritten ==
  ASSUME AccountInv, NEW c \in Clients, NEW cut, req[c].at = "changing",
         UpdateCredentials(c, cut), req' = [req EXCEPT ![c] = Idle], up,
         UNCHANGED <<lastUid, sessions, tokens, keyring, seeded>>
  PROVE  AccountInv'
  <1> DEFINE r == req[c]
  <1> DEFINE u == r.uid
  <1>1. /\ u \in Uids /\ r.pair \in Seq(Values \union {None})
        /\ r.ak \in Values \union {None} /\ r.secret \in Values \union {None}
        /\ u \in Users /\ ~rows[u].crossed =>
             r.pair = <<Given(r.ak, rows[u].ak), Given(r.secret, rows[u].secret)>>
    BY DEF AccountInv, RequestsAgree
  <1>2. CASE u \notin Users
    <2>1. UNCHANGED rows
      BY <1>2 DEF UpdateCredentials
    <2> QED
      BY <2>1, RowsUntouched, KeysUntouched, Answered
  <1>3. CASE u \in Users
    <2> DEFINE row == rows[u]
    <2>1. /\ row \in Rows /\ row.crossed \in BOOLEAN
          /\ row.ak \in Values \union {None} /\ row.secret \in Values \union {None}
      BY <1>3, RowFields DEF AccountInv
    <2> DEFINE given == {f \in {"ak", "secret"} : r[f] # None}
    <2> DEFINE new ==
          [row EXCEPT !.ak = Given(r.ak, @), !.secret = Given(r.secret, @),
                      !.idx = @ \union given,
                      !.pair = IF Validates(r.ak, r.secret) THEN r.pair ELSE @,
                      !.crossed = @ \/ Changing(u) # {c},
                      !.mode = IF r.upgrading /\ cut = "none" THEN "trading" ELSE @]
    <2>2. rows'[u] = new /\ (\A v \in Uids \ {u} : rows'[v] = rows[v])
          /\ rows' = [v \in Uids |-> rows'[v]]
      BY <1>1, <1>3 DEF UpdateCredentials, AccountInv, RowsTyped
    <2>3. /\ new.name = row.name /\ new.admin = row.admin /\ new.key = row.key
          /\ new.ak = Given(r.ak, row.ak) /\ new.secret = Given(r.secret, row.secret)
          /\ new.pair = (IF Validates(r.ak, r.secret) THEN r.pair ELSE row.pair)
          /\ new.crossed = (row.crossed \/ Changing(u) # {c})
      BY <2>1 DEF Rows
    <2>4. new \in Rows
      <3> DEFINE key == Given(r.ak, row.ak)
      <3> DEFINE scr == Given(r.secret, row.secret)
      <3> DEFINE pr == IF Validates(r.ak, r.secret) THEN r.pair ELSE row.pair
      <3> DEFINE crs == row.crossed \/ Changing(u) # {c}
      <3> DEFINE ix == row.idx \union given
      <3> DEFINE md == IF r.upgrading /\ cut = "none" THEN "trading" ELSE row.mode
      <3>1. key \in Values \union {None} /\ scr \in Values \union {None}
        BY <1>1, <2>1 DEF Given
      <3>2. pr \in Seq(Values \union {None}) /\ crs \in BOOLEAN
        BY <1>1, <2>1 DEF Rows
      <3>3. ix \in SUBSET {"ak", "secret"} /\ md \in {"trading", "viewer"}
        BY <2>1 DEF Rows
      <3>4. new = [row EXCEPT !.ak = key, !.secret = scr, !.idx = ix, !.pair = pr,
                              !.crossed = crs, !.mode = md]
        BY <2>1 DEF Rows
      <3> HIDE DEF new, key, scr, pr, crs, ix, md
      <3> QED
        BY <2>1, <3>1, <3>2, <3>3, <3>4 DEF Rows
    <2> HIDE DEF new
    <2>5. RowsTyped'
      BY <2>2, <2>4 DEF AccountInv, RowsTyped
    <2>6. Users' = Users
      BY <1>1, <1>3, <2>2, <2>4, RowAssumption DEF Users
    <2>7. SessionsTyped' /\ SessionsAreOfUsers' /\ IdsAreFresh'
      BY <2>6 DEF AccountInv, SessionsTyped, SessionsAreOfUsers, IdsAreFresh
    <2>8. \A v \in Users \ {u} : rows'[v] = rows[v]
      BY <2>2 DEF Users
    <2>9. KeysAgree' /\ AdminIsSole'
      <3>1. KeysAgree'
        BY <2>2, <2>3, <2>6, <2>8 DEF AccountInv, KeysAgree, OneKey, keyring
      <3>2. AdminIsSole'
        BY <2>2, <2>3, <2>6, <2>8 DEF AccountInv, AdminIsSole
      <3> QED
        BY <3>1, <3>2
    <2>10. new.crossed \/ <<new.ak, new.secret>> = new.pair
      <3>1. CASE row.crossed
        BY <2>3, <3>1
      <3>2. CASE ~row.crossed /\ Validates(r.ak, r.secret)
        BY <1>1, <1>3, <2>3, <3>2
      <3>3. CASE ~row.crossed /\ ~Validates(r.ak, r.secret)
        BY <1>3, <2>3, <3>3 DEF Validates, Given, AccountInv, KeysWereValidated
      <3> QED
        BY <2>1, <3>1, <3>2, <3>3
    <2>11. KeysWereValidated'
      BY <2>2, <2>6, <2>8, <2>10 DEF AccountInv, KeysWereValidated
    <2>12. RequestsAgree'
      <3>1. req'[c].at = "idle" /\ (\A d \in Clients \ {c} : req'[d] = req[d])
            /\ req' = [d \in Clients |-> req'[d]]
        BY DEF AccountInv, RequestsAgree, Idle
      <3>2. \A d \in Clients \ {c} : req[d].at = "changing" /\ req[d].uid = u => new.crossed
        BY <2>3 DEF Changing
      <3> QED
        BY <2>2, <2>6, <2>8, <3>1, <3>2 DEF AccountInv, RequestsAgree
    <2> QED
      BY <2>5, <2>7, <2>9, <2>11, <2>12 DEF AccountInv
  <1> QED
    BY <1>2, <1>3

LEMMA CredentialsAnswered ==
  ASSUME AccountInv, NEW c \in Clients, NEW ok, NEW cut, CredentialsValidated(c, ok, cut)
  PROVE  AccountInv'
  <1>1. /\ up /\ req[c].at = "changing" /\ req' = [req EXCEPT ![c] = Idle]
        /\ UNCHANGED <<lastUid, sessions, tokens, keyring, seeded>>
    BY DEF CredentialsValidated
  <1>2. CASE UNCHANGED rows
    BY <1>1, <1>2, RowsUntouched, KeysUntouched, Answered
  <1>3. CASE UpdateCredentials(c, cut)
    BY <1>1, <1>3, CredentialsWritten
  <1> QED
    BY <1>2, <1>3 DEF CredentialsValidated

----------------------------------------------------------------------------
(* Writing a row.                                                          *)

\* The id is that of the name's row, or nobody's yet.
LEMMA UidIsFree ==
  ASSUME AccountInv, NEW n \in Names, UidFor(n) \in Uids
  PROVE  /\ UidFor(n) \in Users => UidFor(n) \in UsersNamed(n)
         /\ UidFor(n) \notin Users => UidFor(n) = lastUid + 1
         /\ UidFor(n) \in Nat
  <1>1. \A u \in Users : u \in Nat /\ u <= lastUid
    BY AccountAssumption DEF AccountInv, IdsAreFresh, Users
  <1>2. CASE UsersNamed(n) # {}
    <2>1. UidFor(n) \in UsersNamed(n)
      BY <1>2 DEF UidFor
    <2> QED
      BY <1>1, <2>1 DEF UsersNamed
  <1>3. CASE UsersNamed(n) = {}
    <2>1. UidFor(n) = lastUid + 1 /\ lastUid \in Nat
      BY <1>3 DEF UidFor, AccountInv, IdsAreFresh
    <2>2. lastUid + 1 \notin Users
      BY <1>1, <2>1
    <2> QED
      BY <2>1, <2>2
  <1> QED
    BY <1>2, <1>3

\* Requests are answered, and none is made.
RequestsWait ==
  /\ req' = [c \in Clients |-> req'[c]]
  /\ \A c \in Clients : req'[c] = req[c] \/ req'[c].at = "idle"

\* Who writes a row writes the pair that was validated, and gives no rights
\* but to the administrator and to the user a boot seeds.
LEMMA UpsertKeeps ==
  ASSUME AccountInv, NEW n \in Names, NEW ak \in Values \union {None},
         NEW secret \in Values \union {None}, NEW mode \in {"trading", "viewer"},
         NEW adm \in BOOLEAN, NEW m \in Keyholders, EnsureFernet(m),
         UpsertUser(n, ak, secret, mode, adm, mem'),
         adm => seeded' = UidFor(n), Users # {} => up /\ seeded' = seeded
  PROVE  /\ RowsTyped' /\ IdsAreFresh' /\ KeysAgree' /\ AdminIsSole' /\ KeysWereValidated'
         /\ Users' = Users \union {UidFor(n)}
         /\ RequestsWait => RequestsAgree'
  <1> DEFINE u == UidFor(n)
  <1> DEFINE held == IF rows[u] # None THEN rows[u].admin ELSE adm \/ n = Admin
  <1> DEFINE crs == Changing(u) # {}
  <1> DEFINE key == mem'
  <1> DEFINE new == [name |-> n, form |-> "hash", ak |-> ak, secret |-> secret,
                     pair |-> <<ak, secret>>, crossed |-> crs,
                     idx |-> {"ak", "secret"}, mode |-> mode, key |-> key, admin |-> held]
  <1>1. u \in Uids /\ rows' = [rows EXCEPT ![u] = new]
        /\ lastUid' = IF u > lastUid THEN u ELSE lastUid
    BY DEF UpsertUser
  <1>2. /\ u \in Users => u \in UsersNamed(n)
        /\ u \notin Users => u = lastUid + 1
        /\ u \in Nat
    BY <1>1, UidIsFree
  <1>3. rows[u] # None <=> u \in Users
    BY <1>1 DEF Users
  <1>4. keys' \in 1..MaxKeys /\ key \in 1..keys'
    BY EnsureKeeps DEF AccountInv
  <1>5. held \in BOOLEAN
    BY <1>3, RowFields DEF AccountInv
  <1>6. key \in 1..MaxKeys /\ <<ak, secret>> \in Seq(Values \union {None})
    BY <1>4, AccountAssumption
  <1> HIDE DEF u, held, crs, key
  <1>7. crs \in BOOLEAN
    BY DEF crs
  <1>8. new \in Rows
    BY <1>5, <1>6, <1>7 DEF Rows, Forms
  <1>9. rows'[u] = new /\ (\A v \in Uids \ {u} : rows'[v] = rows[v])
        /\ rows' = [v \in Uids |-> rows'[v]]
    BY <1>1 DEF AccountInv, RowsTyped
  <1>10. /\ new.name = n /\ new.ak = ak /\ new.secret = secret /\ new.pair = <<ak, secret>>
         /\ new.crossed = crs /\ new.key = key /\ new.admin = held
    OBVIOUS
  <1> HIDE DEF new
  <1>11. RowsTyped'
    BY <1>8, <1>9 DEF AccountInv, RowsTyped
  <1>12. Users' = Users \union {u}
    BY <1>1, <1>8, <1>9, RowAssumption DEF Users
  <1>13. \A v \in Users' \ {u} : v \in Users /\ rows'[v] = rows[v]
    BY <1>9, <1>12 DEF Users
  <1>14. IdsAreFresh'
    BY <1>1, <1>2, <1>12, AccountAssumption DEF AccountInv, IdsAreFresh, Users
  <1>15. KeysAgree'
    BY <1>9, <1>10, <1>13, KeysKept DEF key
  <1>16. AdminIsSole'
    <2>1. ASSUME held PROVE n = Admin \/ u = seeded'
      <3>1. CASE u \in Users
        <4>1. rows[u].admin /\ rows[u].name = n /\ up /\ seeded' = seeded
          BY <1>2, <1>3, <2>1, <3>1 DEF held, UsersNamed
        <4> QED
          BY <3>1, <4>1 DEF AccountInv, AdminIsSole
      <3>2. CASE u \notin Users
        BY <1>3, <2>1, <3>2 DEF held, u
      <3> QED
        BY <3>1, <3>2
    <2>2. \A v \in Users' \ {u} : rows'[v].admin => rows'[v].name = Admin \/ v = seeded'
      BY <1>13 DEF AccountInv, AdminIsSole
    <2> QED
      BY <1>9, <1>10, <2>1, <2>2 DEF AdminIsSole
  <1>17. KeysWereValidated'
    BY <1>9, <1>10, <1>13 DEF AccountInv, KeysWereValidated
  <1>18. ASSUME RequestsWait PROVE RequestsAgree'
    <2>1. \A d \in Clients : req[d].at = "changing" /\ req[d].uid = u => crs
      BY DEF crs, Changing
    <2> QED
      BY <1>9, <1>10, <1>13, <1>18, <2>1 DEF AccountInv, RequestsAgree, RequestsWait
  <1> QED
    BY <1>11, <1>12, <1>14, <1>15, <1>16, <1>17, <1>18 DEF u

LEMMA RegisteredKeeps ==
  ASSUME AccountInv, NEW n \in Names, NEW ak \in Values \union {None},
         NEW secret \in Values \union {None}, NEW mode \in {"trading", "viewer"},
         Registered(n, ak, secret, mode), up, UNCHANGED <<up, seeded>>, RequestsWait
  PROVE  AccountInv'
  <1> DEFINE u == UidFor(n)
  <1>1. /\ EnsureFernet(mem) /\ CreateSession(u) /\ u \in Uids
        /\ UpsertUser(n, ak, secret, mode, FALSE, mem') /\ mem \in Keyholders
    BY DEF Registered, UpsertUser, Keyholders
  <1>2. /\ RowsTyped' /\ IdsAreFresh' /\ KeysAgree' /\ AdminIsSole' /\ KeysWereValidated'
        /\ Users' = Users \union {u} /\ RequestsAgree'
    BY <1>1, UpsertKeeps
  <1>3. Users' \subseteq Uids
    BY DEF Users
  <1>4. SessionsTyped' /\ SessionsAreOfUsers'
    <2>1. \A s \in sessions : s[2] \in Users'
      BY <1>2 DEF AccountInv, SessionsAreOfUsers
    <2>2. SessionsTyped /\ u \in Users'
      BY <1>2 DEF AccountInv
    <2> QED
      BY <1>1, <1>3, <2>1, <2>2, SessionOpened
  <1> QED
    BY <1>2, <1>4 DEF AccountInv

LEMMA ViewerKeeps ==
  ASSUME AccountInv, NEW n \in Names, RegisterViewer(n) PROVE AccountInv'
  <1>1. RequestsWait
    BY DEF RegisterViewer, RequestsWait, AccountInv, RequestsAgree
  <1> QED
    BY <1>1, RegisteredKeeps DEF RegisterViewer

LEMMA ValidatedKeeps ==
  ASSUME AccountInv, NEW c \in Clients, NEW ok, Validated(c, ok) PROVE AccountInv'
  <1>1. up /\ req[c].at = "registering" /\ req' = [req EXCEPT ![c] = Idle]
        /\ UNCHANGED <<up, seeded>>
    BY DEF Validated
  <1>2. CASE UNCHANGED <<rows, lastUid, sessions, tokens, keyring>>
    BY <1>1, <1>2, Answered, KeysUntouched, RowsUntouched
  <1>3. CASE Registered(req[c].name, req[c].ak, req[c].secret, "trading")
    <2>1. RequestsWait
      BY <1>1 DEF RequestsWait, AccountInv, RequestsAgree, Idle
    <2>2. req[c].name \in Names /\ req[c].ak \in Values /\ req[c].secret \in Values
      BY <1>1 DEF AccountInv, RequestsAgree
    <2> QED
      BY <1>1, <1>3, <2>1, <2>2, RegisteredKeeps
  <1> QED
    BY <1>2, <1>3 DEF Validated

LEMMA DirectivesKeep ==
  ASSUME AccountInv, NEW cut, OnDirectives(cut), up PROVE AccountInv'
  BY RequestsKept, KeysUntouched, RowsUntouched DEF OnDirectives, Dying

----------------------------------------------------------------------------
(* The boot.                                                               *)

\* The sweep sets the rights, and the migration how a password is kept.
LEMMA SweepKeeps ==
  ASSUME AccountInv, NEW key,
         \/ rows' = [u \in Uids |-> IF u \in Users THEN Swept(rows[u]) ELSE None]
         \/ rows' = MigratedRows(key)
  PROVE  /\ RowsTyped' /\ Users' = Users
         /\ \A u \in Users :
              /\ rows'[u].admin => rows'[u].name = Admin
              /\ rows'[u].ak = rows[u].ak /\ rows'[u].secret = rows[u].secret
              /\ rows'[u].pair = rows[u].pair /\ rows'[u].crossed = rows[u].crossed
              /\ rows'[u].key = rows[u].key
  <1>1. \A u \in Users : u \in Uids /\ rows[u] \in Rows
    BY RowFields DEF AccountInv
  <1>2. \A row \in Rows :
          /\ Swept(row) \in Rows
          /\ Swept(row).name = row.name /\ (Swept(row).admin => row.name = Admin)
          /\ Swept(row).ak = row.ak /\ Swept(row).secret = row.secret
          /\ Swept(row).pair = row.pair /\ Swept(row).crossed = row.crossed
          /\ Swept(row).key = row.key
    BY DEF Swept, Rows
  <1>3. \A row \in Rows :
          /\ Migrated(row, key) \in Rows
          /\ Migrated(row, key).name = row.name /\ Migrated(row, key).admin = row.admin
          /\ Migrated(row, key).ak = row.ak /\ Migrated(row, key).secret = row.secret
          /\ Migrated(row, key).pair = row.pair /\ Migrated(row, key).crossed = row.crossed
          /\ Migrated(row, key).key = row.key
    <2> SUFFICES ASSUME NEW row \in Rows
                 PROVE  /\ Migrated(row, key) \in Rows
                        /\ Migrated(row, key).name = row.name
                        /\ Migrated(row, key).admin = row.admin
                        /\ Migrated(row, key).ak = row.ak
                        /\ Migrated(row, key).secret = row.secret
                        /\ Migrated(row, key).pair = row.pair
                        /\ Migrated(row, key).crossed = row.crossed
                        /\ Migrated(row, key).key = row.key
      OBVIOUS
    <2>1. CASE row.key # key
      BY <2>1 DEF Migrated
    <2>2. CASE row.key = key
      <3> DEFINE ix == IF "ak" \in row.idx THEN row.idx ELSE {"ak", "secret"}
      <3>1. ix \in SUBSET {"ak", "secret"}
        BY DEF Rows
      <3>2. Migrated(row, key) = [row EXCEPT !.form = "hash", !.idx = ix]
        BY <2>2 DEF Migrated, Rows
      <3> HIDE DEF ix
      <3> QED
        BY <3>1, <3>2 DEF Rows, Forms
    <2> QED
      BY <2>1, <2>2
  <1>4. \A u \in Uids \ Users : rows'[u] = None
    BY DEF MigratedRows
  <1>5. \A u \in Users : rows'[u] = Swept(rows[u]) \/ rows'[u] = Migrated(Swept(rows[u]), key)
    BY <1>1 DEF MigratedRows
  <1>6. rows' = [u \in Uids |-> rows'[u]]
    BY DEF MigratedRows
  <1>7. \A u \in Users :
          /\ rows'[u] \in Rows
          /\ rows'[u].admin => rows'[u].name = Admin
          /\ rows'[u].ak = rows[u].ak /\ rows'[u].secret = rows[u].secret
          /\ rows'[u].pair = rows[u].pair /\ rows'[u].crossed = rows[u].crossed
          /\ rows'[u].key = rows[u].key
    <2> SUFFICES ASSUME NEW u \in Users
                 PROVE  /\ rows'[u] \in Rows
                        /\ rows'[u].admin => rows'[u].name = Admin
                        /\ rows'[u].ak = rows[u].ak /\ rows'[u].secret = rows[u].secret
                        /\ rows'[u].pair = rows[u].pair /\ rows'[u].crossed = rows[u].crossed
                        /\ rows'[u].key = rows[u].key
      OBVIOUS
    <2> DEFINE swept == Swept(rows[u])
    <2>1. /\ swept \in Rows /\ (swept.admin => swept.name = Admin)
          /\ swept.ak = rows[u].ak /\ swept.secret = rows[u].secret
          /\ swept.pair = rows[u].pair /\ swept.crossed = rows[u].crossed
          /\ swept.key = rows[u].key
      BY <1>1, <1>2
    <2>2. rows'[u] = swept \/ rows'[u] = Migrated(swept, key)
      BY <1>5
    <2> HIDE DEF swept
    <2> QED
      BY <1>3, <2>1, <2>2
  <1>8. RowsTyped'
    BY <1>4, <1>6, <1>7 DEF RowsTyped
  <1>9. Users' = Users
    BY <1>1, <1>4, <1>7, RowAssumption DEF Users
  <1> QED
    BY <1>7, <1>8, <1>9

LEMMA BootKeeps ==
  ASSUME AccountInv, NEW given \in {None} \union 1..MaxKeys, NEW cut,
         AuthBootstrap(given, cut)
  PROVE  AccountInv'
  <1>1. ~up /\ req' = [c \in Clients |-> Idle] /\ UNCHANGED <<sessions, tokens>>
    BY DEF AuthBootstrap
  <1>2. RequestsAgree'
    BY <1>1 DEF RequestsAgree, Idle
  <1>3. ASSUME NEW key, UNCHANGED lastUid,
               \/ rows' = [u \in Uids |-> IF u \in Users THEN Swept(rows[u]) ELSE None]
               \/ rows' = MigratedRows(key),
               \/ mem' = None /\ UNCHANGED <<file, keys, astray>>
               \/ EnsureFernet(given)
        PROVE  AccountInv'
    <2>1. /\ RowsTyped' /\ Users' = Users
          /\ \A u \in Users :
               /\ rows'[u].admin => rows'[u].name = Admin
               /\ rows'[u].ak = rows[u].ak /\ rows'[u].secret = rows[u].secret
               /\ rows'[u].pair = rows[u].pair /\ rows'[u].crossed = rows[u].crossed
               /\ rows'[u].key = rows[u].key
      BY <1>3, SweepKeeps
    <2>2. KeysAgree'
      <3>1. CASE mem' = None /\ UNCHANGED <<file, keys, astray>>
        BY <2>1, <3>1 DEF AccountInv, KeysAgree, OneKey
      <3>2. CASE EnsureFernet(given)
        BY <2>1, <3>2, KeysKept DEF Keyholders
      <3> QED
        BY <1>3, <3>1, <3>2
    <2>3. SessionsTyped' /\ SessionsAreOfUsers' /\ IdsAreFresh'
      BY <1>1, <1>3, <2>1 DEF AccountInv, SessionsTyped, SessionsAreOfUsers, IdsAreFresh
    <2>4. AdminIsSole' /\ KeysWereValidated'
      BY <2>1 DEF AccountInv, AdminIsSole, KeysWereValidated
    <2> QED
      BY <1>2, <2>1, <2>2, <2>3, <2>4 DEF AccountInv
  <1>4. ASSUME EnsureFernet(given), BootstrapFromEnv(mem') PROVE AccountInv'
    <2>1. /\ Users = {} /\ seeded' = lastUid + 1
          /\ UpsertUser(EnvName, EnvValue, EnvValue, "trading", TRUE, mem')
      BY <1>4 DEF BootstrapFromEnv
    <2>2. UidFor(EnvName) = lastUid + 1
      BY <2>1 DEF UidFor, UsersNamed
    <2>3. EnvName \in Names /\ EnvValue \in Values
      BY AccountAssumption
    <2>4. RowsTyped' /\ IdsAreFresh' /\ KeysAgree' /\ AdminIsSole' /\ KeysWereValidated'
      BY <1>4, <2>1, <2>2, <2>3, UpsertKeeps DEF Keyholders
    <2>5. SessionsTyped' /\ SessionsAreOfUsers'
      BY <1>1, <2>1 DEF AccountInv, SessionsTyped, SessionsAreOfUsers
    <2> QED
      BY <1>2, <2>4, <2>5 DEF AccountInv
  <1> QED
    BY <1>3, <1>4 DEF AuthBootstrap

----------------------------------------------------------------------------
(* The theorems.                                                           *)

LEMMA AccountStep == AccountInv /\ [Next]_vars => AccountInv'
  <1> SUFFICES ASSUME AccountInv, [Next]_vars PROVE AccountInv'
    OBVIOUS
  <1>1. CASE UNCHANGED vars
    BY <1>1, RowsUntouched, RequestsKept, KeysUntouched DEF vars, avars
  <1>2. ASSUME NEW given \in {None} \union 1..MaxKeys, NEW cut, AuthBootstrap(given, cut)
        PROVE  AccountInv'
    BY <1>2, BootKeeps
  <1>3. CASE Kill \/ KeyFileMoves
    BY <1>3, KillKeeps
  <1>4. ASSUME NEW n \in Names, RegisterViewer(n) PROVE AccountInv'
    BY <1>4, ViewerKeeps
  <1>5. ASSUME NEW c \in Clients, NEW n \in Names, NEW v \in Values, Register(c, n, v)
        PROVE  AccountInv'
    BY <1>5, RegisterKeeps
  <1>6. ASSUME NEW c \in Clients, NEW ok, Validated(c, ok) PROVE AccountInv'
    BY <1>6, ValidatedKeeps
  <1>7. ASSUME NEW c \in Clients, NEW s \in sessions,
               NEW ak \in Values \union {None}, NEW secret \in Values \union {None},
               Credentials(c, s, ak, secret)
        PROVE  AccountInv'
    BY <1>7, CredentialsKeeps
  <1>8. ASSUME NEW c \in Clients, NEW s \in sessions,
               DeleteAccount(c, s) \/ \E u \in Users : AdminMemberDelete(c, s, u)
        PROVE  AccountInv'
    BY <1>8, DeletionAsked
  <1>9. ASSUME NEW c \in Clients, NEW ok, NEW cut, CredentialsValidated(c, ok, cut)
        PROVE  AccountInv'
    BY <1>9, CredentialsAnswered
  <1>10. ASSUME NEW c \in Clients, NEW cut, Decommissioned(c, cut) PROVE AccountInv'
    BY <1>10, DecommissionedKeeps
  <1>11. ASSUME NEW u \in Uids, Login(u) \/ RecoverPassword(u) PROVE AccountInv'
    BY <1>11, LoginKeeps, PasswordKeeps
  <1>12. ASSUME NEW s \in sessions,
                LookupExpired(s) \/ Logout(s) \/ ChangePassword(s)
         PROVE  AccountInv'
    BY <1>12, SessionClosed, PasswordKeeps
  <1>13. ASSUME NEW s \in sessions, NEW u \in Users, AdminMember(s, u) PROVE AccountInv'
    BY <1>13, AdminMemberKeeps
  <1>14. ASSUME NEW s \in sessions, NEW t \in Texts, NEW cut \in Cuts, Directive(s, t, cut)
         PROVE  AccountInv'
    <2>1. up /\ OnDirectives(cut)
      BY <1>14 DEF Directive, Session
    <2> QED
      BY <2>1, DirectivesKeep
  <1>15. ASSUME NEW p \in judging, NEW cut \in Cuts, Judged(p[1], p[2], cut) PROVE AccountInv'
    <2>1. up /\ OnDirectives(cut)
      BY <1>15 DEF Judged
    <2> QED
      BY <2>1, DirectivesKeep
  <1> QED
    BY <1>1, <1>2, <1>3, <1>4, <1>5, <1>6, <1>7, <1>8, <1>9, <1>10, <1>11, <1>12, <1>13,
       <1>14, <1>15 DEF Next

\* The parts hold together of every state the server and its store reach.
THEOREM AccountInvariance == Spec => []AccountInv
  BY AccountInit, AccountStep, PTL DEF Spec

\* No session is left of a user who was deleted, wherever the deletion is cut
\* and whatever else is in flight: delete_user's one transaction.
THEOREM SessionsHaveUsers == Spec => []SessionsAreOfUsers
  <1>1. AccountInv => SessionsAreOfUsers
    BY DEF AccountInv
  <1> QED
    BY <1>1, AccountInvariance, PTL

\* While the server runs only the configured administrator has his rights,
\* and whom this process seeded: what the boot, upsert_user and set_admin do
\* to the flag.
THEOREM OneAdministrator == Spec => []AdminIsSole
  <1>1. AccountInv => AdminIsSole
    BY DEF AccountInv
  <1> QED
    BY <1>1, AccountInvariance, PTL

\* A row's keys are the pair the broker accepted last, unless two changes of
\* it crossed: update_credentials after the validation's await.
THEOREM KeysAccepted == Spec => []KeysWereValidated
  <1>1. AccountInv => KeysWereValidated
    BY DEF AccountInv
  <1> QED
    BY <1>1, AccountInvariance, PTL

\* No row is under another key than the process's, whenever the file is lost:
\* _ensure_fernet makes none over rows it has counted.  A count that failed and
\* an ARQUANT_FERNET_KEY of another time are excepted.
THEOREM RowsStayReadable == Spec => []RowsReadable
  <1>1. AccountInv => RowsReadable
    BY DEF AccountInv, KeysAgree, OneKey, RowsReadable
  <1> QED
    BY <1>1, AccountInvariance, PTL

----------------------------------------------------------------------------
(* Lists of directives.                                                    *)

\* No directive stands in a list twice.
Once(s) == \A i, j \in 1..Len(s) : s[i] = s[j] => i = j

\* A list with one directive added, the oldest dropped when there is no room.
LEMMA AppendedList ==
  ASSUME NEW s \in Seq(Texts), NEW t \in Texts, Once(s), ~Contains(s, t)
  PROVE  LET r == Capped(Append(s, t))
         IN /\ r \in Seq(Texts) /\ Once(r)
            /\ \A d : Contains(r, d) => d = t \/ Contains(s, d)
<1> DEFINE a == Append(s, t)
<1>1. /\ a \in Seq(Texts) /\ Len(a) = Len(s) + 1 /\ a[Len(s) + 1] = t
      /\ \A i \in 1..Len(s) : a[i] = s[i]
  OBVIOUS
<1> HIDE DEF a
<1>2. Once(a) /\ \A d : Contains(a, d) => d = t \/ Contains(s, d)
  <2>1. \A i \in 1..Len(a) : i \in 1..Len(s) \/ (i = Len(s) + 1 /\ a[i] = t)
    BY <1>1
  <2>2. \A i \in 1..Len(s) : s[i] # t
    BY DEF Contains
  <2>3. Once(a)
    BY <1>1, <2>1, <2>2 DEF Once
  <2>4. ASSUME NEW d, Contains(a, d) PROVE d = t \/ Contains(s, d)
    BY <1>1, <2>1, <2>4 DEF Contains
  <2> QED
    BY <2>3, <2>4
<1>3. CASE Capped(a) = a
  BY <1>1, <1>2, <1>3 DEF a
<1>4. CASE Capped(a) = Tail(a)
  <2> DEFINE b == Tail(a)
  <2>1. /\ b \in Seq(Texts) /\ Len(b) = Len(a) - 1
        /\ \A i \in 1..Len(b) : i + 1 \in 1..Len(a) /\ b[i] = a[i + 1]
    BY <1>1
  <2> HIDE DEF b
  <2>2. Once(b)
    BY <1>2, <2>1 DEF Once
  <2>3. ASSUME NEW d, Contains(b, d) PROVE Contains(a, d)
    BY <2>1, <2>3 DEF Contains
  <2>4. \A d : Contains(b, d) => d = t \/ Contains(s, d)
    BY <1>2, <2>3
  <2>5. Capped(Append(s, t)) = b
    BY <1>4 DEF a, b
  <2> QED
    BY <2>1, <2>2, <2>4, <2>5
<1> QED
  BY <1>3, <1>4 DEF Capped

LEMMA Joined ==
  ASSUME NEW a \in Seq(Texts), NEW b \in Seq(Texts)
  PROVE  /\ a \o b \in Seq(Texts) /\ Len(a \o b) = Len(a) + Len(b)
         /\ \A j \in 1..Len(a) : (a \o b)[j] = a[j]
         /\ \A j \in 1..Len(b) : (a \o b)[Len(a) + j] = b[j]
<1>1. a \o b \in Seq(Texts) /\ Len(a \o b) = Len(a) + Len(b)
  OBVIOUS
<1>2. \A j \in 1..Len(a) : (a \o b)[j] = a[j]
  OBVIOUS
<1>3. ASSUME NEW j \in 1..Len(b) PROVE (a \o b)[Len(a) + j] = b[j]
  OBVIOUS
<1> QED
  BY <1>1, <1>2, <1>3

\* A list with one entry dropped.
LEMMA ShortenedList ==
  ASSUME NEW s \in Seq(Texts), Once(s), NEW i \in 1..Len(s)
  PROVE  LET r == RemoveAt(s, i)
         IN /\ r \in Seq(Texts) /\ Once(r) /\ ~Contains(r, s[i])
            /\ \A d : Contains(r, d) => Contains(s, d)
<1> DEFINE r == RemoveAt(s, i)
           from(j) == IF j < i THEN j ELSE j + 1
<1>1. /\ r \in Seq(Texts) /\ Len(r) = Len(s) - 1
      /\ \A j \in 1..Len(r) : r[j] = s[from(j)]
  <2> DEFINE a == SubSeq(s, 1, i - 1)
             b == SubSeq(s, i + 1, Len(s))
  <2>1. /\ a \in Seq(Texts) /\ Len(a) = i - 1
        /\ \A j \in 1..(i - 1) : a[j] = s[j]
    OBVIOUS
  <2>2. /\ b \in Seq(Texts) /\ Len(b) = Len(s) - i
        /\ \A j \in 1..(Len(s) - i) : b[j] = s[i + j]
    OBVIOUS
  <2>3. r = a \o b
    BY DEF RemoveAt
  <2> HIDE DEF r, a, b
  <2>4. /\ r \in Seq(Texts) /\ Len(r) = Len(a) + Len(b)
        /\ \A j \in 1..Len(a) : r[j] = a[j]
        /\ \A j \in 1..Len(b) : r[Len(a) + j] = b[j]
    BY <2>1, <2>2, <2>3, Joined
  <2>5. Len(s) \in Nat /\ i \in Nat /\ Len(r) = Len(s) - 1
    BY <2>1, <2>2, <2>4
  <2>6. ASSUME NEW j \in 1..Len(r) PROVE r[j] = s[from(j)]
    <3>1. CASE j < i
      BY <2>1, <2>4, <2>5, <3>1
    <3>2. CASE ~(j < i)
      <4>1. j - (i - 1) \in 1..Len(b)
        BY <2>2, <2>5, <3>2
      <4>2. r[(i - 1) + (j - (i - 1))] = b[j - (i - 1)] /\ b[j - (i - 1)] = s[i + (j - (i - 1))]
        BY <2>1, <2>2, <2>4, <4>1
      <4>3. (i - 1) + (j - (i - 1)) = j /\ i + (j - (i - 1)) = j + 1
        BY <2>5
      <4> QED
        BY <3>2, <4>2, <4>3
    <3> QED
      BY <3>1, <3>2
  <2> QED
    BY <2>4, <2>5, <2>6
<1>2. \A j \in 1..Len(r) : from(j) \in 1..Len(s) /\ from(j) # i
  BY <1>1
<1>3. \A j, k \in 1..Len(r) : from(j) = from(k) => j = k
  BY <1>1
<1> HIDE DEF r, from
<1>4. Once(r)
  BY <1>1, <1>2, <1>3 DEF Once
<1>5. ~Contains(r, s[i])
  BY <1>1, <1>2 DEF Once, Contains
<1>6. ASSUME NEW d, Contains(r, d) PROVE Contains(s, d)
  BY <1>1, <1>2, <1>6 DEF Contains
<1> QED
  BY <1>1, <1>4, <1>5, <1>6 DEF r

----------------------------------------------------------------------------
(* What was removed is marked, and nothing under way will bring it back.   *)

ListsTyped ==
  \A u \in Uids : Listed(u) \in Seq(Texts) /\ Once(Listed(u))

MarksTyped ==
  /\ Tombs \subseteq Uids \X Texts /\ judging \subseteq Uids \X Texts
  /\ withdrawn \subseteq Uids \X Texts
  /\ list = [u \in Uids |-> list[u]]

WithdrawnIsMarked ==
  /\ withdrawn \subseteq Tombs /\ withdrawn \cap judging = {}
  /\ \A p \in withdrawn : ~Contains(Listed(p[1]), p[2])

DirectivesInv == ListsTyped /\ MarksTyped /\ WithdrawnIsMarked

LEMMA TornIsNoSet == ASSUME NEW S \in SUBSET (Uids \X Texts) PROVE Torn # S
  BY DirectiveAssumption

LEMMA EmptyList == <<>> \in Seq(Texts) /\ Len(<<>>) = 0 /\ Once(<<>>)
  BY DEF Once

LEMMA DirectivesStart == DirectivesInit => DirectivesInv
<1> SUFFICES ASSUME DirectivesInit PROVE DirectivesInv
  OBVIOUS
<1>1. tombs # Torn /\ tombs = {} /\ Tombs = {}
  BY TornIsNoSet DEF DirectivesInit, Tombs
<1>2. \A u \in Uids : Listed(u) = <<>>
  BY DEF DirectivesInit, Listed
<1>4. ListsTyped
  BY <1>2, EmptyList DEF ListsTyped
<1> QED
  BY <1>1, <1>4 DEF DirectivesInit, DirectivesInv, MarksTyped, WithdrawnIsMarked

\* The marks after a write: those of before, or those that were to be, or none.
LEMMA MarksSaved ==
  ASSUME MarksTyped, NEW ts \in SUBSET (Uids \X Texts), NEW cut \in Cuts, SavesMarks(ts, cut)
  PROVE  /\ Tombs' \in {Tombs, ts, {}}
         /\ tombs' # Torn => Tombs' \in {Tombs, ts}
<1>1. tombs' \in {tombs, ts, Torn}
  BY DEF SavesMarks, Written, Cuts
<1>2. ts # Torn
  BY TornIsNoSet
<1> QED
  BY <1>1, <1>2 DEF Tombs

\* A list is saved, of user u: what others are listed with stays.
LEMMA ListSaved ==
  ASSUME ListsTyped, MarksTyped, NEW u \in Uids, NEW s \in Seq(Texts), Once(s), NEW cut \in Cuts,
         SavesList(u, s, cut)
  PROVE  /\ ListsTyped' /\ list' = [v \in Uids |-> list'[v]]
         /\ \A v \in Uids \ {u} : Listed(v)' = Listed(v)
         /\ Listed(u)' \in {s, Listed(u), <<>>}
<1>1. PICK l \in {s, list[u], Torn} : list' = [list EXCEPT ![u] = l]
  BY DEF SavesList, Written
<1>2. \A v \in Uids \ {u} : Listed(v)' = Listed(v)
  BY <1>1 DEF Listed, MarksTyped
<1>3. list'[u] = l
  BY <1>1 DEF MarksTyped
<1>4. Listed(u)' \in {s, Listed(u), <<>>}
  BY <1>3 DEF Listed
<1>6. Listed(u)' \in Seq(Texts) /\ Once(Listed(u)')
  BY <1>4, EmptyList DEF ListsTyped
<1>7. \A v \in Uids : (Listed(v)' \in Seq(Texts) /\ Once(Listed(v)'))
  BY <1>2, <1>6 DEF ListsTyped
<1>8. list' = [v \in Uids |-> list'[v]]
  BY <1>1 DEF MarksTyped
<1> QED
  BY <1>2, <1>4, <1>7, <1>8 DEF ListsTyped, Once

\* A pair of a user and a directive.
LEMMA PairFields ==
  ASSUME NEW p \in Uids \X Texts
  PROVE  p[1] \in Uids /\ p[2] \in Texts /\ p = <<p[1], p[2]>>
  OBVIOUS

LEMMA AppendsKeep ==
  ASSUME DirectivesInv, NEW u \in Uids, NEW t \in Texts, NEW cut \in Cuts, Appends(u, t, cut),
         withdrawn' = Standing(withdrawn \ {<<u, t>>}), judging' \subseteq judging
  PROVE  DirectivesInv'
<1> DEFINE r == Capped(Append(Listed(u), t))
<1>1. ListsTyped /\ MarksTyped /\ WithdrawnIsMarked /\ Listed(u) \in Seq(Texts) /\ Once(Listed(u))
  BY DEF DirectivesInv, ListsTyped
<1>2. /\ ~Contains(Listed(u), t) /\ SavesList(u, r, cut) /\ SavesMarks(Tombs \ {<<u, t>>}, cut)
  BY DEF Appends
<1>3. r \in Seq(Texts) /\ Once(r) /\ \A d : Contains(r, d) => d = t \/ Contains(Listed(u), d)
  BY <1>1, <1>2, AppendedList
<1> HIDE DEF r
<1>4. /\ ListsTyped' /\ list' = [v \in Uids |-> list'[v]]
      /\ \A v \in Uids \ {u} : Listed(v)' = Listed(v)
      /\ Listed(u)' \in {r, Listed(u), <<>>}
  BY <1>1, <1>2, <1>3, ListSaved
<1>5. Tombs \ {<<u, t>>} \in SUBSET (Uids \X Texts)
  BY <1>1 DEF MarksTyped
<1>6. /\ Tombs' \in {Tombs, Tombs \ {<<u, t>>}, {}}
      /\ tombs' # Torn => Tombs' \in {Tombs, Tombs \ {<<u, t>>}}
  BY <1>1, <1>2, <1>5, MarksSaved
<1>7. withdrawn' \subseteq withdrawn \ {<<u, t>>} /\ withdrawn' \subseteq Tombs'
  BY <1>1, <1>6 DEF Standing, WithdrawnIsMarked
<1>8. MarksTyped'
  BY <1>1, <1>4, <1>5, <1>6, <1>7 DEF MarksTyped
<1>9. ASSUME NEW p \in withdrawn', Contains(Listed(p[1])', p[2]) PROVE FALSE
  <2>1. p[1] \in Uids /\ p = <<p[1], p[2]>> /\ p \in withdrawn /\ p # <<u, t>>
    BY <1>7, <1>8, PairFields DEF MarksTyped
  <2>2. ~Contains(Listed(p[1]), p[2])
    BY <1>1, <2>1 DEF WithdrawnIsMarked
  <2>3. p[1] = u
    BY <1>4, <1>9, <2>1, <2>2
  <2>4. Listed(u)' = r
    BY <1>4, <1>9, <2>2, <2>3, EmptyList DEF Contains
  <2>5. p[2] = t
    BY <1>3, <1>9, <2>2, <2>3, <2>4
  <2> QED
    BY <2>1, <2>3, <2>5
<1>10. WithdrawnIsMarked'
  BY <1>1, <1>7, <1>9 DEF WithdrawnIsMarked
<1> QED
  BY <1>4, <1>8, <1>10 DEF DirectivesInv

LEMMA RemovesKeep ==
  ASSUME DirectivesInv, NEW u \in Uids, NEW t \in Texts, NEW cut \in Cuts,
         RemoveDirective(u, t, cut)
  PROVE  DirectivesInv'
<1> DEFINE saved == ~Contains(Listed(u)', t) /\ <<u, t>> \in Tombs'
           answered == cut = "none" /\ saved /\ <<u, t>> \notin judging
           removals == IF answered THEN withdrawn \union {<<u, t>>} ELSE withdrawn
<1>1. ListsTyped /\ MarksTyped /\ WithdrawnIsMarked /\ Listed(u) \in Seq(Texts) /\ Once(Listed(u))
  BY DEF DirectivesInv, ListsTyped
<1>2. PICK i \in 1..Len(Listed(u)) :
        Listed(u)[i] = t /\ SavesList(u, RemoveAt(Listed(u), i), cut)
  BY <1>1 DEF RemoveDirective
<1> DEFINE r == RemoveAt(Listed(u), i)
           ts == Tombs \union {<<u, t>>}
<1>3. r \in Seq(Texts) /\ Once(r) /\ ~Contains(r, t) /\ \A d : Contains(r, d) => Contains(Listed(u), d)
  BY <1>1, <1>2, ShortenedList
<1>4. SavesList(u, r, cut) /\ SavesMarks(ts, cut) /\ UNCHANGED judging
      /\ withdrawn' = Standing(removals)
  BY <1>2 DEF RemoveDirective
<1> HIDE DEF r
<1>5. /\ ListsTyped' /\ list' = [v \in Uids |-> list'[v]]
      /\ \A v \in Uids \ {u} : Listed(v)' = Listed(v)
      /\ Listed(u)' \in {r, Listed(u), <<>>}
  BY <1>1, <1>3, <1>4, ListSaved
<1>6. ts \in SUBSET (Uids \X Texts)
  BY <1>1 DEF MarksTyped
<1>7. Tombs' \in {Tombs, ts, {}} /\ (tombs' # Torn => Tombs' \in {Tombs, ts})
  BY <1>1, <1>4, <1>6, MarksSaved
<1>8. removals \subseteq withdrawn \union {<<u, t>>}
      /\ \A p \in removals : p \in withdrawn \/ (p = <<u, t>> /\ answered)
  OBVIOUS
<1>9. answered => /\ ~Contains(Listed(u)', t) /\ <<u, t>> \in Tombs'
                  /\ <<u, t>> \notin judging
  OBVIOUS
<1> HIDE DEF answered, removals
<1>10. withdrawn' \subseteq removals /\ withdrawn' \subseteq Tombs'
  BY <1>1, <1>4, <1>7, <1>8, <1>9 DEF Standing, WithdrawnIsMarked
<1>11. MarksTyped'
  BY <1>1, <1>4, <1>5, <1>6, <1>7, <1>8, <1>10 DEF MarksTyped
<1>12. withdrawn' \cap judging' = {}
  BY <1>1, <1>4, <1>8, <1>9, <1>10 DEF WithdrawnIsMarked
<1>13. ASSUME NEW p \in withdrawn', Contains(Listed(p[1])', p[2]) PROVE FALSE
  <2>1. p[1] \in Uids /\ p = <<p[1], p[2]>>
    BY <1>11, PairFields DEF MarksTyped
  <2>2. p \in withdrawn
    <3>1. p \in withdrawn \/ (p = <<u, t>> /\ answered)
      BY <1>8, <1>10
    <3>2. ~(p = <<u, t>> /\ answered)
      BY <1>9, <1>13, <2>1
    <3> QED
      BY <3>1, <3>2
  <2>3. ~Contains(Listed(p[1]), p[2])
    BY <1>1, <2>2 DEF WithdrawnIsMarked
  <2>4. p[1] = u
    BY <1>5, <1>13, <2>1, <2>3
  <2>5. Listed(u)' = r
    BY <1>5, <1>13, <2>3, <2>4, EmptyList DEF Contains
  <2> QED
    BY <1>3, <1>13, <2>3, <2>4, <2>5
<1>14. WithdrawnIsMarked'
  BY <1>10, <1>12, <1>13 DEF WithdrawnIsMarked
<1> QED
  BY <1>5, <1>11, <1>14 DEF DirectivesInv

\* Nothing is written, and fewer removals stand, or other messages are judged.
LEMMA DirectivesUntouched ==
  ASSUME DirectivesInv, UNCHANGED <<list, tombs>>, withdrawn' \subseteq withdrawn,
         judging' \subseteq Uids \X Texts, withdrawn' \cap judging' \subseteq withdrawn \cap judging
  PROVE  DirectivesInv'
<1>1. \A u : Listed(u)' = Listed(u)
  BY DEF Listed
<1>2. ListsTyped'
  BY <1>1 DEF DirectivesInv, ListsTyped
<1>3. MarksTyped'
  BY DEF DirectivesInv, MarksTyped, Tombs
<1>4. WithdrawnIsMarked'
  BY <1>1 DEF DirectivesInv, WithdrawnIsMarked, Tombs
<1> QED
  BY <1>2, <1>3, <1>4 DEF DirectivesInv

LEMMA UserDirectivesKeep ==
  ASSUME DirectivesInv, NEW u \in Uids, NEW t \in Texts, NEW cut \in Cuts
  PROVE  /\ AppendDirective(u, t, cut) => DirectivesInv'
         /\ CeoDirective(u, t) => DirectivesInv'
         /\ AutoPersist(u, t, cut) => DirectivesInv'
<1>1. ASSUME AppendDirective(u, t, cut) PROVE DirectivesInv'
  BY <1>1, AppendsKeep DEF AppendDirective
<1>2. ASSUME CeoDirective(u, t) PROVE DirectivesInv'
  <2>1. judging' = judging \union {<<u, t>>} /\ withdrawn' = withdrawn \ {<<u, t>>}
        /\ UNCHANGED <<list, tombs>>
    BY <1>2 DEF CeoDirective
  <2>2. judging' \subseteq Uids \X Texts
    BY <2>1 DEF DirectivesInv, MarksTyped
  <2> QED
    BY <2>1, <2>2, DirectivesUntouched
<1>3. ASSUME AutoPersist(u, t, cut) PROVE DirectivesInv'
  <2>1. judging' = judging \ {<<u, t>>}
    BY <1>3 DEF AutoPersist
  <2>2. CASE Appends(u, t, cut) /\ withdrawn' = Standing(withdrawn \ {<<u, t>>})
    BY <2>1, <2>2, AppendsKeep
  <2>3. CASE UNCHANGED <<list, tombs, withdrawn>>
    <3>1. judging' \subseteq Uids \X Texts
      BY <2>1 DEF DirectivesInv, MarksTyped
    <3> QED
      BY <2>1, <2>3, <3>1, DirectivesUntouched
  <2> QED
    BY <1>3, <2>2, <2>3 DEF AutoPersist
<1> QED
  BY <1>1, <1>2, <1>3

\* What a boot seeds has not been removed: it would be marked.
LEMMA SeedKeeps ==
  ASSUME DirectivesInv, NEW given, NEW cut \in Cuts, AuthBootstrap(given, cut)
  PROVE  DirectivesInv'
<1>1. judging' = {}
  BY DEF AuthBootstrap, SeedAtBoot
<1>2. CASE UNCHANGED <<list, tombs, withdrawn>>
  BY <1>1, <1>2, DirectivesUntouched
<1>3. ASSUME NEW u \in Uids, SeedAdminDirective(u, cut) PROVE DirectivesInv'
  <2>1. CASE ToSeed(u) /\ Appends(u, Macro, cut) /\ withdrawn' = Standing(withdrawn)
    <3>1. withdrawn = withdrawn \ {<<u, Macro>>}
      BY <2>1 DEF ToSeed, DirectivesInv, WithdrawnIsMarked
    <3> QED
      BY <1>1, <2>1, <3>1, AppendsKeep, DirectiveAssumption
  <2> QED
    BY <1>2, <1>3, <2>1 DEF SeedAdminDirective
<1>4. UNCHANGED <<list, tombs, withdrawn>> \/ \E u \in Uids : SeedAdminDirective(u, cut)
  BY DEF AuthBootstrap, SeedAtBoot
<1> QED
  BY <1>2, <1>3, <1>4

\* A deletion empties the user's list.
LEMMA ProfileGoes ==
  ASSUME DirectivesInv, AccountInv, NEW c \in Clients, NEW cut, Decommissioned(c, cut)
  PROVE  DirectivesInv'
<1>1. PICK u \in Uids :
        list' = [list EXCEPT ![u] = <<>>] /\ UNCHANGED <<tombs, judging, withdrawn>>
  BY DEF Decommissioned, AccountInv, RequestsAgree
<1>2. list = [v \in Uids |-> list[v]]
  BY DEF DirectivesInv, MarksTyped
<1>3. /\ \A v \in Uids \ {u} : Listed(v)' = Listed(v)
      /\ Listed(u)' = <<>> /\ list' = [v \in Uids |-> list'[v]]
  BY <1>1, <1>2 DEF Listed
<1>4. ListsTyped'
  <2>1. ASSUME NEW v \in Uids PROVE Listed(v)' \in Seq(Texts) /\ Once(Listed(v)')
    BY <1>3, EmptyList DEF DirectivesInv, ListsTyped
  <2> QED
    BY <2>1 DEF ListsTyped, Once
<1>5. MarksTyped'
  BY <1>1, <1>3 DEF DirectivesInv, MarksTyped, Tombs
<1>6. WithdrawnIsMarked /\ withdrawn \subseteq Uids \X Texts /\ Tombs' = Tombs
  BY <1>1 DEF DirectivesInv, MarksTyped, Tombs
<1>7. ASSUME NEW p \in withdrawn PROVE ~Contains(Listed(p[1])', p[2])
  <2>1. p[1] \in Uids /\ ~Contains(Listed(p[1]), p[2])
    BY <1>6, PairFields DEF WithdrawnIsMarked
  <2> QED
    BY <1>3, <2>1, EmptyList DEF Contains
<1>8. WithdrawnIsMarked'
  BY <1>1, <1>6, <1>7 DEF WithdrawnIsMarked
<1> QED
  BY <1>4, <1>5, <1>8 DEF DirectivesInv

LEMMA DirectivesStep == AccountInv /\ DirectivesInv /\ [Next]_vars => DirectivesInv'
<1> SUFFICES ASSUME AccountInv, DirectivesInv, [Next]_vars PROVE DirectivesInv'
  OBVIOUS
<1>1. CASE UNCHANGED dvars
  <2>1. judging' \subseteq Uids \X Texts
    BY <1>1 DEF dvars, DirectivesInv, MarksTyped
  <2> QED
    BY <1>1, <2>1, DirectivesUntouched DEF dvars
<1>2. ASSUME NEW given, NEW cut \in Cuts, AuthBootstrap(given, cut) PROVE DirectivesInv'
  BY <1>2, SeedKeeps
<1>3. ASSUME NEW c \in Clients, NEW cut, Decommissioned(c, cut) PROVE DirectivesInv'
  BY <1>3, ProfileGoes
<1>4. ASSUME NEW s \in sessions, NEW t \in Texts, NEW cut \in Cuts, Directive(s, t, cut)
      PROVE  DirectivesInv'
  <2>1. s[2] \in Uids
    BY DEF AccountInv, SessionsTyped
  <2> QED
    BY <1>4, <2>1, RemovesKeep, UserDirectivesKeep DEF Directive
<1>5. ASSUME NEW p \in judging, NEW cut \in Cuts, Judged(p[1], p[2], cut) PROVE DirectivesInv'
  <2>1. p[1] \in Uids /\ p[2] \in Texts
    BY PairFields DEF DirectivesInv, MarksTyped
  <2> QED
    BY <1>5, <2>1, UserDirectivesKeep DEF Judged
<1>6. CASE Kill \/ KeyFileMoves \/ UNCHANGED vars
  BY <1>1, <1>6 DEF Kill, KeyFileMoves, vars, dvars
<1>7. CASE \E n \in Names : RegisterViewer(n)
  BY <1>1, <1>7 DEF RegisterViewer
<1>8. ASSUME NEW c \in Clients,
             \/ \E n \in Names, v \in Values : Register(c, n, v)
             \/ \E ok \in BOOLEAN : Validated(c, ok)
             \/ \E ok \in BOOLEAN, cut \in {"none", "between"} : CredentialsValidated(c, ok, cut)
      PROVE  DirectivesInv'
  BY <1>1, <1>8 DEF Register, Validated, CredentialsValidated
<1>9. ASSUME NEW c \in Clients, NEW s \in sessions,
             \/ \E ak, secret \in Values \union {None} : Credentials(c, s, ak, secret)
             \/ DeleteAccount(c, s)
             \/ \E u \in Users : AdminMemberDelete(c, s, u)
      PROVE  DirectivesInv'
  BY <1>1, <1>9 DEF Credentials, DeleteAccount, AdminMemberDelete, Deletes
<1>10. CASE \E u \in Uids : Login(u) \/ RecoverPassword(u)
  BY <1>1, <1>10 DEF Login, RecoverPassword, SetsPassword
<1>11. ASSUME NEW s \in sessions,
              \/ LookupExpired(s) \/ Logout(s) \/ ChangePassword(s)
              \/ \E u \in Users : AdminMember(s, u)
       PROVE  DirectivesInv'
  BY <1>1, <1>11 DEF LookupExpired, Logout, ChangePassword, SetsPassword, AdminMember
<1> QED
  BY <1>2, <1>3, <1>4, <1>5, <1>6, <1>7, <1>8, <1>9, <1>10, <1>11 DEF Next

\* The lists and their marks agree, of every state the server and its files reach.
LEMMA DirectivesInvariance == Spec => []DirectivesInv
  <1>1. Init => DirectivesInv
    BY DirectivesStart DEF Init
  <1> QED
    BY <1>1, DirectivesStep, AccountInvariance, PTL DEF Spec

\* What a user removed, in a removal that was saved, stays off his list whatever is
\* added, dropped for room, seeded at a boot, cut by a death of the server or not
\* saved after it, while the marks' file is whole: what _tombstones is for.
THEOREM RemovedStays == Spec => []RemovedStaysRemoved
  <1>1. DirectivesInv => RemovedStaysRemoved
    BY DEF DirectivesInv, WithdrawnIsMarked, RemovedStaysRemoved
  <1> QED
    BY <1>1, DirectivesInvariance, PTL
=============================================================================
