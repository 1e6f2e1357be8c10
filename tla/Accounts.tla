------------------------------ MODULE Accounts ------------------------------
(***************************************************************************)
(* The users' rows, their sessions and the key that encrypts them, under   *)
(* requests that wait for the broker's answer or for a loop to stop        *)
(* between what they read and what they write, and under deaths and boots  *)
(* of the server.                                                          *)
(*                                                                         *)
(* The store is synchronous, so a request is one step up to its next       *)
(* await.  Of a user's credentials the two the broker validates are kept   *)
(* (the application's key and secret); what a client knows of a password   *)
(* is left open, since only who may set it matters here.                   *)
(***************************************************************************)
EXTENDS StandingDirectives, FiniteSets

CONSTANTS Clients,         \* requests in flight
          Names,           \* names
          Admin,           \* the one name of ADMIN_USERNAMES
          EnvName,         \* ARQUANT_BOOTSTRAP_USER
          Values,          \* an application's keys and secrets
          EnvValue,        \* those of the server's environment
          MaxRequests,     \* bound: requests that are served
          MaxKills,        \* bound: deaths of the server
          MaxKeys,         \* bound: Fernet keys ever generated
          None             \* no row, no key, nothing given

ASSUME AccountAssumption ==
  /\ {Admin, EnvName} \subseteq Names /\ EnvValue \in Values
  /\ Uids \subseteq Nat \ {0} /\ {MaxRequests, MaxKills} \subseteq Nat
  /\ MaxKeys \in Nat \ {0}
  /\ None \notin Names \union Values \union Nat

VARIABLES rows,            \* table users, by id
          lastUid,         \* its AUTOINCREMENT counter
          sessions,        \* table sessions: <<token, uid>>
          tokens,          \* tokens issued
          served,          \* requests of users
          file,            \* .fernet.key
          mem,             \* the key this process has loaded
          keys,            \* keys made so far: the highest is the last
          astray,          \* history: a key came from a failed count or a strange environment
          up,              \* the server runs
          kills,           \* its deaths
          seeded,          \* the user this process seeded from its environment
          req              \* what each client waits for

keyring == <<file, mem, keys, astray>>
avars == <<rows, lastUid, sessions, tokens, served, keyring, up, kills, seeded, req>>
vars == <<avars, dvars>>

Users == {u \in Uids : rows[u] # None}

Idle == [at |-> "idle"]

\* How a password is kept: hashed, or enciphered as older versions did.
Forms == {"hash", "enc"}

(***************************************************************************)
(* "idx" tells which of the keys recovery can look up.  Two fields are     *)
(* history: the pair the broker accepted last for the row, and whether two *)
(* changes of it were in flight together.                                  *)
(***************************************************************************)
Rows == [name : Names, form : Forms, ak : Values \union {None}, secret : Values \union {None},
         pair : Seq(Values \union {None}), crossed : BOOLEAN,
         idx : SUBSET {"ak", "secret"}, mode : {"trading", "viewer"}, admin : BOOLEAN,
         key : 1..MaxKeys]

ASSUME RowAssumption == None \notin Rows

TypeOK ==
  /\ rows \in [Uids -> Rows \union {None}]
  /\ sessions \subseteq (1..tokens) \X Uids
  /\ up \in BOOLEAN /\ tokens \in 0..served /\ served \in 0..MaxRequests

(***************************************************************************)
(* A database of an older version may stand there already, and its key may *)
(* have been lost.                                                         *)
(***************************************************************************)
Legacy(n) == [name |-> n, form |-> "enc", ak |-> EnvValue, secret |-> EnvValue, idx |-> {},
              pair |-> <<EnvValue, EnvValue>>, crossed |-> FALSE,
              mode |-> "trading", admin |-> TRUE, key |-> 1]

Init ==
  /\ DirectivesInit
  /\ \/ /\ rows = [u \in Uids |-> None] /\ lastUid = 0
        /\ file = None /\ keys = 0
     \/ /\ \E n \in Names : rows = [u \in Uids |-> IF u = 1 THEN Legacy(n) ELSE None]
        /\ lastUid = 1 /\ keys = 1 /\ file \in {1, None}
  /\ sessions = {} /\ tokens = 0 /\ served = 0
  /\ mem = None /\ astray = FALSE /\ up = FALSE /\ kills = 0 /\ seeded = None
  /\ req = [c \in Clients |-> Idle]

-----------------------------------------------------------------------------
(***************************************************************************)
(* The key: this process's, else the file's, else a new one, which is made *)
(* only while nobody's row could be under another.  A process may be given *)
(* its key by its environment.  The operator may lose the file, and put    *)
(* its backup back before a boot.                                          *)
(***************************************************************************)
\* Mutant: a missing file always means a new store.
MayGenerateAlways(blind) == TRUE

\* A count of the users that fails ("blind") is taken for zero.
MayGenerate(blind) == Users = {} \/ blind

Lost(m) == m = None /\ file = None

Ensured(m, blind) ==
  CASE m # None -> m
    [] m = None /\ file # None -> file
    [] Lost(m) -> IF MayGenerate(blind) /\ keys < MaxKeys THEN keys + 1 ELSE None

EnsureFernet(m) ==
  \E blind \in BOOLEAN :
    LET key == Ensured(m, blind)
    IN /\ key # None /\ (blind => Lost(m) /\ Users # {})
       /\ mem' = key
       /\ file' = IF m = None THEN key ELSE file
       /\ keys' = IF key > keys THEN key ELSE keys
       /\ astray' = (astray \/ blind \/ (m # None /\ keys > 0 /\ m # keys))

KeyFileMoves ==
  /\ \/ file # None /\ file' = None
     \/ file = None /\ ~up /\ keys > 0 /\ file' = keys
  /\ UNCHANGED <<rows, lastUid, sessions, tokens, served, mem, keys, astray, up, kills, seeded,
                 req, dvars>>

-----------------------------------------------------------------------------
(***************************************************************************)
(* Rows and sessions.                                                      *)
(***************************************************************************)
UsersNamed(n) == {u \in Users : rows[u].name = n}

\* A row of that name is overwritten and stays the administrator it was.
UidFor(n) == IF UsersNamed(n) # {} THEN CHOOSE u \in UsersNamed(n) : TRUE ELSE lastUid + 1

Changing(u) == {c \in Clients : req[c].at = "changing" /\ req[c].uid = u}

UpsertUser(n, ak, secret, mode, adm, key) ==
  LET u == UidFor(n)
  IN /\ u \in Uids
     /\ rows' = [rows EXCEPT ![u] =
                  [name |-> n, form |-> "hash", ak |-> ak, secret |-> secret,
                   pair |-> <<ak, secret>>, crossed |-> Changing(u) # {},
                   idx |-> {"ak", "secret"}, mode |-> mode, key |-> key,
                   admin |-> IF rows[u] # None THEN rows[u].admin ELSE adm \/ n = Admin]]
     /\ lastUid' = IF u > lastUid THEN u ELSE lastUid

CreateSession(u) ==
  /\ tokens' = tokens + 1
  /\ sessions' = sessions \union {<<tokens + 1, u>>}

\* What the middleware lets through.
Session(s) == up /\ s \in sessions

\* A session past its seven days opens nothing; who presents it loses it.
LookupExpired(s) ==
  /\ Session(s)
  /\ sessions' = sessions \ {s}
  /\ UNCHANGED <<rows, lastUid, tokens, served, keyring, up, kills, seeded, req, dvars>>

Serve == served < MaxRequests /\ served' = served + 1

\* A password opens its row; one kept the old way is deciphered, with the key of then.
Opens(row) == row.form = "hash" \/ row.key = mem'

Dying(cut) ==
  /\ up' = (cut = "none")
  /\ cut # "none" => kills < MaxKills
  /\ kills' = IF cut = "none" THEN kills ELSE kills + 1

Kill ==
  /\ up /\ Dying("between")
  /\ UNCHANGED <<rows, lastUid, sessions, tokens, served, keyring, seeded, req, dvars>>

-----------------------------------------------------------------------------
(***************************************************************************)
(* Boot, with a memory of its own: the administrators are set right, rows  *)
(* of older versions are migrated, an empty store is seeded from the       *)
(* environment, and the administrator's directive is seeded.  Without the  *)
(* key all but the first is given up.                                      *)
(***************************************************************************)
\* Mutant: the sweep promotes only.
SweptUp(row) == [row EXCEPT !.admin = @ \/ row.name = Admin]

Swept(row) == [row EXCEPT !.admin = (row.name = Admin)]

\* The indices are filled in when that of the application's key is missing.
Migrated(row, key) ==
  IF row.key # key THEN row
  ELSE [row EXCEPT !.form = "hash",
                   !.idx = IF "ak" \in row.idx THEN row.idx ELSE {"ak", "secret"}]

MigratedRows(key) ==
  [u \in Uids |-> IF u \in Users THEN Migrated(Swept(rows[u]), key) ELSE None]

BootstrapFromEnv(key) ==
  /\ Users = {}
  /\ UpsertUser(EnvName, EnvValue, EnvValue, "trading", TRUE, key)
  /\ seeded' = lastUid + 1

SeedAtBoot(cut) ==
  /\ judging' = {}
  /\ LET admins == {u \in Uids : rows'[u] # None /\ rows'[u].name = Admin}
     IN IF admins = {} THEN cut = "none" /\ UNCHANGED <<list, tombs, withdrawn>>
        ELSE \E u \in admins : SeedAdminDirective(u, cut)

\* "given": the key of the environment, if any.
AuthBootstrap(given, cut) ==
  /\ ~up /\ Dying(cut)
  /\ req' = [c \in Clients |-> Idle]
  /\ \/ /\ Ensured(given, FALSE) = None
        /\ rows' = [u \in Uids |-> IF u \in Users THEN Swept(rows[u]) ELSE None]
        /\ mem' = None /\ seeded' = None /\ judging' = {} /\ cut = "none"
        /\ UNCHANGED <<lastUid, file, keys, astray, list, tombs, withdrawn>>
     \/ /\ EnsureFernet(given)
        /\ \/ BootstrapFromEnv(mem')
           \/ /\ rows' = MigratedRows(mem')
              /\ seeded' = None /\ UNCHANGED lastUid
        /\ SeedAtBoot(cut)
  /\ UNCHANGED <<sessions, tokens, served>>

-----------------------------------------------------------------------------
(***************************************************************************)
(* Registering: the name is looked up, the broker validates, the row is    *)
(* written.  A spectator gives no keys and does not wait.                  *)
(***************************************************************************)
Registered(n, ak, secret, mode) ==
  /\ EnsureFernet(mem)
  /\ UpsertUser(n, ak, secret, mode, FALSE, mem')
  /\ CreateSession(UidFor(n))

RegisterViewer(n) ==
  /\ up /\ Serve /\ UsersNamed(n) = {}
  /\ Registered(n, None, None, "viewer")
  /\ UNCHANGED <<up, kills, seeded, req, dvars>>

Register(c, n, v) ==
  /\ up /\ Serve /\ req[c] = Idle /\ UsersNamed(n) = {}
  /\ req' = [req EXCEPT ![c] = [at |-> "registering", name |-> n, ak |-> v, secret |-> v]]
  /\ UNCHANGED <<rows, lastUid, sessions, tokens, keyring, up, kills,
                 seeded, dvars>>

Validated(c, ok) ==
  /\ up /\ req[c].at = "registering"
  /\ req' = [req EXCEPT ![c] = Idle]
  /\ \/ ok /\ Registered(req[c].name, req[c].ak, req[c].secret, "trading")
     \/ /\ ok => Ensured(mem, FALSE) = None
        /\ UNCHANGED <<rows, lastUid, sessions, tokens, keyring>>
  /\ UNCHANGED <<served, up, kills, seeded, dvars>>

\* A password kept the old way is promoted when it opens its row.
Login(u) ==
  /\ up /\ Serve /\ u \in Users /\ EnsureFernet(mem) /\ Opens(rows[u])
  /\ rows' = [rows EXCEPT ![u].form = "hash"]
  /\ CreateSession(u)
  /\ UNCHANGED <<lastUid, up, kills, seeded, req, dvars>>

Logout(s) ==
  /\ Session(s)
  /\ sessions' = sessions \ {s}
  /\ UNCHANGED <<rows, lastUid, tokens, served, keyring, up, kills, seeded, req, dvars>>

\* The sessions of before stay.
SetsPassword(u) ==
  /\ Serve /\ EnsureFernet(mem)
  /\ rows' = [rows EXCEPT ![u].form = "hash"]
  /\ UNCHANGED <<lastUid, sessions, tokens, up, kills, seeded, req, dvars>>

ChangePassword(s) == Session(s) /\ SetsPassword(s[2]) /\ Opens(rows[s[2]])

RecoverPassword(u) ==
  /\ up /\ u \in Users
  /\ "secret" \in rows[u].idx /\ rows[u].secret # None
  /\ SetsPassword(u) /\ rows[u].key = mem'

-----------------------------------------------------------------------------
(***************************************************************************)
(* Changing the keys: what is not given is taken from the row, the pair is *)
(* validated, and what was given is written to the row of then, if it is   *)
(* still there.  A spectator gives both and becomes a trader.              *)
(***************************************************************************)
Given(new, old) == IF new = None THEN old ELSE new

\* Mutant: a secret that comes alone is not validated.
ValidatesKeyOnly(ak, secret) == ak # None

Validates(ak, secret) == ak # None \/ secret # None

Credentials(c, s, ak, secret) ==
  LET row == rows[s[2]]
  IN /\ Session(s) /\ Serve /\ req[c] = Idle /\ EnsureFernet(mem)
     /\ {ak, secret} # {None}
     /\ row.mode = "viewer" => None \notin {ak, secret}
     /\ req' = [req EXCEPT ![c] =
                 [at |-> "changing", uid |-> s[2], ak |-> ak, secret |-> secret,
                  pair |-> <<Given(ak, row.ak), Given(secret, row.secret)>>,
                  upgrading |-> row.mode = "viewer"]]
     /\ UNCHANGED <<rows, lastUid, sessions, tokens, up, kills, seeded, dvars>>

\* The keys and the mode are two transactions.
UpdateCredentials(c, cut) ==
  LET r == req[c]
      u == r.uid
      given == {f \in {"ak", "secret"} : r[f] # None}
  IN rows' = IF u \notin Users THEN rows ELSE
       [rows EXCEPT ![u].ak = Given(r.ak, @), ![u].secret = Given(r.secret, @),
                    ![u].idx = @ \union given,
                    ![u].pair = IF Validates(r.ak, r.secret) THEN r.pair ELSE @,
                    ![u].crossed = @ \/ Changing(u) # {c},
                    ![u].mode = IF r.upgrading /\ cut = "none" THEN "trading" ELSE @]

CredentialsValidated(c, ok, cut) ==
  /\ up /\ req[c].at = "changing" /\ (cut = "none" \/ ok)
  /\ req' = [req EXCEPT ![c] = Idle]
  /\ IF ok THEN UpdateCredentials(c, cut) ELSE UNCHANGED rows
  /\ Dying(cut)
  /\ UNCHANGED <<lastUid, sessions, tokens, served, keyring, seeded, dvars>>

-----------------------------------------------------------------------------
(***************************************************************************)
(* Deleting: refused for an administrator; the loop is stopped first, then *)
(* the profile goes, then the sessions and the row in one transaction.     *)
(***************************************************************************)
Deletes(c, u) ==
  /\ Serve /\ req[c] = Idle /\ u \in Users /\ ~rows[u].admin
  /\ EnsureFernet(mem)
  /\ req' = [req EXCEPT ![c] = [at |-> "deleting", uid |-> u]]
  /\ UNCHANGED <<rows, lastUid, sessions, tokens, up, kills, seeded, dvars>>

DeleteAccount(c, s) == Session(s) /\ Deletes(c, s[2]) /\ Opens(rows[s[2]])

AdminMemberDelete(c, s, u) ==
  Session(s) /\ rows[s[2]].admin /\ u # s[2] /\ Deletes(c, u)

\* Rights are given to the one name only, and taken from every other.
AdminMember(s, u) ==
  /\ Session(s) /\ Serve /\ rows[s[2]].admin /\ u \in Users
  /\ rows' = [rows EXCEPT ![u].admin = (rows[u].name = Admin)]
  /\ UNCHANGED <<lastUid, sessions, tokens, keyring, up, kills, seeded, req, dvars>>

\* Mutant: the sessions are left to a cascade that is not switched on.
SessionsLeftBehind(u) == sessions

SessionsLeft(u) == {s \in sessions : s[2] # u}

Decommissioned(c, cut) ==
  LET u == req[c].uid
  IN /\ up /\ req[c].at = "deleting"
     /\ req' = [req EXCEPT ![c] = Idle]
     /\ list' = [list EXCEPT ![u] = <<>>]
     /\ IF cut = "none"
        THEN rows' = [rows EXCEPT ![u] = None] /\ sessions' = SessionsLeft(u)
        ELSE UNCHANGED <<rows, sessions>>
     /\ Dying(cut)
     /\ UNCHANGED <<lastUid, tokens, served, keyring, seeded,
                    tombs, judging, withdrawn>>

-----------------------------------------------------------------------------
(***************************************************************************)
(* The directives, for whom _require_trading lets through.                 *)
(***************************************************************************)
MayTrade(u) == rows[u].admin \/ rows[u].mode = "trading"

OnDirectives(cut) ==
  /\ Dying(cut)
  /\ UNCHANGED <<rows, lastUid, sessions, tokens, keyring, seeded, req>>

Directive(s, t, cut) ==
  /\ Session(s) /\ Serve /\ MayTrade(s[2])
  /\ \/ AppendDirective(s[2], t, cut)
     \/ RemoveDirective(s[2], t, cut)
     \/ cut = "none" /\ CeoDirective(s[2], t)
  /\ OnDirectives(cut)

Judged(u, t, cut) == up /\ AutoPersist(u, t, cut) /\ OnDirectives(cut) /\ UNCHANGED served

Next ==
  \/ \E given \in {None} \cup 1..MaxKeys, cut \in Cuts : AuthBootstrap(given, cut)
  \/ Kill \/ KeyFileMoves
  \/ \E n \in Names : RegisterViewer(n)
  \/ \E c \in Clients :
       \/ \E n \in Names, v \in Values : Register(c, n, v)
       \/ \E ok \in BOOLEAN : Validated(c, ok)
       \/ \E s \in sessions :
            \/ \E ak, secret \in Values \union {None} : Credentials(c, s, ak, secret)
            \/ DeleteAccount(c, s)
            \/ \E u \in Users : AdminMemberDelete(c, s, u)
       \/ \E ok \in BOOLEAN, cut \in {"none", "between"} : CredentialsValidated(c, ok, cut)
       \/ \E cut \in {"none", "between"} : Decommissioned(c, cut)
  \/ \E u \in Uids : Login(u) \/ RecoverPassword(u)
  \/ \E s \in sessions :
       \/ LookupExpired(s) \/ Logout(s) \/ ChangePassword(s)
       \/ \E u \in Users : AdminMember(s, u)
       \/ \E t \in Texts, cut \in Cuts : Directive(s, t, cut)
  \/ \E p \in judging, cut \in Cuts : Judged(p[1], p[2], cut)

Spec == Init /\ [][Next]_vars

-----------------------------------------------------------------------------
(***************************************************************************)
(* SessionsAreOfUsers: no session outlives the user it was opened for,     *)
(* however logins, registrations and deletions of him overlap or are cut.  *)
(***************************************************************************)
SessionsAreOfUsers == \A s \in sessions : s[2] \in Users

(***************************************************************************)
(* KeysWereValidated: the pair of keys a row holds is the one the broker   *)
(* accepted last for it, as a pair, unless two changes of it were in       *)
(* flight together: each is validated against the row as it was.           *)
(***************************************************************************)
KeysWereValidated ==
  \A u \in Users : ~rows[u].crossed => <<rows[u].ak, rows[u].secret>> = rows[u].pair

(***************************************************************************)
(* AdminIsSole: while the server runs nobody but the one administrator has *)
(* his rights, apart from the user this process seeded itself.             *)
(***************************************************************************)
AdminIsSole ==
  up => \A u \in Users : rows[u].admin => rows[u].name = Admin \/ u = seeded

(***************************************************************************)
(* RowsReadable: the key a process works with is that of every row, so     *)
(* that nobody's credentials are lost with a lost file - as long as no key *)
(* was made on a count of the users that failed, and no environment gave   *)
(* another key than the last.                                              *)
(***************************************************************************)
RowsReadable == ~astray /\ mem # None => \A u \in Users : rows[u].key = mem
=============================================================================
