------------------------------ MODULE Accounts ------------------------------
(***************************************************************************)
(* The administrators' accounts: auth/auth.go over the bolt database of    *)
(* db/db.go, the mails of email/email.go, and the part of main.go that     *)
(* opens the database and adds the default user.                           *)
(*                                                                         *)
(* A call is a goroutine.  Each function of db.go is one transaction and   *)
(* so one step; the process may die between any two.  An account is the    *)
(* password that opens it: salt and hash are written together.             *)
(***************************************************************************)
EXTENDS Naturals

CONSTANTS
    Name,          \* usernames
    Admin,         \* defaultUser
    DefaultWord,   \* defaultPassword
    Random,        \* what generateRandomPassword returns, each value once
    Chosen,        \* what a user may change to: at most 25 characters, and so
                   \* neither defaultPassword nor a generated one
    NoUser,        \* there is no bucket of this name
    Caller,        \* goroutines of the handlers
    Crashes        \* bound: how often the process dies

Word == {DefaultWord} \cup Random \cup Chosen

ASSUME AccountsAssumption ==
    /\ Admin \in Name
    /\ NoUser \notin Word
    /\ DefaultWord \notin Random \cup Chosen
    /\ Random \cap Chosen = {}
    /\ Crashes \in Nat

VARIABLES
    process,   \* how far main has come
    file,      \* whether the file of the users database exists
    adding,    \* addDefaultUser
    users,     \* the database: the password of each account
    call,      \* each goroutine's call
    tokens,    \* the names with a token that has not expired
    mailed,    \* the passwords that were mailed, and for which name
    made,      \* history: the passwords generated so far
    stale,     \* history: passwords that were changed or deleted with the account
    deleted,   \* history: the names an account of which was deleted
    crashes    \* history: how often the process has died

dbVars == <<users, stale, deleted>>
mainVars == <<process, file, adding, crashes>>
vars == <<mainVars, dbVars, call, tokens, mailed, made>>

Call == [pc : {"idle", "issue", "welcome", "write", "address", "notice"},
         name : Name, word : Word]

TypeOK ==
    /\ process \in {"down", "checked", "connected", "serving"}
    /\ file \in BOOLEAN
    /\ adding \in BOOLEAN
    /\ users \in [Name -> Word \cup {NoUser}]
    /\ call \in [Caller -> Call]
    /\ tokens \subseteq Name
    /\ mailed \subseteq Name \X Word
    /\ made \subseteq Random
    /\ stale \subseteq Word
    /\ deleted \subseteq Name
    /\ crashes \in 0 .. Crashes

NoCall == [pc |-> "idle", name |-> Admin, word |-> DefaultWord]

Init ==
    /\ process = "down"
    /\ file = FALSE
    /\ adding = FALSE
    /\ users = [n \in Name |-> NoUser]
    /\ call = [c \in Caller |-> NoCall]
    /\ tokens = {}
    /\ mailed = {}
    /\ made = {}
    /\ stale = {}
    /\ deleted = {}
    /\ crashes = 0

Exists(n) == users[n] # NoUser

\* The passwords somebody can type: in the source, of one's own choice, mailed
Known == {DefaultWord} \cup Chosen \cup {m[2] : m \in mailed}

At(c, label) == call[c].pc = label

Goto(c, label) == call' = [call EXCEPT ![c].pc = label]

\* c answers, with whatever status, and is free for another call.
Return(c) == call' = [call EXCEPT ![c] = NoCall]

Ready(c) == process = "serving" /\ At(c, "idle")

\* c begins a call about the account of n and, if all is well, gets to label.
Begin(c, n, w, well, label) ==
    /\ Ready(c)
    /\ IF well
       THEN call' = [call EXCEPT ![c] = [pc |-> label, name |-> n, word |-> w]]
       ELSE Return(c)

-----------------------------------------------------------------------------
(* db.go                                                                   *)

\* Faulty variant: CreateBucketIfNotExists, so an account is overwritten.
InsertOrReplace(n, w) == users' = [users EXCEPT ![n] = w]

\* InsertUser: CreateBucket changes nothing if the bucket exists.
InsertUser(n, w) ==
    users' = IF Exists(n) THEN users ELSE [users EXCEPT ![n] = w]

\* Faulty variant: CreateBucketIfNotExists, so an account comes back.
PutPassword(n, w) ==
    /\ users' = [users EXCEPT ![n] = w]
    /\ stale' = stale \cup ({users[n]} \ {NoUser})

ChangePassword(n, w) ==
    IF Exists(n)
    THEN /\ users' = [users EXCEPT ![n] = w]
         /\ stale' = stale \cup {users[n]}
    ELSE UNCHANGED <<users, stale>>

DeleteUser(n) ==
    IF Exists(n)
    THEN /\ users' = [users EXCEPT ![n] = NoUser]
         /\ stale' = stale \cup {users[n]}
         /\ deleted' = deleted \cup {n}
    ELSE UNCHANGED dbVars

-----------------------------------------------------------------------------
(* The handlers.  All but SignIn are called with a token, of anybody; a    *)
(* token is checked by its signature alone (AuthenticationMiddleware).     *)

isAuthorized(n, w) == users[n] = w

SignIn(c, n, w) ==
    /\ w \in Known
    /\ Begin(c, n, w, isAuthorized(n, w), "issue")
    /\ UNCHANGED <<mainVars, dbVars, tokens, mailed, made>>

GenerateToken(c) ==
    /\ At(c, "issue")
    /\ tokens' = tokens \cup {call[c].name}
    /\ Return(c)
    /\ UNCHANGED <<mainVars, dbVars, mailed, made>>

\* 20 minutes have passed since n last signed in.
ExpireToken(n) ==
    /\ n \in tokens
    /\ tokens' = tokens \ {n}
    /\ UNCHANGED <<mainVars, dbVars, call, mailed, made>>

SignUp(c, n, w) ==
    /\ tokens # {}
    /\ w \notin made
    /\ made' = made \cup {w}
    /\ InsertUser(n, w)
    /\ Begin(c, n, w, ~Exists(n), "welcome")
    /\ UNCHANGED <<mainVars, stale, deleted, tokens, mailed>>

\* SendSignUpEmail may fail, which the handler only reports.
SendWelcome(c) ==
    /\ At(c, "welcome")
    /\ \/ mailed' = mailed \cup {<<call[c].name, call[c].word>>}
       \/ UNCHANGED mailed
    /\ Return(c)
    /\ UNCHANGED <<mainVars, dbVars, tokens, made>>

\* The handler ChangePassword as far as the check of the old password
CheckOldPassword(c, n, old, new) ==
    /\ n \in tokens
    /\ old \in Known
    /\ Begin(c, n, new, isAuthorized(n, old), "write")
    /\ UNCHANGED <<mainVars, dbVars, tokens, mailed, made>>

WritePassword(c) ==
    /\ At(c, "write")
    /\ ChangePassword(call[c].name, call[c].word)
    /\ IF Exists(call[c].name) THEN Goto(c, "address") ELSE Return(c)
    /\ UNCHANGED <<mainVars, deleted, tokens, mailed, made>>

GetEmail(c) ==
    /\ At(c, "address")
    /\ IF Exists(call[c].name) THEN Goto(c, "notice") ELSE Return(c)
    /\ UNCHANGED <<mainVars, dbVars, tokens, mailed, made>>

SendNotice(c) ==
    /\ At(c, "notice")
    /\ Return(c)
    /\ UNCHANGED <<mainVars, dbVars, tokens, mailed, made>>

Delete(c, n) ==
    /\ tokens # {}
    /\ Ready(c)
    /\ DeleteUser(n)
    /\ UNCHANGED <<mainVars, call, tokens, mailed, made>>

CallerStep(c) ==
    \/ GenerateToken(c) \/ SendWelcome(c)
    \/ WritePassword(c) \/ GetEmail(c) \/ SendNotice(c)
    \/ \E n \in Name :
         \/ \E w \in Word : SignIn(c, n, w)
         \/ \E w \in Random : SignUp(c, n, w)
         \/ \E old \in Word, new \in Chosen : CheckOldPassword(c, n, old, new)
         \/ Delete(c, n)

-----------------------------------------------------------------------------
(* main.go                                                                 *)

\* Faulty variant: the default user is added at every start.
AlwaysAdd ==
    /\ process = "down"
    /\ process' = "checked"
    /\ adding' = TRUE
    /\ UNCHANGED <<file, dbVars, call, tokens, mailed, made, crashes>>

CheckFile ==
    /\ process = "down"
    /\ process' = "checked"
    /\ adding' = ~file
    /\ UNCHANGED <<file, dbVars, call, tokens, mailed, made, crashes>>

\* bolt.Open creates the file.
Connect ==
    /\ process = "checked"
    /\ process' = "connected"
    /\ file' = TRUE
    /\ UNCHANGED <<adding, dbVars, call, tokens, mailed, made, crashes>>

\* SignUpDefaultUser if it is to be added, fatal if that fails; then Serve
AddDefaultUser ==
    /\ process = "connected"
    /\ ~adding \/ ~Exists(Admin)
    /\ process' = "serving"
    /\ IF adding THEN InsertUser(Admin, DefaultWord) ELSE UNCHANGED users
    /\ UNCHANGED <<file, adding, stale, deleted, call, tokens, mailed, made, crashes>>

\* The process is killed, or stopped by logger.Fatal over a setting missing.
Crash ==
    /\ process # "down"
    /\ crashes < Crashes
    /\ crashes' = crashes + 1
    /\ process' = "down"
    /\ call' = [c \in Caller |-> NoCall]
    /\ UNCHANGED <<file, adding, dbVars, tokens, mailed, made>>

Next ==
    \/ CheckFile \/ Connect \/ AddDefaultUser \/ Crash
    \/ \E c \in Caller : CallerStep(c)
    \/ \E n \in Name : ExpireToken(n)

Spec == Init /\ [][Next]_vars

-----------------------------------------------------------------------------
(* A start that finds the default user to be added can add it, however the *)
(* starts before it ended, so a restart is never fatal (main.go:195).      *)
StartNeverRefused ==
    adding /\ process \in {"checked", "connected"} => ~Exists(Admin)

(* A mailed password opens the account it was mailed for, unless the       *)
(* password was changed or the account deleted since: of sign-ups of one   *)
(* name that run together only one gets as far as its mail (SignUp).       *)
WelcomeIsTrue ==
    \A m \in mailed : users[m[1]] = m[2] \/ m[2] \in stale

(* What carries these properties through every step: a start that finds    *)
(* the default user to be added finds a database nobody has used, a        *)
(* password is true already when its mail is about to be sent, and one     *)
(* about to be written is its user's own choice.                           *)
Unused == ~Exists(Admin) /\ deleted = {}

StartInv ==
    /\ ~file => process \in {"down", "checked"} /\ Unused
    /\ adding /\ process \in {"checked", "connected"} => Unused

WelcomeInv ==
    /\ WelcomeIsTrue
    /\ \A c \in Caller : At(c, "welcome") =>
         users[call[c].name] = call[c].word \/ call[c].word \in stale

ChangeInv == \A c \in Caller : At(c, "write") => call[c].word \in Chosen

IInv == TypeOK /\ StartInv /\ WelcomeInv /\ ChangeInv

(* An account whose password somebody knows stays within reach until it is *)
(* deleted, whatever sign-ups, changes, lost mails and restarts there are. *)
StaysWithinReach ==
    [][\A n \in Name :
         users[n] \in Known /\ users'[n] # NoUser => users'[n] \in Known']_vars

(* A deleted account does not come back by a change of its password that   *)
(* was under way, or by a restart: only a sign-up makes one (DeleteUser).  *)
DeletionSticks ==
    [][\A n \in deleted :
         users[n] = NoUser /\ users'[n] # NoUser => users'[n] \in made' \ made]_vars

(* main.go:195: if the users database doesn't exist, it is created and the *)
(* admin user is added; so a balancer that serves has one until deleted.   *)
FirstStartAddsAdmin == process = "serving" => Exists(Admin) \/ Admin \in deleted
=============================================================================
