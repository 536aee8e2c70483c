--------------------------- MODULE AccountsProofs ---------------------------
(***************************************************************************)
(* Theorems about Accounts, for every set of names, passwords and callers. *)
(***************************************************************************)
EXTENDS Accounts, TLAPS

-----------------------------------------------------------------------------
(* Lemmas about the transactions of db.go                                  *)

(* InsertUser changes at most the account of its name, and only if there   *)
(* was none.                                                               *)
LEMMA InsertKeeps ==
    ASSUME TypeOK, NEW n \in Name, NEW w \in Word, InsertUser(n, w)
    PROVE  /\ users' \in [Name -> Word \cup {NoUser}]
           /\ \A m \in Name : Exists(m) => users'[m] = users[m]
           /\ \A m \in Name \ {n} : users'[m] = users[m]
           /\ users'[n] # users[n] => users'[n] = w
           /\ ~Exists(n) => users'[n] = w
BY DEF InsertUser, TypeOK, Exists

(* ChangePassword makes no account, and notes the password it replaces.    *)
LEMMA ChangeKeeps ==
    ASSUME TypeOK, NEW n \in Name, NEW w \in Word, ChangePassword(n, w)
    PROVE  /\ users' \in [Name -> Word \cup {NoUser}]
           /\ stale \subseteq stale' /\ stale' \subseteq Word
           /\ \A m \in Name : ~Exists(m) => users'[m] = NoUser
           /\ \A m \in Name : users'[m] = users[m] \/ (users[m] \in stale' /\ users'[m] = w)
BY DEF ChangePassword, TypeOK, Exists

(* DeleteUser makes no account, and notes the password that goes with it.  *)
LEMMA DeleteKeeps ==
    ASSUME TypeOK, NEW n \in Name, DeleteUser(n)
    PROVE  /\ users' \in [Name -> Word \cup {NoUser}]
           /\ stale \subseteq stale' /\ stale' \subseteq Word
           /\ deleted' \subseteq Name
           /\ \A m \in Name : users'[m] # users[m] =>
                users'[m] = NoUser /\ users[m] \in stale'
BY DEF DeleteUser, dbVars, TypeOK, Exists

(* What a handler does to its own call, whether it goes on or answers.     *)
LEMMA CallTypes ==
    ASSUME TypeOK, NEW c \in Caller, NEW n \in Name, NEW w \in Word
    PROVE  /\ NoCall \in Call
           /\ \A label \in {"issue", "welcome", "write"}, well \in BOOLEAN :
                Begin(c, n, w, well, label) => call' \in [Caller -> Call]
           /\ Return(c) => call' \in [Caller -> Call]
           /\ \A label \in {"address", "notice"} :
                Goto(c, label) => call' \in [Caller -> Call]
<1> NoCall \in Call
    BY AccountsAssumption DEF NoCall, Call, Word
<1> QED
    BY DEF Begin, Return, Goto, TypeOK, Call, Word

-----------------------------------------------------------------------------
(* Every handler's step keeps the types.                                   *)
LEMMA CallerTypes ==
    ASSUME TypeOK, NEW c \in Caller, CallerStep(c)
    PROVE  TypeOK'
<1> DEFINE name == call[c].name
           word == call[c].word
<1> name \in Name /\ word \in Word
    BY DEF TypeOK, Call
<1> USE DEF mainVars, dbVars
<1>1. CASE GenerateToken(c)
    BY <1>1, CallTypes DEF GenerateToken, TypeOK
<1>2. CASE SendWelcome(c)
    BY <1>2, CallTypes DEF SendWelcome, TypeOK
<1>3. CASE WritePassword(c)
    <2>1. call' \in [Caller -> Call]
        BY <1>3, CallTypes DEF WritePassword
    <2>2. /\ users' \in [Name -> Word \cup {NoUser}]
          /\ stale' \subseteq Word
        BY <1>3, ChangeKeeps DEF WritePassword
    <2> QED
        BY <1>3, <2>1, <2>2 DEF WritePassword, TypeOK
<1>4. CASE GetEmail(c)
    BY <1>4, CallTypes DEF GetEmail, TypeOK
<1>5. CASE SendNotice(c)
    BY <1>5, CallTypes DEF SendNotice, TypeOK
<1>6. ASSUME NEW n \in Name, NEW w \in Word, SignIn(c, n, w) PROVE TypeOK'
    <2>1. isAuthorized(n, w) \in BOOLEAN
        BY DEF isAuthorized
    <2> QED
        BY <1>6, <2>1, CallTypes DEF SignIn, TypeOK
<1>7. ASSUME NEW n \in Name, NEW w \in Random, SignUp(c, n, w) PROVE TypeOK'
    <2>1. w \in Word /\ (~Exists(n)) \in BOOLEAN
        BY DEF Word, Exists
    <2>2. call' \in [Caller -> Call]
        BY <1>7, <2>1, CallTypes DEF SignUp
    <2>3. users' \in [Name -> Word \cup {NoUser}]
        BY <1>7, <2>1, InsertKeeps DEF SignUp
    <2> QED
        BY <1>7, <2>2, <2>3 DEF SignUp, TypeOK
<1>8. ASSUME NEW n \in Name, NEW old \in Word, NEW new \in Chosen,
             CheckOldPassword(c, n, old, new)
      PROVE  TypeOK'
    <2>1. new \in Word /\ isAuthorized(n, old) \in BOOLEAN
        BY DEF Word, isAuthorized
    <2> QED
        BY <1>8, <2>1, CallTypes DEF CheckOldPassword, TypeOK
<1>9. ASSUME NEW n \in Name, Delete(c, n) PROVE TypeOK'
    BY <1>9, DeleteKeeps DEF Delete, TypeOK
<1> QED
    BY <1>1, <1>2, <1>3, <1>4, <1>5, <1>6, <1>7, <1>8, <1>9 DEF CallerStep

(* Every step keeps the types.                                             *)
LEMMA TypeStep == TypeOK /\ [Next]_vars => TypeOK'
<1> SUFFICES ASSUME TypeOK, [Next]_vars PROVE TypeOK'
    OBVIOUS
<1> USE DEF vars, mainVars, dbVars
<1>1. CASE CheckFile
    BY <1>1 DEF CheckFile, TypeOK
<1>2. CASE Connect
    BY <1>2 DEF Connect, TypeOK
<1>3. CASE AddDefaultUser
    <2>1. users' \in [Name -> Word \cup {NoUser}]
        BY <1>3, InsertKeeps, AccountsAssumption DEF AddDefaultUser, TypeOK, Word
    <2> QED
        BY <1>3, <2>1 DEF AddDefaultUser, TypeOK
<1>4. CASE Crash
    <2>1. NoCall \in Call
        BY AccountsAssumption DEF NoCall, Call, Word
    <2>2. crashes' \in 0 .. Crashes
        BY <1>4, AccountsAssumption DEF Crash, TypeOK
    <2> QED
        BY <1>4, <2>1, <2>2 DEF Crash, TypeOK
<1>5. ASSUME NEW n \in Name, ExpireToken(n) PROVE TypeOK'
    BY <1>5 DEF ExpireToken, TypeOK
<1> QED
    BY <1>1, <1>2, <1>3, <1>4, <1>5, CallerTypes DEF Next, TypeOK

-----------------------------------------------------------------------------
(* The default user is added at the first start only.                      *)
LEMMA StartStep == TypeOK /\ StartInv /\ [Next]_vars => StartInv'
<1> SUFFICES ASSUME TypeOK, StartInv, [Next]_vars PROVE StartInv'
    OBVIOUS
<1> USE DEF vars, mainVars, dbVars, StartInv, Unused
<1>1. CASE CheckFile
    BY <1>1 DEF CheckFile, Exists
<1>2. CASE Connect
    BY <1>2 DEF Connect, Exists
<1>3. CASE AddDefaultUser
    BY <1>3 DEF AddDefaultUser
<1>4. CASE Crash
    BY <1>4 DEF Crash, Exists
<1>5. ASSUME NEW n \in Name, ExpireToken(n) PROVE StartInv'
    BY <1>5 DEF ExpireToken, Exists
\* Only a sign-up makes an account, and only while the process serves.
<1>6. ASSUME NEW c \in Caller, CallerStep(c) PROVE StartInv'
    <2>1. UNCHANGED mainVars
        BY <1>6 DEF CallerStep, GenerateToken, SendWelcome, WritePassword, GetEmail,
                    SendNotice, SignIn, SignUp, CheckOldPassword, Delete
    <2>2. process = "serving" \/ (Unused => Unused')
        <3>1. CASE WritePassword(c)
            <4> call[c].name \in Name /\ call[c].word \in Word
                BY DEF TypeOK, Call
            <4> QED
                BY <3>1, ChangeKeeps, AccountsAssumption DEF WritePassword, Exists
        <3>2. CASE GenerateToken(c) \/ SendWelcome(c) \/ GetEmail(c) \/ SendNotice(c)
            BY <3>2 DEF GenerateToken, SendWelcome, GetEmail, SendNotice, Exists
        <3>3. ASSUME NEW n \in Name,
                     \/ \E w \in Word : SignIn(c, n, w)
                     \/ \E w \in Random : SignUp(c, n, w)
                     \/ \E old \in Word, new \in Chosen : CheckOldPassword(c, n, old, new)
                     \/ Delete(c, n)
              PROVE  process = "serving"
            BY <3>3 DEF SignIn, SignUp, CheckOldPassword, Delete, Begin, Ready
        <3> QED
            BY <1>6, <3>1, <3>2, <3>3 DEF CallerStep
    <2> QED
        BY <2>1, <2>2
<1> QED
    BY <1>1, <1>2, <1>3, <1>4, <1>5, <1>6 DEF Next, Exists

(* What a password was given for, it opens, or it is noted as stale.       *)
Opens(n, w) == users[n] = w \/ w \in stale

(* No step makes a password stop opening its account without noting it.    *)
LEMMA OpensStep ==
    ASSUME TypeOK, Next, NEW n \in Name, NEW w \in Word, Opens(n, w)
    PROVE  Opens(n, w)'
<1> USE DEF vars, mainVars, dbVars, Opens
<1>1. CASE UNCHANGED <<users, stale>>
    BY <1>1
\* The account of n exists if w opens it.
<1>2. CASE AddDefaultUser
    BY <1>2, InsertKeeps, AccountsAssumption DEF AddDefaultUser, Exists, Word
<1>3. ASSUME NEW c \in Caller, CallerStep(c) PROVE Opens(n, w)'
    <2>1. CASE WritePassword(c)
        <3> call[c].name \in Name /\ call[c].word \in Word
            BY DEF TypeOK, Call
        <3> QED
            BY <2>1, ChangeKeeps DEF WritePassword
    <2>2. ASSUME NEW m \in Name, NEW v \in Random, SignUp(c, m, v)
          PROVE  Opens(n, w)'
        <3> v \in Word
            BY DEF Word
        <3> QED
            BY <2>2, InsertKeeps, AccountsAssumption DEF SignUp, Exists
    <2>3. ASSUME NEW m \in Name, Delete(c, m) PROVE Opens(n, w)'
        BY <2>3, DeleteKeeps DEF Delete
    <2>4. CASE \/ GenerateToken(c) \/ SendWelcome(c) \/ GetEmail(c) \/ SendNotice(c)
               \/ \E m \in Name, v \in Word : SignIn(c, m, v)
               \/ \E m \in Name, old \in Word, new \in Chosen :
                    CheckOldPassword(c, m, old, new)
        BY <2>4, <1>1 DEF GenerateToken, SendWelcome, GetEmail, SendNotice, SignIn,
                          CheckOldPassword
    <2> QED
        BY <1>3, <2>1, <2>2, <2>3, <2>4 DEF CallerStep
<1>4. CASE \/ CheckFile \/ Connect \/ Crash \/ \E m \in Name : ExpireToken(m)
    BY <1>4, <1>1 DEF CheckFile, Connect, Crash, ExpireToken
<1> QED
    BY <1>2, <1>3, <1>4 DEF Next

(* A call stands at its mail because it stood there, or because it has     *)
(* just stored its password as that of a new account.                      *)
LEMMA WelcomeOrigin ==
    ASSUME TypeOK, Next, NEW c \in Caller, At(c, "welcome")'
    PROVE  \/ At(c, "welcome") /\ call'[c] = call[c]
           \/ users'[call'[c].name] = call'[c].word
<1>1. CASE UNCHANGED call
    BY <1>1 DEF At
<1>2. CASE Crash
    BY <1>2 DEF Crash, At, NoCall
<1>3. ASSUME NEW d \in Caller, CallerStep(d)
      PROVE  \/ At(c, "welcome") /\ call'[c] = call[c]
             \/ users'[call'[c].name] = call'[c].word
    <2>1. ASSUME NEW n \in Name, NEW w \in Random, SignUp(d, n, w)
          PROVE  \/ call'[c] = call[c]
                 \/ users'[call'[c].name] = call'[c].word
        <3>1. CASE Exists(n)
            BY <2>1, <3>1 DEF SignUp, Begin, Return, NoCall, At, TypeOK
        <3>2. CASE ~Exists(n)
            <4> w \in Word
                BY DEF Word
            <4>1. users'[n] = w
                BY <2>1, <3>2, InsertKeeps DEF SignUp
            <4>2. call' = [call EXCEPT ![d] = [pc |-> "welcome", name |-> n, word |-> w]]
                BY <2>1, <3>2 DEF SignUp, Begin
            <4> QED
                BY <4>1, <4>2 DEF TypeOK
        <3> QED
            BY <3>1, <3>2
    <2>2. CASE \/ GenerateToken(d) \/ SendWelcome(d) \/ SendNotice(d)
        BY <2>2 DEF GenerateToken, SendWelcome, SendNotice, Return, NoCall, At, TypeOK
    <2>3. CASE WritePassword(d) \/ GetEmail(d)
        BY <2>3 DEF WritePassword, GetEmail, Return, Goto, NoCall, At, TypeOK, Call
    <2>4. CASE \/ \E n \in Name, w \in Word : SignIn(d, n, w)
               \/ \E n \in Name, old \in Word, new \in Chosen :
                    CheckOldPassword(d, n, old, new)
        BY <2>4 DEF SignIn, CheckOldPassword, Begin, Return, NoCall, At, TypeOK
    <2>5. ASSUME NEW n \in Name, Delete(d, n) PROVE UNCHANGED call
        BY <2>5 DEF Delete
    <2> QED
        BY <1>3, <2>1, <2>2, <2>3, <2>4, <2>5 DEF CallerStep, At
<1>4. CASE \/ CheckFile \/ Connect \/ AddDefaultUser \/ \E n \in Name : ExpireToken(n)
    BY <1>1, <1>4 DEF CheckFile, Connect, AddDefaultUser, ExpireToken
<1> QED
    BY <1>2, <1>3, <1>4 DEF Next

(* Only a call that stands at its mail mails anything.                     *)
LEMMA MailOrigin ==
    ASSUME TypeOK, Next, NEW m \in mailed'
    PROVE  \/ m \in mailed
           \/ \E c \in Caller : At(c, "welcome") /\ m = <<call[c].name, call[c].word>>
BY DEF Next, CheckFile, Connect, AddDefaultUser, Crash, ExpireToken, CallerStep,
       GenerateToken, SendWelcome, WritePassword, GetEmail, SendNotice, SignIn,
       SignUp, CheckOldPassword, Delete, dbVars, mainVars

(* A password that is mailed, or about to be, opens its account or is      *)
(* noted as stale.                                                         *)
LEMMA WelcomeStep == TypeOK /\ WelcomeInv /\ [Next]_vars => WelcomeInv'
<1> SUFFICES ASSUME TypeOK, WelcomeInv, [Next]_vars PROVE WelcomeInv'
    OBVIOUS
<1>1. CASE UNCHANGED vars
    BY <1>1 DEF vars, dbVars, WelcomeInv, WelcomeIsTrue, At
<1>2. CASE Next
    <2>1. ASSUME NEW m \in mailed'
          PROVE  Opens(m[1], m[2])'
        <3>1. CASE m \in mailed
            <4>1. m[1] \in Name /\ m[2] \in Word
                BY <3>1 DEF TypeOK
            <4>2. Opens(m[1], m[2])
                BY <3>1 DEF WelcomeInv, WelcomeIsTrue, Opens
            <4> QED
                BY <1>2, <4>1, <4>2, OpensStep
        <3>2. ASSUME NEW c \in Caller, At(c, "welcome"),
                     m = <<call[c].name, call[c].word>>
              PROVE  Opens(m[1], m[2])'
            <4>1. m[1] \in Name /\ m[2] \in Word
                BY <3>2 DEF TypeOK, Call
            <4>2. Opens(m[1], m[2])
                BY <3>2 DEF WelcomeInv, Opens
            <4> QED
                BY <1>2, <4>1, <4>2, OpensStep
        <3> QED
            BY <1>2, <3>1, <3>2, MailOrigin
    <2>2. ASSUME NEW c \in Caller, At(c, "welcome")'
          PROVE  Opens(call[c].name, call[c].word)'
        <3>1. CASE At(c, "welcome") /\ call'[c] = call[c]
            <4> DEFINE name == call[c].name
                       word == call[c].word
            <4>1. name \in Name /\ word \in Word
                BY DEF TypeOK, Call
            <4>2. Opens(name, word)
                BY <3>1 DEF WelcomeInv, Opens
            <4>3. users'[name] = word \/ word \in stale'
                BY <1>2, <4>1, <4>2, OpensStep DEF Opens
            <4> QED
                BY <3>1, <4>3 DEF Opens
        <3>2. CASE users'[call'[c].name] = call'[c].word
            BY <3>2 DEF Opens
        <3> QED
            BY <1>2, <2>2, <3>1, <3>2, WelcomeOrigin
    <2> QED
        BY <2>1, <2>2 DEF WelcomeInv, WelcomeIsTrue, Opens
<1> QED
    BY <1>1, <1>2

(* No call gets to write a password but one whose user has chosen it.      *)
LEMMA ChangeStep == TypeOK /\ ChangeInv /\ [Next]_vars => ChangeInv'
<1> SUFFICES ASSUME TypeOK, ChangeInv, [Next]_vars, NEW c \in Caller, At(c, "write")'
             PROVE  call'[c].word \in Chosen
    BY DEF ChangeInv
<1>1. CASE UNCHANGED call
    BY <1>1 DEF ChangeInv, At
<1>2. CASE Crash
    BY <1>2 DEF Crash, At, NoCall
<1>3. ASSUME NEW d \in Caller, CallerStep(d) PROVE call'[c].word \in Chosen
    <2>1. ASSUME NEW n \in Name, NEW old \in Word, NEW new \in Chosen,
                 CheckOldPassword(d, n, old, new)
          PROVE  call'[c].word \in Chosen
        BY <2>1 DEF CheckOldPassword, Begin, Return, NoCall, At, TypeOK, ChangeInv
    <2>2. CASE \/ \E n \in Name, w \in Word : SignIn(d, n, w)
               \/ \E n \in Name, w \in Random : SignUp(d, n, w)
        BY <2>2 DEF SignIn, SignUp, Begin, Return, NoCall, At, TypeOK, ChangeInv
    <2>3. CASE \/ GenerateToken(d) \/ SendWelcome(d) \/ SendNotice(d)
        BY <2>3 DEF GenerateToken, SendWelcome, SendNotice, Return, NoCall, At, TypeOK,
                    ChangeInv
    <2>4. CASE WritePassword(d) \/ GetEmail(d)
        BY <2>4 DEF WritePassword, GetEmail, Return, Goto, NoCall, At, TypeOK, Call,
                    ChangeInv
    <2>5. ASSUME NEW n \in Name, Delete(d, n) PROVE UNCHANGED call
        BY <2>5 DEF Delete
    <2> QED
        BY <1>1, <1>3, <2>1, <2>2, <2>3, <2>4, <2>5 DEF CallerStep
<1>4. CASE \/ CheckFile \/ Connect \/ AddDefaultUser \/ \E n \in Name : ExpireToken(n)
    BY <1>1, <1>4 DEF CheckFile, Connect, AddDefaultUser, ExpireToken
<1> QED
    BY <1>1, <1>2, <1>3, <1>4 DEF Next, vars

-----------------------------------------------------------------------------
(* The inductive invariant: types, what a start finds, what a mail says.   *)
THEOREM Invariance == Spec => []IInv
<1>1. Init => IInv
    <2> SUFFICES ASSUME Init PROVE IInv
        OBVIOUS
    <2>1. NoCall \in Call
        BY AccountsAssumption DEF NoCall, Call, Word
    <2>2. TypeOK
        <3>1. crashes \in 0 .. Crashes
            BY AccountsAssumption DEF Init
        <3>2. users \in [Name -> Word \cup {NoUser}] /\ call \in [Caller -> Call]
            BY <2>1 DEF Init
        <3> QED
            BY <3>1, <3>2 DEF Init, TypeOK
    <2>3. StartInv
        BY AccountsAssumption DEF Init, StartInv, Unused, Exists
    <2>4. WelcomeInv
        BY DEF Init, WelcomeInv, WelcomeIsTrue, NoCall, At
    <2>5. ChangeInv
        BY DEF Init, ChangeInv, NoCall, At
    <2> QED
        BY <2>2, <2>3, <2>4, <2>5 DEF IInv
<1>2. IInv /\ [Next]_vars => IInv'
    BY TypeStep, StartStep, WelcomeStep, ChangeStep DEF IInv
<1> QED
    BY <1>1, <1>2, PTL DEF Spec

(* A restart is never fatal over the default user, however the starts      *)
(* before it ended (main.go:195).                                          *)
THEOREM RestartNeverRefused == Spec => []StartNeverRefused
<1>1. IInv => StartNeverRefused
    BY DEF IInv, StartInv, StartNeverRefused, Unused
<1> QED
    BY <1>1, Invariance, PTL

(* A mailed password opens its account until it is changed or deleted, for *)
(* any number of sign-ups of one name at once (SignUp, InsertUser).        *)
THEOREM WelcomeAlwaysTrue == Spec => []WelcomeIsTrue
<1>1. IInv => WelcomeIsTrue
    BY DEF IInv, WelcomeInv
<1> QED
    BY <1>1, Invariance, PTL

(* Only a sign-up brings a deleted account back, whatever changes of its   *)
(* password and restarts are under way (DeleteUser, ChangePassword).       *)
THEOREM DeletedStaysDeleted == Spec => DeletionSticks
<1> DEFINE Sticks(n) == users[n] = NoUser /\ users'[n] # NoUser => users'[n] \in made' \ made
<1>1. ASSUME IInv, [Next]_vars, NEW n \in deleted PROVE Sticks(n)
    <2> TypeOK /\ StartInv /\ n \in Name
        BY <1>1 DEF IInv, TypeOK
    <2>1. CASE UNCHANGED users
        BY <2>1
    <2>2. CASE AddDefaultUser
        <3>1. ~adding
            BY <2>2 DEF AddDefaultUser, StartInv, Unused
        <3> QED
            BY <2>1, <2>2, <3>1 DEF AddDefaultUser
    <2>3. ASSUME NEW c \in Caller, CallerStep(c) PROVE Sticks(n)
        <3>1. ASSUME NEW m \in Name, NEW w \in Random, SignUp(c, m, w) PROVE Sticks(n)
            <4>1. w \in Word /\ w \in made' \ made
                BY <3>1 DEF SignUp, Word
            <4>2. users'[n] = users[n] \/ users'[n] = w
                BY <3>1, <4>1, InsertKeeps DEF SignUp
            <4> QED
                BY <4>1, <4>2
        <3>2. CASE WritePassword(c)
            <4> call[c].name \in Name /\ call[c].word \in Word
                BY DEF TypeOK, Call
            <4> QED
                BY <3>2, ChangeKeeps DEF WritePassword, Exists
        <3>3. ASSUME NEW m \in Name, Delete(c, m) PROVE Sticks(n)
            BY <3>3, DeleteKeeps DEF Delete
        <3>4. CASE \/ GenerateToken(c) \/ SendWelcome(c) \/ GetEmail(c) \/ SendNotice(c)
                   \/ \E m \in Name, v \in Word : SignIn(c, m, v)
                   \/ \E m \in Name, old \in Word, new \in Chosen :
                        CheckOldPassword(c, m, old, new)
            BY <2>1, <3>4 DEF GenerateToken, SendWelcome, GetEmail, SendNotice, SignIn,
                              CheckOldPassword, dbVars
        <3> QED
            BY <2>3, <3>1, <3>2, <3>3, <3>4 DEF CallerStep
    <2>4. CASE \/ CheckFile \/ Connect \/ Crash \/ UNCHANGED vars
               \/ \E m \in Name : ExpireToken(m)
        BY <2>1, <2>4 DEF CheckFile, Connect, Crash, ExpireToken, vars, dbVars
    <2> QED
        BY <1>1, <2>2, <2>3, <2>4 DEF Next
<1>2. IInv /\ [Next]_vars => [\A n \in deleted : Sticks(n)]_vars
    BY <1>1
<1> QED
    BY <1>2, Invariance, PTL DEF Spec, DeletionSticks

(* No step puts an account out of everybody's reach: not a sign-up of its  *)
(* name, not a change whose old password is stale by now, not a crash.     *)
THEOREM NeverOutOfReach == Spec => StaysWithinReach
<1> DEFINE Stays(n) == users[n] \in Known /\ users'[n] # NoUser => users'[n] \in Known'
<1>1. ASSUME IInv, [Next]_vars, NEW n \in Name PROVE Stays(n)
    <2> TypeOK /\ ChangeInv
        BY <1>1 DEF IInv
    <2>1. Known \subseteq Known'
        <3>1. mailed \subseteq mailed'
            BY <1>1 DEF Next, CheckFile, Connect, AddDefaultUser, Crash, ExpireToken,
                        CallerStep, GenerateToken, SendWelcome, WritePassword, GetEmail,
                        SendNotice, SignIn, SignUp, CheckOldPassword, Delete, vars
        <3> QED
            BY <3>1 DEF Known
    <2>2. users[n] \in Known => Exists(n)
        BY AccountsAssumption DEF Known, Exists, Word, TypeOK
    <2>3. CASE UNCHANGED users
        BY <2>1, <2>3
    <2>4. CASE AddDefaultUser
        BY <2>1, <2>2, <2>4, InsertKeeps, AccountsAssumption
           DEF AddDefaultUser, Word
    <2>5. ASSUME NEW c \in Caller, CallerStep(c) PROVE Stays(n)
        <3>1. ASSUME NEW m \in Name, NEW w \in Random, SignUp(c, m, w) PROVE Stays(n)
            <4>1. w \in Word
                BY DEF Word
            <4> QED
                BY <2>1, <2>2, <3>1, <4>1, InsertKeeps DEF SignUp
        <3>2. CASE WritePassword(c)
            <4>1. call[c].name \in Name /\ call[c].word \in Word
                BY DEF TypeOK, Call
            <4>2. call[c].word \in Known
                BY <3>2 DEF WritePassword, ChangeInv, Known
            <4> QED
                BY <2>1, <3>2, <4>1, <4>2, ChangeKeeps DEF WritePassword
        <3>3. ASSUME NEW m \in Name, Delete(c, m) PROVE Stays(n)
            BY <2>1, <3>3, DeleteKeeps DEF Delete
        <3>4. CASE \/ GenerateToken(c) \/ SendWelcome(c) \/ GetEmail(c) \/ SendNotice(c)
                   \/ \E m \in Name, v \in Word : SignIn(c, m, v)
                   \/ \E m \in Name, old \in Word, new \in Chosen :
                        CheckOldPassword(c, m, old, new)
            BY <2>3, <3>4 DEF GenerateToken, SendWelcome, GetEmail, SendNotice, SignIn,
                              CheckOldPassword, dbVars
        <3> QED
            BY <2>5, <3>1, <3>2, <3>3, <3>4 DEF CallerStep
    <2>6. CASE \/ CheckFile \/ Connect \/ Crash \/ UNCHANGED vars
               \/ \E m \in Name : ExpireToken(m)
        BY <2>3, <2>6 DEF CheckFile, Connect, Crash, ExpireToken, vars, dbVars
    <2> QED
        BY <1>1, <2>4, <2>5, <2>6 DEF Next
<1>2. IInv /\ [Next]_vars => [\A n \in Name : Stays(n)]_vars
    BY <1>1
<1> QED
    BY <1>2, Invariance, PTL DEF Spec, StaysWithinReach
=============================================================================
