------------------------------- MODULE Login -------------------------------
(***************************************************************************)
(* Login of one phone number, by code or by password, with the sessions it   *)
(* opens. Numbers share no key and no row, so one number is enough. Redis    *)
(* has the code, the throttle, two counters of attempts and the sessions;    *)
(* MySQL has the user row, unique by phone. A Lua script is one step, every  *)
(* other command and statement a step of its own, and a request may stop     *)
(* after each of them.                                                      *)
(***************************************************************************)
EXTENDS Integers

CONSTANTS
    Clients,     \* requests to log in, each with the token it gets
    MaxTries,    \* attempts a counter admits
    MaxCodes,    \* codes sent
    MaxInserts   \* ids tb_user hands out

\* What a value of the constants must satisfy.
ConstantsAssumption ==
    /\ MaxTries \in Nat \ {0} /\ MaxCodes \in Nat /\ MaxInserts \in Nat

Codes == 1..MaxCodes
UserIds == 1..MaxInserts
NoCode == 0
NoUser == 0

VARIABLES
    code,       \* login:code:<phone>
    sent,       \* codes sent so far
    throttle,   \* login:throttle:<phone> exists
    tries,      \* login:attempts:<phone>, which always has an expiry
    pwTries,    \* login:attempts:password:<phone>
    pwExpiry,   \* whether that key has an expiry
    row,        \* the user row of the phone
    lastId,     \* tb_user's AUTO_INCREMENT
    hasPassword,
    step,       \* where each request is
    user,       \* the user it found
    session,    \* login:token:<token>
    admitted,   \* history: logins each code admitted
    cut         \* history: the password's counter was left without its expiry

redisVars == <<code, sent, throttle, tries, pwTries, pwExpiry>>
mysqlVars == <<row, lastId, hasPassword>>
vars == <<code, sent, throttle, tries, pwTries, pwExpiry, row, lastId, hasPassword,
          step, user, session, admitted, cut>>

Steps == {"idle", "lookup", "insert", "reread", "expire", "compare", "forget", "save"}

TypeOK ==
    /\ code \in Codes \cup {NoCode} /\ sent \in 0..MaxCodes
    /\ throttle \in BOOLEAN
    /\ tries \in 0..(MaxTries + 1) /\ pwTries \in 0..(MaxTries + 1)
    /\ pwExpiry \in BOOLEAN
    /\ row \in UserIds \cup {NoUser} /\ lastId \in 0..MaxInserts
    /\ hasPassword \in BOOLEAN
    /\ step \in [Clients -> Steps]
    /\ user \in [Clients -> UserIds \cup {NoUser}]
    /\ session \in [Clients -> UserIds \cup {NoUser}]
    /\ admitted \in [Codes -> 0..3]
    /\ cut \in BOOLEAN

-----------------------------------------------------------------------------
(* Helpers *)

\* A counter counts up to the first attempt it refuses.
Counted(n) == IF n > MaxTries THEN n ELSE n + 1

Goes(c, s) == step' = [step EXCEPT ![c] = s]
Finds(c, id) == user' = [user EXCEPT ![c] = id] /\ Goes(c, "save")

-----------------------------------------------------------------------------
(* Codes *)

\* sendCodeScript: nothing while the throttle lasts.
SendCode ==
    /\ ~throttle /\ sent < MaxCodes
    /\ sent' = sent + 1 /\ code' = sent + 1 /\ throttle' = TRUE
    /\ UNCHANGED <<tries, pwTries, pwExpiry, mysqlVars, step, user, session, admitted, cut>>

\* verifyCodeScript deletes the code that was right.
Spent == NoCode

\* verifyCodeScript: the attempt counts first, a right code goes with its
\* counter. The answer may be lost: the request ends although the code is spent.
LoginByCode(c, k) ==
    /\ step[c] = "idle" /\ k <= sent
    /\ IF Counted(tries) <= MaxTries /\ code = k
       THEN /\ code' = Spent /\ tries' = 0
            /\ \/ /\ admitted[k] < 3
                  /\ admitted' = [admitted EXCEPT ![k] = @ + 1]
                  /\ Goes(c, "lookup")
               \/ UNCHANGED <<admitted, step>>
       ELSE /\ tries' = Counted(tries)
            /\ UNCHANGED <<code, admitted, step>>
    /\ UNCHANGED <<sent, throttle, pwTries, pwExpiry, mysqlVars, user, session, cut>>

\* FindOrCreateUser looks the phone up.
Lookup(c) ==
    /\ step[c] = "lookup"
    /\ IF row # NoUser THEN Finds(c, row) ELSE Goes(c, "insert") /\ UNCHANGED user
    /\ UNCHANGED <<redisVars, mysqlVars, session, admitted, cut>>

\* INSERT ... ON CONFLICT DO NOTHING uses up an id whether it inserts or not.
Insert(c) ==
    /\ step[c] = "insert" /\ lastId < MaxInserts
    /\ lastId' = lastId + 1
    /\ row' = IF row = NoUser THEN lastId + 1 ELSE row
    /\ Goes(c, "reread")
    /\ UNCHANGED <<redisVars, hasPassword, user, session, admitted, cut>>

\* Mutant of Reread: the struct that was inserted is returned.
RereadNot(c) ==
    /\ step[c] = "reread" /\ Finds(c, lastId)
    /\ UNCHANGED <<redisVars, mysqlVars, session, admitted, cut>>

\* The second UserByPhone: the row of the request that won.
Reread(c) ==
    /\ step[c] = "reread" /\ Finds(c, row)
    /\ UNCHANGED <<redisVars, mysqlVars, session, admitted, cut>>

-----------------------------------------------------------------------------
(* Password *)

\* Mutant of FirstAttempt: the expiry is left to the second attempt.
SecondAttempt(n) == n = 2

FirstAttempt(n) == n = 1

\* INCR of the password's counter: the first attempt sets its expiry, the one
\* after the last admitted is refused.
LoginByPassword(c) ==
    /\ step[c] = "idle"
    /\ pwTries' = Counted(pwTries)
    /\ IF FirstAttempt(pwTries') THEN Goes(c, "expire")
       ELSE IF pwTries' > MaxTries THEN UNCHANGED step ELSE Goes(c, "compare")
    /\ UNCHANGED <<code, sent, throttle, tries, pwExpiry, mysqlVars, user, session, admitted, cut>>

\* The answer of INCR is lost: the request fails, or the client library sends
\* the command again and sees the second count.
IncrLost(c) ==
    /\ step[c] = "idle"
    /\ \/ pwTries' = Counted(pwTries) /\ UNCHANGED step
       \/ /\ pwTries' = Counted(Counted(pwTries))
          /\ IF pwTries' > MaxTries THEN UNCHANGED step ELSE Goes(c, "compare")
    /\ cut' = (cut \/ pwTries = 0)
    /\ UNCHANGED <<code, sent, throttle, tries, pwExpiry, mysqlVars, user, session, admitted>>

\* EXPIRE of the counter, of no effect when a login removed it meanwhile.
Expire(c) ==
    /\ step[c] = "expire"
    /\ \/ pwExpiry' = (pwTries > 0) /\ Goes(c, "compare") /\ UNCHANGED cut
       \/ cut' = (cut \/ pwTries > 0) /\ Goes(c, "idle") /\ UNCHANGED pwExpiry
    /\ UNCHANGED <<code, sent, throttle, tries, pwTries, mysqlVars, user, session, admitted>>

\* UserByPhone and bcrypt: a right password goes on, any other is refused.
Compare(c) ==
    /\ step[c] = "compare"
    /\ \/ row # NoUser /\ hasPassword /\ Goes(c, "forget") /\ user' = [user EXCEPT ![c] = row]
       \/ Goes(c, "idle") /\ UNCHANGED user
    /\ UNCHANGED <<redisVars, mysqlVars, session, admitted, cut>>

\* DEL of the counter; an error ends the login, executed or not.
Forget(c) ==
    /\ step[c] = "forget"
    /\ \/ /\ pwTries' = 0 /\ pwExpiry' = FALSE /\ cut' = FALSE
          /\ step' \in {[step EXCEPT ![c] = "save"], [step EXCEPT ![c] = "idle"]}
       \/ Goes(c, "idle") /\ UNCHANGED <<pwTries, pwExpiry, cut>>
    /\ UNCHANGED <<code, sent, throttle, tries, mysqlVars, user, session, admitted>>

-----------------------------------------------------------------------------
(* Sessions *)

\* HSET and EXPIRE of the token in one transaction.
Save(c) ==
    /\ step[c] = "save"
    /\ session' = [session EXCEPT ![c] = user[c]]
    /\ Goes(c, "idle")
    /\ UNCHANGED <<redisVars, mysqlVars, user, admitted, cut>>

\* Logout deletes the token, SessionTTL without a request lets it expire.
EndSession(c) ==
    /\ session[c] # NoUser
    /\ session' = [session EXCEPT ![c] = NoUser]
    /\ UNCHANGED <<redisVars, mysqlVars, step, user, admitted, cut>>

\* SetPassword of the user the session names.
SetPassword(c) ==
    /\ session[c] # NoUser /\ ~hasPassword
    /\ hasPassword' = (session[c] = row)
    /\ UNCHANGED <<redisVars, row, lastId, step, user, session, admitted, cut>>

\* A statement or command fails, the client goes away, the process stops.
Stop(c) ==
    /\ step[c] # "idle"
    /\ cut' = (cut \/ (step[c] = "expire" /\ pwTries > 0))
    /\ Goes(c, "idle")
    /\ UNCHANGED <<redisVars, mysqlVars, user, session, admitted>>

\* Keys with an expiry go.
KeyExpires ==
    /\ \/ code # NoCode /\ code' = NoCode /\ UNCHANGED <<throttle, tries, pwTries, pwExpiry, cut>>
       \/ throttle /\ throttle' = FALSE /\ UNCHANGED <<code, tries, pwTries, pwExpiry, cut>>
       \/ tries > 0 /\ tries' = 0 /\ UNCHANGED <<code, throttle, pwTries, pwExpiry, cut>>
       \/ /\ pwExpiry /\ pwTries' = 0 /\ pwExpiry' = FALSE /\ cut' = FALSE
          /\ UNCHANGED <<code, throttle, tries>>
    /\ UNCHANGED <<sent, mysqlVars, step, user, session, admitted>>

-----------------------------------------------------------------------------

Init ==
    /\ code = NoCode /\ sent = 0 /\ throttle = FALSE
    /\ tries = 0 /\ pwTries = 0 /\ pwExpiry = FALSE
    /\ row = NoUser /\ lastId = 0 /\ hasPassword = FALSE
    /\ step = [c \in Clients |-> "idle"]
    /\ user = [c \in Clients |-> NoUser]
    /\ session = [c \in Clients |-> NoUser]
    /\ admitted = [k \in Codes |-> 0]
    /\ cut = FALSE

Next ==
    \/ SendCode \/ KeyExpires
    \/ \E c \in Clients :
          \/ \E k \in Codes : LoginByCode(c, k)
          \/ Lookup(c) \/ Insert(c) \/ Reread(c)
          \/ LoginByPassword(c) \/ IncrLost(c) \/ Expire(c) \/ Compare(c) \/ Forget(c)
          \/ Save(c) \/ EndSession(c) \/ SetPassword(c) \/ Stop(c)

Spec == Init /\ [][Next]_vars

-----------------------------------------------------------------------------
(* Properties *)

\* A code admits one login, and every login of the phone, however many first
\* ones race, gets a session of the one row MySQL has.
LoginsAgree ==
    /\ \A k \in Codes : admitted[k] <= 1
    /\ \A c \in Clients :
          /\ session[c] # NoUser => session[c] = row
          /\ step[c] = "save" => user[c] = row

\* The password's counter may stand without an expiry, which locks the phone
\* out for good once it is full, only while a request is about to set one, or
\* after a lost answer, a failed EXPIRE or a stop there since the counter was
\* last created: no order of INCR, EXPIRE and DEL of racing logins does it,
\* and a fault of an earlier counter does not last.
LockoutNeedsFault ==
    pwTries > 0 /\ ~pwExpiry => cut \/ \E c \in Clients : step[c] = "expire"

=============================================================================
