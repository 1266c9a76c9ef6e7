---------------------------- MODULE PracticeUser ----------------------------
(***************************************************************************)
(* The accounts of the practice server re-go-dianping. Its login by code is  *)
(* the protocol of Login under other keys, without a login by password; a    *)
(* user who is logged in edits the profile. An edit looks for the user and   *)
(* then writes the submitted columns in one statement, which makes the       *)
(* profile's row when there is none.                                        *)
(***************************************************************************)
EXTENDS Login

CONSTANTS
    Fields,     \* columns of tb_user_info a user may submit
    MaxEdits,
    None

\* What a value of the added constants must satisfy.
EditsAssumption ==
    /\ MaxEdits \in Nat
    /\ "name" \notin Fields
    /\ None \notin [Fields -> Nat]

VARIABLES
    name,      \* tb_user.nick_name, as the number of the edit that wrote it
    profile,   \* the row of tb_user_info
    edit,      \* what each request will write
    edits,
    last       \* history: the last edit of each column

accountVars == <<name, profile, edit, edits, last>>
allVars == <<code, sent, throttle, tries, pwTries, pwExpiry, row, lastId, hasPassword,
             step, user, session, admitted, cut, name, profile, edit, edits, last>>

Columns == Fields \cup {"name"}
NoEdit == [columns |-> {}, value |-> 0]

AccountTypeOK ==
    /\ name \in 0..MaxEdits
    /\ profile \in [Fields -> 0..MaxEdits] \cup {None}
    /\ edit \in [Clients -> [columns : SUBSET Columns, value : 0..MaxEdits]]
    /\ edits \in 0..MaxEdits
    /\ last \in [Columns -> 0..MaxEdits]

-----------------------------------------------------------------------------
(* Login by code *)

Code == SendCode
Verify(c, k) == LoginByCode(c, k)
FindOrCreate(c) == Lookup(c) \/ Insert(c) \/ Reread(c)
\* SET of the token with its expiry.
SaveSession(c) == Save(c)
\* Logout, or 3000 hours without a request that renews the token.
SessionEnds(c) == EndSession(c)
Password(c) == SetPassword(c)

\* GetSession: GETEX finds the token and renews it.
LoggedIn(c) == session[c] # NoUser

-----------------------------------------------------------------------------
(* Profile *)

\* UpdateUserInfo with some of its fields, or UpdateUserName.
Submit(c, columns) ==
    /\ LoggedIn(c) /\ edit[c] = NoEdit /\ edits < MaxEdits
    /\ edits' = edits + 1
    /\ edit' = [edit EXCEPT ![c] = [columns |-> columns, value |-> edits + 1]]
    /\ UNCHANGED <<vars, name, profile, last>>

\* Mutant of Changed: a conflict replaces the whole row.
ReplacedRow(e) == [f \in Fields |-> IF f \in e.columns THEN e.value ELSE 0]

\* clause.Assignments(changes): columns not submitted stay.
Changed(e) == [f \in Fields |-> IF f \in e.columns THEN e.value ELSE profile[f]]

Created(e) == [f \in Fields |-> IF f \in e.columns THEN e.value ELSE 0]

Committed(e) == last' = [f \in Columns |-> IF f \in e.columns THEN e.value ELSE last[f]]

\* SaveUserInfo: INSERT ... ON DUPLICATE KEY UPDATE.
SaveUserInfo(e) ==
    /\ e.columns \subseteq Fields
    /\ profile' = IF profile = None THEN Created(e) ELSE Changed(e)
    /\ Committed(e)
    /\ UNCHANGED name

\* SaveUserName.
SaveUserName(e) ==
    /\ e.columns = {"name"}
    /\ name' = e.value
    /\ Committed(e)
    /\ UNCHANGED profile

\* FindUser finds the user, whose row is never deleted; then the statement,
\* of which the answer does not matter. Or one of them fails.
Edit(c) ==
    /\ edit[c] # NoEdit
    /\ \/ SaveUserInfo(edit[c]) \/ SaveUserName(edit[c])
       \/ UNCHANGED <<name, profile, last>>
    /\ edit' = [edit EXCEPT ![c] = NoEdit]
    /\ UNCHANGED <<vars, edits>>

-----------------------------------------------------------------------------

AccountInit ==
    /\ Init
    /\ name = 0 /\ profile = None /\ edits = 0
    /\ edit = [c \in Clients |-> NoEdit]
    /\ last = [f \in Columns |-> 0]

AccountNext ==
    \/ /\ \/ Code \/ KeyExpires
          \/ \E c \in Clients :
                \/ \E k \in Codes : Verify(c, k)
                \/ FindOrCreate(c) \/ SaveSession(c) \/ SessionEnds(c) \/ Password(c) \/ Stop(c)
       /\ UNCHANGED accountVars
    \/ \E c \in Clients :
          \/ \E columns \in ((SUBSET Fields) \ {{}}) \cup {{"name"}} : Submit(c, columns)
          \/ Edit(c)

AccountSpec == AccountInit /\ [][AccountNext]_allVars

-----------------------------------------------------------------------------
(* Properties *)

\* Edits of one user from several sessions, the first ones included, which all
\* find no row, lose nothing: each column is what its last edit said.
ProfileKept ==
    /\ name = last["name"]
    /\ \A f \in Fields : last[f] = IF profile = None THEN 0 ELSE profile[f]

=============================================================================
