------------------------------ MODULE Accounts ------------------------------
(***************************************************************************)
(* Registration and login.  A request is validated, looks the address up   *)
(* and, when it registers a new one, inserts it: two statements without a  *)
(* transaction around them, so that other requests come in between.  Every *)
(* statement may fail, and the caller may be gone before the answer.       *)
(*                                                                         *)
(* A typed address is a mailbox and how it was typed: "plain", a "variant" *)
(* with capitals or spaces around it, or "invalid".  A typed password is a *)
(* word, with or without spaces around it; a "short" one has less than     *)
(* eight bytes, a "long" one more than the 72 bcrypt accepts.  The hash of *)
(* a word is the word, and a row needs no identifier besides its address:  *)
(* what a token says of its account is the address and the role.           *)
(***************************************************************************)
CONSTANTS
    Requests,        \* goroutines that serve a request
    Mailboxes,
    Seeded,          \* mailboxes of the rows scripts/seed.sql inserts
    Words,           \* passwords that are neither short nor long
    None             \* NULL, and a local variable without a value

ASSUME AccountsAssumption ==
    /\ Seeded \subseteq Mailboxes
    /\ None \notin Words \union {"", "short", "long", "created", "token", "exists",
                               "unauthorized"}

Roles == {"admin", "user"}
Forms == {"plain", "variant", "invalid"}
TypedAddress == [box : Mailboxes, form : Forms]
TypedPassword == [word : {"", "short", "long"}, padded : {FALSE}]
                     \union [word : Words, padded : BOOLEAN]

VARIABLES
    users,           \* the table
    req              \* per request: where it is, and its local variables

accountVars == <<users, req>>

UserRow == [email : TypedAddress, hash : Words \union {None}, role : Roles]

Locals == [at : {"free", "lookup", "insert", "answer"},
           op : {None, "register", "login", "dummyLogin"},
           email : TypedAddress \union {None}, password : TypedPassword \union {None},
           role : Roles \union {None},
           result : {None, "created", "token", "exists", "invalid", "unauthorized",
                     "internal"}]

Free == [at |-> "free", op |-> None, email |-> None, password |-> None,
         role |-> None, result |-> None]

-----------------------------------------------------------------------------
(* What the code computes. *)

\* Fault: the address is kept as it was typed.
normalizeEmailFault(email) == email

normalizeEmail(email) ==
    IF email.form = "variant" THEN [email EXCEPT !.form = "plain"] ELSE email

isValidEmail(email) == email.form # "invalid"

TrimSpace(password) == [password EXCEPT !.padded = FALSE]

\* Register refuses the empty and the short password, Hash the long one.
LongEnough(word) == word \notin {"", "short"}

\* Fault: the error of Hash is not looked at.
HashableFault(word) == word # ""

Hashable(word) == word # "long"

\* The word that was hashed at the registration is compared with what is typed now.
Compare(hash, password) == password = [word |-> hash, padded |-> FALSE]

GetByEmail(email) == {u \in users : u.email = email}

\* An answer that is an error forgets the request, except for the duplicate address.
Refused(r, result) ==
    req' = [req EXCEPT ![r] = [Free EXCEPT
               !.at = "answer", !.op = req[r].op, !.result = result,
               !.email = IF result = "exists" THEN req[r].email ELSE None]]

Started(r, request) == req' = [req EXCEPT ![r] = request]

-----------------------------------------------------------------------------
(* Handlers. *)

Register(r, typed, password, role) ==
    LET email == normalizeEmail(typed)
        word == TrimSpace(password).word
        request == [Free EXCEPT !.op = "register", !.email = email,
                                !.password = TrimSpace(password), !.role = role]
    IN  /\ req[r].at = "free"
        /\ IF isValidEmail(email) /\ LongEnough(word) /\ role \in Roles
             THEN Started(r, [request EXCEPT !.at = "lookup"])
             ELSE Started(r, [Free EXCEPT !.at = "answer", !.op = "register",
                                          !.result = "invalid"])
        /\ UNCHANGED users

\* Fault: the address is looked up as it was typed.
LoginFault(r, typed, password) ==
    /\ req[r].at = "free"
    /\ Started(r, [Free EXCEPT !.at = "lookup", !.op = "login", !.email = typed,
                               !.password = password])
    /\ UNCHANGED users

Login(r, typed, password) ==
    LET email == normalizeEmail(typed)
    IN  /\ req[r].at = "free"
        /\ IF isValidEmail(email) /\ password.word # ""
             THEN Started(r, [Free EXCEPT !.at = "lookup", !.op = "login",
                                          !.email = email, !.password = password])
             ELSE Started(r, [Free EXCEPT !.at = "answer", !.op = "login",
                                          !.result = "unauthorized"])
        /\ UNCHANGED users

\* The token of DummyLogin names a fixed account, and no statement looks for it.
DummyLogin(r, role) ==
    /\ req[r].at = "free"
    /\ Started(r, [Free EXCEPT !.at = "answer", !.op = "dummyLogin",
                        !.result = IF role \in Roles THEN "token" ELSE "invalid"])
    /\ UNCHANGED users

\* The look-up of a registration, and the hash it computes next.
CheckExisting(r) ==
    LET found == GetByEmail(req[r].email)
        word == req[r].password.word
    IN  /\ req[r].at = "lookup" /\ req[r].op = "register"
        /\ \/ found # {} /\ Refused(r, "exists")
           \/ found = {} /\ ~Hashable(word) /\ Refused(r, "internal")
           \/ found = {} /\ Hashable(word) /\ req' = [req EXCEPT ![r].at = "insert"]
        /\ UNCHANGED users

\* The look-up of a login, and the token it signs next.  A row without a hash
\* has no password.
CheckPassword(r) ==
    LET matching == {u \in GetByEmail(req[r].email) : Compare(u.hash, req[r].password)}
    IN  /\ req[r].at = "lookup" /\ req[r].op = "login"
        /\ \/ \E u \in matching :
                 req' = [req EXCEPT ![r].at = "answer", ![r].result = "token",
                                    ![r].role = u.role]
           \/ matching = {} /\ Refused(r, "unauthorized")
        /\ UNCHANGED users

NewRow(r) ==
    [email |-> req[r].email, hash |-> req[r].password.word, role |-> req[r].role]

\* Fault: the conflict is taken for the success of an earlier attempt.
CreateFault(r) ==
    /\ req[r].at = "insert"
    /\ users' = IF GetByEmail(req[r].email) = {} THEN users \union {NewRow(r)} ELSE users
    /\ req' = [req EXCEPT ![r].at = "answer", ![r].result = "created"]

\* The INSERT; the UNIQUE constraint of the address turns a concurrent registration
\* into the same answer as the look-up.
Create(r) ==
    /\ req[r].at = "insert"
    /\ \/ /\ GetByEmail(req[r].email) = {}
          /\ users' = users \union {NewRow(r)}
          /\ req' = [req EXCEPT ![r].at = "answer", ![r].result = "created"]
       \/ /\ GetByEmail(req[r].email) # {}
          /\ UNCHANGED users
          /\ Refused(r, "exists")

StatementNotSent(r) ==
    /\ req[r].at \in {"lookup", "insert"}
    /\ Refused(r, "internal")
    /\ UNCHANGED users

\* A statement fails; an INSERT may have been executed all the same.
StatementFails(r) ==
    \/ StatementNotSent(r)
    \/ /\ req[r].at = "insert"
       /\ GetByEmail(req[r].email) = {}
       /\ users' = users \union {NewRow(r)}
       /\ Refused(r, "internal")

Answer(r) ==
    /\ req[r].at = "answer"
    /\ Started(r, Free)
    /\ UNCHANGED users

\* The process ends: no request is answered any more, and no row is lost.
Abandon ==
    /\ req' = [r \in Requests |-> Free]
    /\ UNCHANGED users

AccountsInit ==
    /\ users = [email : [box : Seeded, form : {"plain"}], hash : {None}, role : {"user"}]
    /\ req = [r \in Requests |-> Free]

-----------------------------------------------------------------------------
AccountsTypeOK ==
    /\ users \subseteq UserRow
    /\ req \in [Requests -> Locals]

\* However often and however concurrently an address is registered, in capitals or
\* not, and whatever answers are lost in between, it has one account.
OneAccountPerAddress ==
    \A u, v \in users : u.email.box = v.email.box => u = v

\* What a caller is told is so.  A registration that is answered with success has
\* the account it asked for, also when another request for the address won the race
\* for the INSERT; one that is refused as a duplicate is one; a token carries the
\* role of the account with the address and the password.
AnswersAreTrue ==
    \A r \in Requests :
        LET same == {u \in users : u.email = req[r].email}
        IN  /\ req[r].result = "created" =>
                 \E u \in same : u.hash = req[r].password.word /\ u.role = req[r].role
            /\ req[r].result = "exists" => same # {}
            /\ req[r].result = "token" /\ req[r].op = "login" =>
                 \E u \in same : Compare(u.hash, req[r].password) /\ u.role = req[r].role

\* A login is refused only if at that moment no account of the mailbox, however
\* it is written, has the password.
LoginRefusedRightly ==
    [][\A r \in Requests :
          req[r].at = "lookup" /\ req[r].op = "login"
              /\ req'[r].result = "unauthorized" =>
            \A u \in users : u.email.box = req[r].email.box =>
                ~Compare(u.hash, req[r].password)]_accountVars
=============================================================================
