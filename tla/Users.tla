------------------------------- MODULE Users --------------------------------
(***************************************************************************)
(* The users: the table and the owners of the photos (users.py, db.py),    *)
(* one phone's page (Users.jsx), the other phones, and uploads that name   *)
(* their user by the cookie.  An id is INTEGER PRIMARY KEY: one more than  *)
(* the greatest in use, so the id of a user who is deleted comes back.     *)
(* Left out: statistics, error messages, and UserSelectModal, which        *)
(* nothing opens.                                                          *)
(***************************************************************************)
EXTENDS PageCalls, FiniteSetsExt

CONSTANTS
  UserName,   \* names, "default" among them
  Upload,     \* bound: the uploads there are
  MaxId       \* bound: the greatest id

ASSUME UsersAssumption == "default" \in UserName /\ MaxId \in Nat \ {0}

VARIABLES
  table,         \* the users: records [id, name]
  uploads,       \* uploads[u]: "none", "asked", "named" or "stored", and by
                 \* whom
  raced,         \* history: uploads whose user was deleted between the two
                 \* steps of the upload
  userList,      \* userList.value
  newName,       \* the name in the open field, NoName if it is closed
  userCreating,  \* creating.value
  userTarget,    \* deleteTarget.value
  userDeleting,  \* deleting.value
  userCalls      \* requests under way

userVars == <<table, uploads, raced, userList, newName, userCreating,
              userTarget, userDeleting, userCalls>>
formVars == <<newName, userCreating>>
dialogVars == <<userTarget, userDeleting>>
serverVars == <<table, uploads, raced>>

NoName == "no name"
Nobody == [id |-> 0, name |-> NoName]
Default == [id |-> 1, name |-> "default"]
Named(n) == \E row \in table : row.name = n

UsersInit ==
  /\ table = {Default}
  /\ uploads = [u \in Upload |-> [at |-> "none", by |-> "default"]]
  /\ raced = {} /\ userList = {}
  /\ newName = NoName /\ userCreating = FALSE
  /\ userTarget = Nobody /\ userDeleting = FALSE /\ userCalls = Quiet

-----------------------------------------------------------------------------
(* The server.                                                             *)

(* INSERT INTO users                                                       *)
Insert(n) == table \cup {[id |-> 1 + Max({row.id : row \in table}),
                          name |-> n]}
CanInsert == \A row \in table : row.id < MaxId

(* Mutant: the row is deleted first, and no name is left to look up.       *)
ReassignedLate(id) == uploads

(* delete_user_reassign(): the photos of that name go to "default" first,  *)
(* then the row is deleted.                                                *)
Reassigned(id) ==
  [u \in Upload |->
     IF uploads[u].at = "stored" /\ [id |-> id, name |-> uploads[u].by] \in table
     THEN [uploads[u] EXCEPT !.by = "default"] ELSE uploads[u]]

DeleteUser(id) ==
  /\ uploads' = Reassigned(id)
  /\ table' = {row \in table : row.id # id}
  /\ raced' = raced \cup {u \in Upload : uploads[u].at = "named"
                /\ [id |-> id, name |-> uploads[u].by] \in table}

(* Another phone creates a user, or deletes one from a fresh list.         *)
OthersCreate(n) ==
  /\ ~Named(n) /\ CanInsert
  /\ table' = Insert(n)
  /\ UNCHANGED <<uploads, raced, userList, formVars, dialogVars, userCalls>>

OthersDelete(row) ==
  /\ row \in table /\ row.name # "default"
  /\ DeleteUser(row.id)
  /\ UNCHANGED <<userList, formVars, dialogVars, userCalls>>

(* _do_upload(): get_or_create_user() for the cookie, which may name a     *)
(* user long gone, then for the file insert_photo(); each holds the lock   *)
(* of the database by itself.                                              *)
UploadBegins(u, n) ==
  /\ uploads[u].at = "none" /\ (Named(n) \/ CanInsert)
  /\ uploads' = [uploads EXCEPT ![u] = [at |-> "named", by |-> n]]
  /\ table' = IF Named(n) THEN table ELSE Insert(n)
  /\ UNCHANGED <<raced, userList, formVars, dialogVars, userCalls>>

UploadStored(u) ==
  /\ uploads[u].at = "named"
  /\ uploads' = [uploads EXCEPT ![u].at = "stored"]
  /\ UNCHANGED <<table, raced, userList, formVars, dialogVars, userCalls>>

(* The server handles a request of the page.                               *)
UserCallHandled(n) ==
  LET call == userCalls[n] IN
  /\ call # Idle /\ call.at = "sent"
  /\ \/ /\ call.do = "create" /\ ~Named(call.who.name) /\ CanInsert
        /\ table' = Insert(call.who.name)
        /\ userCalls' = Handled(userCalls, n, "201")
        /\ UNCHANGED <<uploads, raced>>
     \/ /\ call.do = "create" /\ Named(call.who.name)
        /\ userCalls' = Handled(userCalls, n, "409")
        /\ UNCHANGED serverVars
     \/ /\ call.do = "delete"
        /\ DeleteUser(call.who.id)
        /\ userCalls' = Handled(userCalls, n, "200")
  /\ UNCHANGED <<userList, formVars, dialogVars>>

-----------------------------------------------------------------------------
(* The page.                                                               *)

(* fetchUsers(): the list as it is when the answer is made.                *)
fetchUsers ==
  /\ userList' = table
  /\ UNCHANGED <<serverVars, formVars, dialogVars, userCalls>>

(* + NEW USER and a name, and CANCEL.                                      *)
EnterName(n) ==
  /\ (n = NoName) # (newName = NoName)
  /\ newName' = n
  /\ UNCHANGED <<serverVars, userList, userCreating, dialogVars, userCalls>>

(* createUser(): the button is disabled while one is created, Enter is     *)
(* not.                                                                    *)
createUser ==
  /\ newName # NoName /\ Room(userCalls, 1)
  /\ userCreating' = TRUE
  /\ userCalls' = Send(userCalls, [do |-> "create", at |-> "sent",
                                   who |-> [id |-> 0, name |-> newName]])
  /\ UNCHANGED <<serverVars, userList, newName, dialogVars>>

(* 201 closes the field; 409, NAME EXISTS, or a fault leaves it, although   *)
(* it may be the second request for a name that the first has created.     *)
CreateUserAnswered(n) ==
  /\ userCalls[n].do = "create"
  /\ userCreating' = FALSE
  /\ userCalls' = Over(userCalls, n)
  /\ newName' \in IF userCalls[n].at = "201" THEN {NoName, newName}
                  ELSE {newName}
  /\ UNCHANGED <<serverVars, userList, dialogVars>>

(* DELETE of a row: not for the default user.                              *)
AskDeleteUser(user) ==
  /\ userTarget = Nobody /\ user \in userList /\ user.name # "default"
  /\ userTarget' = user
  /\ UNCHANGED <<serverVars, userList, formVars, userDeleting, userCalls>>

CancelDeleteUser ==
  /\ userTarget # Nobody
  /\ userTarget' = Nobody
  /\ UNCHANGED <<serverVars, userList, formVars, userDeleting, userCalls>>

(* confirmDelete(): the request names the id alone.                        *)
confirmDelete ==
  /\ userTarget # Nobody /\ ~userDeleting /\ Room(userCalls, 1)
  /\ userDeleting' = TRUE
  /\ userCalls' = Send(userCalls, [do |-> "delete", at |-> "sent",
                                   who |-> userTarget])
  /\ UNCHANGED <<serverVars, userList, formVars, userTarget>>

(* Answered or failed, the dialog closes, whoever it is about by then.     *)
DeleteUserAnswered(n) ==
  /\ userCalls[n].do = "delete"
  /\ userDeleting' = FALSE /\ userTarget' = Nobody
  /\ userCalls' = Over(userCalls, n)
  /\ UNCHANGED <<serverVars, userList, formVars>>

UsersNext ==
  \/ fetchUsers \/ createUser \/ CancelDeleteUser \/ confirmDelete
  \/ \E n \in UserName \cup {NoName} : EnterName(n)
  \/ \E n \in UserName : OthersCreate(n)
  \/ \E row \in table : OthersDelete(row)
  \/ \E u \in Upload : UploadStored(u) \/ \E n \in UserName : UploadBegins(u, n)
  \/ \E n \in Slot : UserCallHandled(n) \/ CreateUserAnswered(n)
                       \/ DeleteUserAnswered(n)
  \/ \E user \in userList : AskDeleteUser(user)

UsersSpec == UsersInit /\ [][UsersNext]_userVars

-----------------------------------------------------------------------------
UsersTypeOK ==
  /\ Default \in table
  /\ \A row, other \in table :
       row.id \in 1..MaxId /\ row.name \in UserName
         /\ (row.id = other.id \/ row.name = other.name => row = other)
  /\ \A u \in Upload :
       uploads[u].at \in {"none", "named", "stored"} /\ uploads[u].by \in UserName
  /\ raced \subseteq Upload /\ newName \in UserName \cup {NoName}
  /\ userCreating => Busy(userCalls, "create")
  /\ userDeleting = Busy(userCalls, "delete")

(* The user a photo is attributed to exists.                               *)
HasOwner(u) == uploads[u].at = "stored" => Named(uploads[u].by)

(* Whichever phones delete and create users meanwhile, a photo belongs to  *)
(* a user there is, unless the user was deleted while the upload was       *)
(* between its two steps.                                                  *)
OwnersExist == \A u \in Upload : u \in raced \/ HasOwner(u)

(* What API.md says of the deletion of a user: no photo is left without.   *)
NoOrphans == \A u \in Upload : HasOwner(u)
=============================================================================
