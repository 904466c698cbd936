----------------------------- MODULE UserStore -----------------------------
(***************************************************************************)
(* The MongoDB users collection as the relay sees it: the current document *)
(* of every user, and the change feed (the collection's oplog) that the    *)
(* three write operations of UserRepository append to.  main.go drops and  *)
(* recreates the collection with pre- and post-images enabled before the   *)
(* server starts, so the store starts empty and every update or delete     *)
(* record carries its pre-image.                                           *)
(*                                                                         *)
(* A document is abstracted to its _id and a version: the position of the *)
(* write that produced it in the feed.  Two documents of the same user are *)
(* equal exactly when they were written by the same operation, which is   *)
(* all that the relay's properties need to tell the name fields apart.     *)
(***************************************************************************)
EXTENDS Naturals, Sequences

CONSTANTS
  Users,         \* the user ids (uuid.NewString() in service.CreateUser)
  NoDoc,         \* a missing document (nil *UserEntity)
  MaxMutations,  \* bound on the number of feed records, to keep it finite
  PeerCanDrop    \* whether another server instance may start meanwhile

Doc == [id: Users, ver: Nat]
MaybeDoc == Doc \cup {NoDoc}

ASSUME StoreAssumption ==
  /\ NoDoc \notin Doc
  /\ MaxMutations \in Nat
  /\ PeerCanDrop \in BOOLEAN

\* The operationType tags the feed carries: the repository's writes, and
\* the drop and invalidate records of a Drop of the collection.
OpTag == {"insert", "update", "delete", "drop", "invalidate"}

\* One change-feed record: operationType, documentKey._id ("" for the
\* records of a drop, which have no documentKey), the pre-image
\* (fullDocumentBeforeChange) and the post-image the write produced.
Change == [op: OpTag, id: Users \cup {""}, pre: MaybeDoc, post: MaybeDoc]

VARIABLES
  store,   \* store[u]: the current document with _id u, or NoDoc
  oplog    \* the change feed: every write, in commit order

storeVars == <<store, oplog>>

StoreTypeOK ==
  /\ store \in [Users -> MaybeDoc]
  /\ oplog \in Seq(Change)
  /\ Len(oplog) <= MaxMutations

StoreInit ==
  /\ store = [u \in Users |-> NoDoc]
  /\ oplog = <<>>

\* Commit one write: the new document of user u (NoDoc for a delete) and
\* its feed record.
Commit(op, u, newDoc) ==
  /\ Len(oplog) < MaxMutations
  /\ store' = [store EXCEPT ![u] = newDoc]
  /\ oplog' = Append(oplog, [op |-> op, id |-> u, pre |-> store[u], post |-> newDoc])

\* The document an update or insert at the next feed position writes.
NextDoc(u) == [id |-> u, ver |-> Len(oplog) + 1]

\* service.CreateUser + UserRepository.CreateUser: a fresh uuid is never
\* an id the collection has seen, and InsertOne writes the document.
CreateUser(u) ==
  /\ \A i \in 1..Len(oplog) : oplog[i].id # u
  /\ Commit("insert", u, NextDoc(u))

\* service.UpdateUser + UserRepository.UpdateUser: FindOneAndUpdate with
\* $set; a missing _id returns ErrUserNotFound and writes nothing (a
\* stuttering step, left out).
UpdateUser(u) ==
  /\ store[u] # NoDoc
  /\ Commit("update", u, NextDoc(u))

\* service.DeleteUser + UserRepository.DeleteUserById: FindOneAndDelete;
\* a missing _id returns ErrUserNotFound and writes nothing.
DeleteUserById(u) ==
  /\ store[u] # NoDoc
  /\ Commit("delete", u, NoDoc)

\* A record of a drop: no documentKey and no images.
DropRecord(op) == [op |-> op, id |-> "", pre |-> NoDoc, post |-> NoDoc]

\* main of another server instance starting against the same database:
\* it drops the users collection and creates it again (empty, with pre-
\* and post-images).  A change stream on the old collection receives a
\* drop record and then an invalidate record, and is closed by the server.
DropCollection ==
  /\ PeerCanDrop
  /\ Len(oplog) + 2 <= MaxMutations
  /\ store' = [u \in Users |-> NoDoc]
  /\ oplog' = Append(Append(oplog, DropRecord("drop")),
                    DropRecord("invalidate"))

StoreNext ==
  \/ \E u \in Users : CreateUser(u) \/ UpdateUser(u) \/ DeleteUserById(u)
  \/ DropCollection

=============================================================================
