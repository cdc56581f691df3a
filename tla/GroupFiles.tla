------------------------------- MODULE GroupFiles -------------------------------
(***************************************************************************)
(* Files sent to groups: one stored file per content, with a reference      *)
(* count per group and the date it was last sent (utils/crud.py), the       *)
(* uploads and forwards that count up (router/group.py, router/user.py,     *)
(* utils/modifier.py), the revocation that counts down, and the nightly     *)
(* cleaner (utils/helper.py), which runs in a thread of its own.            *)
(*                                                                          *)
(* The event loop runs one of its operations at a time and to the end; only *)
(* the cleaner comes between two of its database calls.                     *)
(***************************************************************************)
EXTENDS Integers, FiniteSets

CONSTANTS
    Hash,       \* contents
    Group,      \* groups and friends' virtual groups
    NoFile,     \* a content that is not stored
    NoOp,       \* the event loop is between two operations
    Expire,     \* Limits.MESSAGE_EXPIRE_MINUTES
    MaxTime,    \* bound on the clock
    MaxSent     \* bound on the file messages of a behaviour

ASSUME ExpireAssumption == Expire \in Nat /\ MaxTime \in Nat \ {0} /\ MaxSent \in Nat

VARIABLES
    now,        \* the time
    sent,       \* how many file messages were stamped
    file,       \* fs.files: content -> its counts and uploadDate
    op,         \* the operation that has looked its file up
    pending,    \* uploaded, the task that sends the message has not run
    messages,   \* stored messages that were sent as files
    revoked,    \* those whose type was rewritten
    cleaner,    \* "off", or what it goes through: "messages", "files"
    toClean,    \* groups whose messages the cleaner has still to go through
    oldest,     \* the cleaner's threshold
    doomed,     \* files it has listed and not yet deleted
    swept       \* files it deleted under a message that needed them

cleanerVars == <<cleaner, toClean, oldest, doomed, swept>>
vars == <<now, sent, file, op, pending, messages, revoked, cleanerVars>>

Message == [id : 1..MaxSent, group : Group, hash : Hash, time : 1..MaxTime]
File == [count : [Group -> Int], date : 1..MaxTime]
Operation == [kind : {"upload", "forward"}, msg : Message, found : BOOLEAN]

ASSUME NoFileAssumption == NoFile \notin File
ASSUME NoOpAssumption == NoOp \notin Operation

TypeOK ==
    /\ now \in 1..MaxTime
    /\ sent \in 0..MaxSent
    /\ file \in [Hash -> File \cup {NoFile}]
    /\ op = NoOp \/ op \in Operation
    /\ pending \subseteq Message
    /\ messages \subseteq Message
    /\ revoked \subseteq messages
    /\ cleaner \in {"off", "messages", "files"}
    /\ toClean \subseteq Group
    /\ oldest \in Int
    /\ doomed \subseteq Hash
    /\ swept \subseteq Hash

Init ==
    /\ now = 1 /\ sent = 0
    /\ file = [h \in Hash |-> NoFile]
    /\ op = NoOp
    /\ pending = {} /\ messages = {} /\ revoked = {}
    /\ cleaner = "off" /\ toClean = {} /\ oldest = 0 /\ doomed = {} /\ swept = {}

Tick ==
    /\ now < MaxTime
    /\ now' = now + 1
    /\ UNCHANGED <<sent, file, op, pending, messages, revoked, cleanerVars>>

Exists(h) == file[h] # NoFile

--------------------------------------------------------------------------------
(* Sending a file *)

(* FS.add and FS.query begin by looking the content up.  The message has    *)
(* its time already.                                                        *)
LookUp(kind, g, h) ==
    /\ op = NoOp
    /\ sent < MaxSent
    /\ sent' = sent + 1
    /\ op' = [kind |-> kind, found |-> Exists(h),
              msg |-> [id |-> sent + 1, group |-> g, hash |-> h, time |-> now]]
    /\ UNCHANGED <<now, file, pending, messages, revoked, cleanerVars>>

(* groupFileUpload, of a group or of a friend, up to the lookup.            *)
Upload(g, h) == LookUp("upload", g, h)

(* A forwardFile message of a content that is not stored is refused.        *)
Forward(g, h) == Exists(h) /\ LookUp("forward", g, h)

OneMore(m) == [file[m.hash].count EXCEPT ![m.group] = @ + 1]

(* Variants of Refreshed: the date is left as it was; the count is; the     *)
(* date is taken in a time zone ahead of the cleaner's.                     *)
MutKeepDate(m) == [file EXCEPT ![m.hash].count = OneMore(m)]
MutKeepCount(m) == [file EXCEPT ![m.hash].date = now]
MutDateAhead(m) ==
    [file EXCEPT ![m.hash] = [count |-> OneMore(m), date |-> now + 1]]

Refreshed(m) == [file EXCEPT ![m.hash] = [count |-> OneMore(m), date |-> now]]

(* A file that was found is updated, if the cleaner has not deleted it      *)
(* since; a new one is put.                                                 *)
Counted(m, found) ==
    IF found
    THEN IF Exists(m.hash) THEN Refreshed(m) ELSE file
    ELSE [file EXCEPT ![m.hash] =
            [count |-> [g \in Group |-> IF g = m.group THEN 1 ELSE 0], date |-> now]]

(* The rest of the upload: the message is left to a task.                   *)
UploadWrites ==
    /\ op # NoOp /\ op.kind = "upload"
    /\ file' = Counted(op.msg, op.found)
    /\ pending' = pending \cup {op.msg}
    /\ op' = NoOp
    /\ UNCHANGED <<now, sent, messages, revoked, cleanerVars>>

SameTime(m) == \E n \in messages : n.group = m.group /\ n.time = m.time

(* sendingGroupMessage stores the message last.  When it ends before (a     *)
(* member without a socket), or another message of the group has its time,  *)
(* the count stays.                                                         *)
StoreOrLose(m) ==
    \/ ~SameTime(m) /\ messages' = messages \cup {m}
    \/ UNCHANGED messages

(* The rest of the forward, and the message it becomes.                     *)
ForwardWrites ==
    /\ op # NoOp /\ op.kind = "forward"
    /\ file' = Counted(op.msg, TRUE)
    /\ StoreOrLose(op.msg)
    /\ op' = NoOp
    /\ UNCHANGED <<now, sent, pending, revoked, cleanerVars>>

(* The task of an upload.  It may also find its sender banned, removed or   *)
(* too fast, the file of an audio gone or its sound unreadable.             *)
SendUploaded(m) ==
    /\ op = NoOp
    /\ m \in pending
    /\ pending' = pending \ {m}
    /\ StoreOrLose(m)
    /\ UNCHANGED <<now, sent, file, op, revoked, cleanerVars>>

(* A variant of Revoke that does not look at the type the message has now.  *)
MutRevokeAgain(m) ==
    /\ op = NoOp
    /\ m \in messages
    /\ revoked' = revoked \cup {m}
    /\ file' = IF Exists(m.hash) THEN [file EXCEPT ![m.hash].count[m.group] = @ - 1]
                                 ELSE file
    /\ UNCHANGED <<now, sent, op, pending, messages, cleanerVars>>

(* A revocation: a message that still is a file gives its count back and    *)
(* becomes a "revoke".                                                      *)
Revoke(m) ==
    /\ op = NoOp
    /\ m \in messages
    /\ revoked' = revoked \cup {m}
    /\ file' = IF Exists(m.hash) /\ m \notin revoked
               THEN [file EXCEPT ![m.hash].count[m.group] = @ - 1]
               ELSE file
    /\ UNCHANGED <<now, sent, op, pending, messages, cleanerVars>>

--------------------------------------------------------------------------------
(* Downloading a file *)

(* A variant that is off by one.                                            *)
MutMayDownload(g, h) == Exists(h) /\ file[h].count[g] > 1

(* OutputFileValidate: the content is stored and counted for the group.     *)
MayDownload(g, h) == Exists(h) /\ file[h].count[g] > 0

--------------------------------------------------------------------------------
(* The cleaner *)

CleanerStarts ==
    /\ cleaner = "off"
    /\ cleaner' = "messages"
    /\ toClean' = Group
    /\ oldest' = now - Expire
    /\ UNCHANGED <<now, sent, file, op, pending, messages, revoked, doomed, swept>>

Dropped(g) == {m \in messages : m.group = g /\ m.time < oldest}

(* One collection of messages after the other.                              *)
CleanGroup(g) ==
    /\ g \in toClean
    /\ toClean' = toClean \ {g}
    /\ messages' = messages \ Dropped(g)
    /\ revoked' = revoked \ Dropped(g)
    /\ UNCHANGED <<now, sent, file, op, pending, cleaner, oldest, doomed, swept>>

CleanerPhase(files) == IF files = {} THEN "off" ELSE "files"

(* Then the files, listed with a threshold of their own.                    *)
ListFiles ==
    /\ cleaner = "messages" /\ toClean = {}
    /\ doomed' = {h \in Hash : Exists(h) /\ file[h].date < now - Expire}
    /\ cleaner' = CleanerPhase(doomed')
    /\ UNCHANGED <<now, sent, file, op, pending, messages, revoked, toClean, oldest, swept>>

(* The messages that refer to a content, those on their way included.       *)
Refers(h) == {m \in (messages \ revoked) \cup pending : m.hash = h}

Needed(h) == Refers(h) # {} \/ (op # NoOp /\ op.found /\ op.msg.hash = h)

DeleteFile(h) ==
    /\ h \in doomed
    /\ doomed' = doomed \ {h}
    /\ file' = [file EXCEPT ![h] = NoFile]
    /\ swept' = IF Needed(h) THEN swept \cup {h} ELSE swept
    /\ cleaner' = CleanerPhase(doomed')
    /\ UNCHANGED <<now, sent, op, pending, messages, revoked, toClean, oldest>>

Next ==
    \/ Tick
    \/ \E g \in Group, h \in Hash : Upload(g, h) \/ Forward(g, h)
    \/ UploadWrites \/ ForwardWrites
    \/ \E m \in pending : SendUploaded(m)
    \/ \E m \in messages : Revoke(m)
    \/ CleanerStarts \/ ListFiles
    \/ \E g \in Group : CleanGroup(g)
    \/ \E h \in Hash : DeleteFile(h)

Spec == Init /\ [][Next]_vars

--------------------------------------------------------------------------------
(* Properties *)

(* A message that was not revoked finds its file, and the file expires no   *)
(* earlier than the message, as long as the cleaner never deleted that      *)
(* content under a message: only a file refreshed or looked up while the    *)
(* cleaner holds it on its list, or one whose messages are past expiry      *)
(* themselves, is ever lost.                                                *)
FileOutlivesMessage ==
    \A h \in Hash \ swept : \A m \in Refers(h) :
        Exists(h) /\ file[h].date >= m.time

InGroup(h, g) == {m \in Refers(h) : m.group = g}

(* The count of a group covers the messages of the group that still refer   *)
(* to the content, whatever was revoked, refused or forwarded.              *)
CountCovers ==
    \A h \in Hash \ swept, g \in Group :
        Exists(h) => file[h].count[g] >= Cardinality(InGroup(h, g))

(* The file of a message that stands can be downloaded from its group: no   *)
(* revocation of another message with the same content, in this group or in *)
(* another, makes the check refuse it.                                      *)
DownloadsAllowed ==
    \A h \in Hash \ swept : \A m \in Refers(h) : MayDownload(m.group, h)

--------------------------------------------------------------------------------
(* What a comment of the code says, and the code does not keep              *)

(* "clean up the expired files" (helper.py:72): what the cleaner deletes is *)
(* expired when it is deleted.                                              *)
OnlyExpiredDeleted ==
    [][\A h \in Hash : Exists(h) /\ file'[h] = NoFile
            => file[h].date < now - Expire]_vars

================================================================================
