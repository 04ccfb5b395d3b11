---------------------------- MODULE FolderSources ----------------------------
(***************************************************************************)
(* The local folders of Projects (folder-sources.ts): one file of sources,   *)
(* a folder picker that only one request may have open, and attach and       *)
(* detach, which load the file, change it and save it, one after the other   *)
(* through #writeQueue.  Requests come from Control and carry the Project's  *)
(* context, signed (handleInternalFolderSource of admin-server.ts).          *)
(***************************************************************************)
EXTENDS Naturals, Sequences

CONSTANTS
    Contexts,   \* principal, Workspace and Project, as one
    Folders,    \* canonical directories that may be connected
    NoFolder,   \* the picker was cancelled or its choice refused
    Picks,      \* requests folder-sources:pick
    Detaches,   \* requests folder-sources:detach
    MaxIds      \* bound: source ids given out

FolderAssumption == Picks \cap Detaches = {} /\ NoFolder \notin Folders /\ MaxIds \in Nat

FolderRequests == Picks \cup Detaches

VARIABLES
    store,          \* folder-sources.json
    pickerActive,
    writeQueue,     \* the requests in #writeQueue; the first is at work
    loaded,         \* what each request has loaded
    folderReq,      \* the requests: their step, context, folder and source id
    lastId          \* the last source id given out

folderVars == <<store, pickerActive, writeQueue, loaded, folderReq, lastId>>

SourceOf(context, id, folder) == [context |-> context, id |-> id, path |-> folder]

Idle == [step |-> "idle", context |-> "none", folder |-> NoFolder, id |-> 0]

FolderInit ==
    /\ store = {} /\ pickerActive = FALSE
    /\ writeQueue = <<>> /\ loaded = [r \in FolderRequests |-> {}]
    /\ folderReq = [r \in FolderRequests |-> Idle]
    /\ lastId = 0

-----------------------------------------------------------------------------
At(r, s) == folderReq[r].step = s

Go(r, s) == folderReq' = [folderReq EXCEPT ![r].step = s]

\* A request from a browser, for another Node, without Control's signature or the
\* capability project.write, with an incomplete context, not on macOS.
Refuse(r) ==
    /\ At(r, "idle") /\ Go(r, "over")
    /\ UNCHANGED <<store, pickerActive, writeQueue, loaded, lastId>>

\* pick(): a second dialog is refused (409).
Pick(r, context) ==
    /\ r \in Picks /\ At(r, "idle")
    /\ IF pickerActive
       THEN Go(r, "over") /\ UNCHANGED pickerActive
       ELSE /\ pickerActive' = TRUE
            /\ folderReq' = [folderReq EXCEPT ![r] = [Idle EXCEPT !.step = "dialog", !.context = context]]
    /\ UNCHANGED <<store, writeQueue, loaded, lastId>>

\* What the dialog can come to: a canonical directory that is neither too broad
\* nor holds sensitive data, or nothing.
Choices == Folders \cup {NoFolder}

\* attach joins the queue; cancelling, a timeout or a folder that is refused ends
\* the request and, in finally, frees the picker.
Chosen(r, folder) ==
    /\ At(r, "dialog")
    /\ IF folder = NoFolder
       THEN Go(r, "over") /\ pickerActive' = FALSE /\ UNCHANGED writeQueue
       ELSE /\ folderReq' = [folderReq EXCEPT ![r].step = "write", ![r].folder = folder]
            /\ writeQueue' = Append(writeQueue, r)
            /\ UNCHANGED pickerActive
    /\ UNCHANGED <<store, loaded, lastId>>

\* detach() of a source id the caller was given once.
Detach(r, context, id) ==
    /\ r \in Detaches /\ At(r, "idle")
    /\ folderReq' = [folderReq EXCEPT ![r] =
                        [step |-> "write", context |-> context, folder |-> NoFolder, id |-> id]]
    /\ writeQueue' = Append(writeQueue, r)
    /\ UNCHANGED <<store, pickerActive, loaded, lastId>>

\* Mistaken: whoever is in the queue may go.
AnyInQueue(r) == \E i \in DOMAIN writeQueue : writeQueue[i] = r

Turn(r) == Head(writeQueue) = r

\* load(), which also checks that contexts and paths are unique.
Load(r) ==
    /\ writeQueue # <<>> /\ Turn(r) /\ At(r, "write")
    /\ Go(r, "change")
    /\ loaded' = [loaded EXCEPT ![r] = store]
    /\ UNCHANGED <<store, pickerActive, writeQueue, lastId>>

Own(r) == {s \in loaded[r] : s.context = folderReq[r].context}

Conflict(r) == \E s \in loaded[r] : s.path = folderReq[r].folder /\ s.context # folderReq[r].context

\* The end of the turn, and of the request.
Over(r) ==
    /\ Go(r, "over")
    /\ writeQueue' = Tail(writeQueue)
    /\ loaded' = [loaded EXCEPT ![r] = {}]
    /\ pickerActive' = (pickerActive /\ r \notin Picks)

\* attach: a folder belongs to one Project (409), choosing it again changes
\* nothing, and another folder replaces the Project's with a new id.
Attach(r) ==
    /\ r \in Picks /\ At(r, "change")
    /\ IF Conflict(r) \/ \E s \in Own(r) : s.path = folderReq[r].folder
       THEN UNCHANGED <<store, lastId>>
       ELSE /\ lastId < MaxIds
            /\ lastId' = lastId + 1
            /\ store' = (loaded[r] \ Own(r)) \cup {SourceOf(folderReq[r].context, lastId', folderReq[r].folder)}
    /\ Over(r)

\* detach: only the Project's present source, under its id (404).
Remove(r) ==
    /\ r \in Detaches /\ At(r, "change")
    /\ store' = {s \in loaded[r] : ~(s \in Own(r) /\ s.id = folderReq[r].id)}
    /\ Over(r)
    /\ UNCHANGED lastId

\* A store that cannot be read or written is an error of the request.
WriteFails(r) ==
    /\ At(r, "change")
    /\ Over(r)
    /\ UNCHANGED <<store, lastId>>

FolderNext ==
    \E r \in FolderRequests :
       \/ Refuse(r)
       \/ \E context \in Contexts : Pick(r, context)
       \/ \E folder \in Choices : Chosen(r, folder)
       \/ \E context \in Contexts, id \in 1 .. lastId : Detach(r, context, id)
       \/ Load(r) \/ Attach(r) \/ Remove(r) \/ WriteFails(r)

-----------------------------------------------------------------------------
\* The change a write makes, of the file as it is: the difference is one source
\* put or taken away, and all it touches is the context it was asked for.
WriteIsOneChange ==
    LET gone == store \ store'
        new  == store' \ store
    IN  /\ \A s, t \in gone : s = t
        /\ \A s, t \in new : s = t
        /\ \A s, t \in gone \cup new : s.context = t.context
        /\ \A s \in store' : \A t \in store' \ {s} : s.context # t.context /\ s.path # t.path
=============================================================================
