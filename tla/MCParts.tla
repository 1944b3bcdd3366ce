------------------------------- MODULE MCParts -------------------------------
(* The modules that stand beside the turn service, the worker link and the
   worker manager, in one run: the first state chooses a part, and from then on
   only that part moves.  pc is each part's own; the variables of the others are
   out of use.                                                               *)
EXTENDS Naturals, Sequences, FiniteSets

CONSTANTS
  Sessions, Workers, NoWorker, Room, MaxTurns, MaxAnswers, MaxCalls,
  MaxRecords, MaxQueue, Limit, MaxEvents, MaxItems, MaxTasks, Calls, NoCall,
  MaxSessions, MaxActive, MaxOutput, Words, MaxLines, MaxHunk, MaxShown,
  MaxCells, MaxLocal, Admins, Startup, MaxRuntimes, MaxVersions, Chats,
  NoChat, MaxMessages, MaxStream, MaxTexts

ASSUME PartsAssumption ==
  /\ MaxVersions \in Nat \ {0} /\ Startup \notin Admins
  /\ NoChat \notin Chats /\ NoCall \notin Calls /\ MaxActive \in Nat \ {0}
  /\ NoWorker \notin Workers /\ Room \in Nat \ {0} /\ Limit \in Nat \ {0}
  /\ {MaxCalls, MaxMessages, MaxTurns, MaxStream, MaxTexts, MaxRuntimes,
      MaxSessions} \subseteq Nat

VARIABLES
  part, pc,
  command, sub, inbox, reply, worker, todo, turn, busy, lost,
  turns, answers, cancelled, calls, ready, mem, queued, log, stale,
  next, cmds, batch, newRows, error, file, rows, readerPc, text, handled, gap,
  spawned, open, emitted, queue, listening, projector, task, answer, facts,
  unsent, told, view, overlap,
  target, victim, status, seen, store, started, child, holder, written,
  captured, cursor, given, dropped,
  before, disk, sections, unplanned, plan, changed, exact,
  current, late, streaming, announced, count, local, client, finished,
  want, copy, hand, enabled, config, enabledFile, configFile, runtime, tasks,
  over, crossed, unclean, bypassed,
  chat, line, bound, stream, nodeTurns, phase, held, trailing, pending, cards,
  withCards, shown, prompted, clicked, strayed,
  item, gathered, timer, aborted, load, delivered, cut

Node == INSTANCE NodeSessions
Record == INSTANCE TurnRecord
Rollout == INSTANCE RolloutStore
Stream == INSTANCE TurnStream
Exec == INSTANCE ExecSession
Patch == INSTANCE ApplyPatch
Live == INSTANCE LiveTranscript
Platform == INSTANCE PlatformManager
Reply == INSTANCE GatewayReply
Inbound == INSTANCE WecomInbound

sessionsVars ==
  <<command, sub, inbox, reply, worker, todo, turn, busy, lost>>
recordVars ==
  <<turns, answers, cancelled, calls, ready, mem, queued, log, stale>>
rolloutVars ==
  <<next, cmds, batch, newRows, error, file, rows, readerPc, text, handled,
    gap>>
streamVars ==
  <<spawned, open, emitted, queue, listening, projector, task, answer, facts,
    unsent, told, view, overlap>>
execVars ==
  <<target, victim, status, seen, store, started, child, holder, written,
    captured, cursor, given, dropped>>
patchVars ==
  <<before, disk, sections, unplanned, plan, changed, exact>>
liveVars ==
  <<current, late, streaming, announced, count, local, client, finished>>
platformVars ==
  <<want, copy, hand, enabled, config, enabledFile, configFile, runtime,
    tasks, over, crossed, unclean, bypassed>>
replyVars ==
  <<chat, line, bound, stream, nodeTurns, phase, held, trailing, pending,
    cards, withCards, shown, prompted, clicked, strayed>>
inboundVars ==
  <<item, gathered, timer, aborted, load, delivered, cut>>
vars ==
  <<part, pc, sessionsVars, recordVars, rolloutVars, streamVars, execVars,
    patchVars, liveVars, platformVars, replyVars, inboundVars>>

Unset == "unset"
NoNode ==
  /\ command = Unset /\ sub = Unset /\ inbox = Unset /\ reply = Unset
  /\ worker = Unset /\ todo = Unset /\ turn = Unset /\ busy = Unset
  /\ lost = Unset
NoRecord ==
  /\ turns = Unset /\ answers = Unset /\ cancelled = Unset /\ calls = Unset
  /\ ready = Unset /\ mem = Unset /\ queued = Unset /\ log = Unset
  /\ stale = Unset
NoRollout ==
  /\ next = Unset /\ cmds = Unset /\ batch = Unset /\ newRows = Unset
  /\ error = Unset /\ file = Unset /\ rows = Unset /\ readerPc = Unset
  /\ text = Unset /\ handled = Unset /\ gap = Unset
NoStream ==
  /\ spawned = Unset /\ open = Unset /\ emitted = Unset /\ queue = Unset
  /\ listening = Unset /\ projector = Unset /\ task = Unset /\ answer = Unset
  /\ facts = Unset /\ unsent = Unset /\ told = Unset /\ view = Unset
  /\ overlap = Unset
NoExec ==
  /\ target = Unset /\ victim = Unset /\ status = Unset /\ seen = Unset
  /\ store = Unset /\ started = Unset /\ child = Unset /\ holder = Unset
  /\ written = Unset /\ captured = Unset /\ cursor = Unset /\ given = Unset
  /\ dropped = Unset
NoPatch ==
  /\ before = Unset /\ disk = Unset /\ sections = Unset /\ unplanned = Unset
  /\ plan = Unset /\ changed = Unset /\ exact = Unset
NoLive ==
  /\ current = Unset /\ late = Unset /\ streaming = Unset /\ announced = Unset
  /\ count = Unset /\ local = Unset /\ client = Unset /\ finished = Unset
NoPlatform ==
  /\ want = Unset /\ copy = Unset /\ hand = Unset /\ enabled = Unset
  /\ config = Unset /\ enabledFile = Unset /\ configFile = Unset
  /\ runtime = Unset /\ tasks = Unset /\ over = Unset /\ crossed = Unset
  /\ unclean = Unset /\ bypassed = Unset
NoReply ==
  /\ chat = Unset /\ line = Unset /\ bound = Unset /\ stream = Unset
  /\ nodeTurns = Unset /\ phase = Unset /\ held = Unset /\ trailing = Unset
  /\ pending = Unset /\ cards = Unset /\ withCards = Unset /\ shown = Unset
  /\ prompted = Unset /\ clicked = Unset /\ strayed = Unset
NoInbound ==
  /\ item = Unset /\ gathered = Unset /\ timer = Unset /\ aborted = Unset
  /\ load = Unset /\ delivered = Unset /\ cut = Unset

Init ==
  \/ /\ part = "sessions" /\ Node!Init
     /\ NoRecord /\ NoRollout /\ NoStream /\ NoExec /\ NoPatch /\ NoLive
     /\ NoPlatform /\ NoReply /\ NoInbound
  \/ /\ part = "record" /\ Record!Init
     /\ NoNode /\ NoRollout /\ NoStream /\ NoExec /\ NoPatch /\ NoLive
     /\ NoPlatform /\ NoReply /\ NoInbound
  \/ /\ part = "rollout" /\ Rollout!Init
     /\ NoNode /\ NoRecord /\ NoStream /\ NoExec /\ NoPatch /\ NoLive
     /\ NoPlatform /\ NoReply /\ NoInbound
  \/ /\ part = "stream" /\ Stream!Init
     /\ NoNode /\ NoRecord /\ NoRollout /\ NoExec /\ NoPatch /\ NoLive
     /\ NoPlatform /\ NoReply /\ NoInbound
  \/ /\ part = "exec" /\ Exec!Init
     /\ NoNode /\ NoRecord /\ NoRollout /\ NoStream /\ NoPatch /\ NoLive
     /\ NoPlatform /\ NoReply /\ NoInbound
  \/ /\ part = "patch" /\ Patch!Init
     /\ NoNode /\ NoRecord /\ NoRollout /\ NoStream /\ NoExec /\ NoLive
     /\ NoPlatform /\ NoReply /\ NoInbound
  \/ /\ part = "live" /\ Live!Init
     /\ NoNode /\ NoRecord /\ NoRollout /\ NoStream /\ NoExec /\ NoPatch
     /\ NoPlatform /\ NoReply /\ NoInbound
  \/ /\ part = "platform" /\ Platform!Init
     /\ NoNode /\ NoRecord /\ NoRollout /\ NoStream /\ NoExec /\ NoPatch
     /\ NoLive /\ NoReply /\ NoInbound
  \/ /\ part = "reply" /\ Reply!Init
     /\ NoNode /\ NoRecord /\ NoRollout /\ NoStream /\ NoExec /\ NoPatch
     /\ NoLive /\ NoPlatform /\ NoInbound
  \/ /\ part = "inbound" /\ Inbound!Init
     /\ NoNode /\ NoRecord /\ NoRollout /\ NoStream /\ NoExec /\ NoPatch
     /\ NoLive /\ NoPlatform /\ NoReply

Next ==
  /\ UNCHANGED part
  /\ \/ /\ part = "sessions"
        /\ UNCHANGED <<recordVars, rolloutVars, streamVars, execVars, patchVars,
                       liveVars, platformVars, replyVars,
                       inboundVars>>
        /\ Node!Next
     \/ /\ part = "record"
        /\ UNCHANGED <<sessionsVars, rolloutVars, streamVars, execVars, patchVars,
                       liveVars, platformVars, replyVars,
                       inboundVars>>
        /\ Record!Next
     \/ /\ part = "rollout"
        /\ UNCHANGED <<sessionsVars, recordVars, streamVars, execVars, patchVars,
                       liveVars, platformVars, replyVars,
                       inboundVars>>
        /\ Rollout!Next
     \/ /\ part = "stream"
        /\ UNCHANGED <<sessionsVars, recordVars, rolloutVars, execVars, patchVars,
                       liveVars, platformVars, replyVars,
                       inboundVars>>
        /\ Stream!Next
     \/ /\ part = "exec"
        /\ UNCHANGED <<sessionsVars, recordVars, rolloutVars, streamVars, patchVars,
                       liveVars, platformVars, replyVars,
                       inboundVars>>
        /\ Exec!Next
     \/ /\ part = "patch"
        /\ UNCHANGED <<sessionsVars, recordVars, rolloutVars, streamVars, execVars,
                       liveVars, platformVars, replyVars,
                       inboundVars>>
        /\ Patch!Next
     \/ /\ part = "live"
        /\ UNCHANGED <<sessionsVars, recordVars, rolloutVars, streamVars, execVars,
                       patchVars, platformVars, replyVars,
                       inboundVars>>
        /\ Live!Next
     \/ /\ part = "platform"
        /\ UNCHANGED <<sessionsVars, recordVars, rolloutVars, streamVars, execVars,
                       patchVars, liveVars, replyVars,
                       inboundVars>>
        /\ Platform!Next
     \/ /\ part = "reply"
        /\ UNCHANGED <<sessionsVars, recordVars, rolloutVars, streamVars, execVars,
                       patchVars, liveVars, platformVars,
                       inboundVars>>
        /\ Reply!Next
     \/ /\ part = "inbound"
        /\ UNCHANGED <<sessionsVars, recordVars, rolloutVars, streamVars, execVars,
                       patchVars, liveVars, platformVars,
                       replyVars>>
        /\ Inbound!Next

Spec == Init /\ [][Next]_vars

(* Each part keeps its types. *)
TypeOK ==
  /\ part = "sessions" => Node!TypeOK
  /\ part = "record" => Record!TypeOK
  /\ part = "rollout" => Rollout!TypeOK
  /\ part = "stream" => Stream!TypeOK
  /\ part = "exec" => Exec!TypeOK
  /\ part = "patch" => Patch!TypeOK
  /\ part = "live" => Live!TypeOK
  /\ part = "platform" => Platform!TypeOK
  /\ part = "reply" => Reply!TypeOK
  /\ part = "inbound" => Inbound!TypeOK

(* NodeSessions: the busy mark follows the view. *)
RegistryFollowsView == part = "sessions" => Node!RegistryFollowsView
(* RolloutStore: what a flush reports written can be loaded. *)
FlushMeansLoadable == part = "rollout" => Rollout!FlushMeansLoadable
(* RolloutStore: a page from the index is the page a scan gives. *)
PagesAgree == part = "rollout" => Rollout!PagesAgree
(* TurnRecord: a model request pairs every call with one output. *)
RequestsArePaired == part = "record" => Record!RequestsArePaired
(* TurnRecord: a restart rebuilds the history that was in memory. *)
RestartTellsTheSame == part = "record" => Record!RestartTellsTheSame
(* TurnRecord: the endings of a turn on the rollout agree. *)
EndingsAgree == part = "record" => Record!EndingsAgree
(* TurnStream: nothing of a turn is told after its end. *)
EndIsToldLast == part = "stream" => Stream!EndIsToldLast
(* TurnStream: a settled view is the one the client shows. *)
SettledViewIsShown == part = "stream" => Stream!SettledViewIsShown
(* ExecSession: a running command can still be reached. *)
NoChildLeftBehind == part = "exec" => Exec!NoChildLeftBehind
(* ExecSession: output is told without a hole. *)
NothingSkipped == part = "exec" => Exec!NothingSkipped
(* ApplyPatch: an update that is done put every hunk in its place. *)
DoneMeansSubstituted == part = "patch" => Patch!DoneMeansSubstituted
(* ApplyPatch: an exact report names every file that changed. *)
ReportIsTheDisk == part = "patch" => Patch!ReportIsTheDisk
(* LiveTranscript: a completed message is shown whole, once. *)
AgentMessageShownOnce == part = "live" => Live!AgentMessageShownOnce
(* LiveTranscript: a completed card is shown once. *)
CompletedCardShownOnce == part = "live" => Live!CompletedCardShownOnce
(* PlatformManager: a runtime that runs can be stopped. *)
RuntimesOwned == part = "platform" => Platform!RuntimesOwned
(* PlatformManager: files and runtime follow the switch. *)
SwitchIsObeyed == part = "platform" => Platform!SwitchIsObeyed
(* GatewayReply: a message is answered with its own turn. *)
ReplyIsOfItsMessage == part = "reply" => Reply!ReplyIsOfItsMessage
(* GatewayReply: a card decides the request it was sent for. *)
CardDecidesItsRequest == part = "reply" => Reply!CardDecidesItsRequest
(* GatewayReply: an undecided request can be answered. *)
PromptStaysAnswerable == part = "reply" => Reply!PromptStaysAnswerable
(* WecomInbound: no text is lost or handled twice. *)
TextReachesHandler == part = "inbound" => Inbound!TextReachesHandler
===============================================================================
