------------------------------ MODULE UiEvents ------------------------------
(***************************************************************************)
(* Automatic refresh of open pages (services/ui_events.py, initUiSse of      *)
(* templates/base.html).  One task per API process reads a change token for   *)
(* every channel somebody subscribes to, and wakes the streams of a channel    *)
(* whose token has changed; the first token of a channel is only a baseline.   *)
(*                                                                         *)
(* Everything but the read runs on one event loop: a step is what happens      *)
(* between two awaits.  A token is the number of changes of its channel.       *)
(*                                                                         *)
(* A definition that nothing uses is a plausible fault of the one it stands  *)
(* before; PROJECT.json names the property that notices each of them.        *)
(***************************************************************************)
EXTENDS Naturals

CONSTANTS
    Streams,      \* open pages, each with its EventSource
    Channels,
    ChannelsOf,   \* ChannelsOf[s]: channels of subscribe
    MaxChanges,   \* bound on the changes of a channel
    MaxLeaves,    \* bound on broken connections
    MaxMisses,    \* bound on reads of which some token failed
    NoToken

ASSUME TokenAssumption == {MaxChanges, MaxLeaves, MaxMisses} \subseteq Nat /\ NoToken \notin Nat

VARIABLES
    data,         \* data[ch]: what channel_token would say
    subscribed,   \* subscribed[ch]: subscribers of its _ChannelState, if it has one
    born,         \* born[ch]: data[ch] when that _ChannelState was made
    base,         \* base[ch]: its token, NoToken before the first
    stream,       \* stream[s]: where sse_event_stream is
    pending,      \* pending[s]: channels to announce
    woken,        \* subscribers whose wake is set
    outgoing,     \* outgoing[s]: the events it is sending
    view,         \* view[s][ch]: the data the page shows
    poll,         \* where _poll is, "none" if _task is None
    snapshot,     \* the channels it reads
    mine,         \* those of them whose _ChannelState is still registered
    read,         \* read[ch]: what has been read
    closing,      \* "no", "wait" while close drains the read, "down"
    leaves, misses

pageVars == <<stream, outgoing, view>>
channelVars == <<subscribed, born, base>>
wakeVars == <<pending, woken>>
pollVars == <<poll, snapshot, mine, read>>
uiVars == <<data, channelVars, pageVars, wakeVars, pollVars, closing, leaves, misses>>

Present == {ch \in Channels : subscribed[ch] # {}}

UiInit ==
    /\ data = [ch \in Channels |-> 0]
    /\ subscribed = [ch \in Channels |-> {}]
    /\ born = [ch \in Channels |-> 0]
    /\ base = [ch \in Channels |-> NoToken]
    /\ stream = [s \in Streams |-> "page"]
    /\ pending = [s \in Streams |-> {}] /\ woken = {}
    /\ outgoing = [s \in Streams |-> {}]
    /\ view = [s \in Streams |-> [ch \in Channels |-> 0]]
    /\ poll = "none" /\ snapshot = {} /\ mine = {}
    /\ read = [ch \in Channels |-> NoToken]
    /\ closing = "no" /\ leaves = 0 /\ misses = 0

\* Somebody changes what a channel is about.
Change(ch) ==
    /\ data[ch] < MaxChanges
    /\ data' = [data EXCEPT ![ch] = data[ch] + 1]
    /\ UNCHANGED <<channelVars, pageVars, wakeVars, pollVars, closing, leaves, misses>>

-----------------------------------------------------------------------------
(* Streams.                                                                 *)

Subscribe(s) ==
    /\ stream[s] = "page" /\ closing = "no"
    /\ stream' = [stream EXCEPT ![s] = "waiting"]
    /\ subscribed' = [ch \in Channels |->
                        IF ch \in ChannelsOf[s] THEN subscribed[ch] \cup {s} ELSE subscribed[ch]]
    /\ born' = [ch \in Channels |-> IF ch \in ChannelsOf[s] \ Present THEN data[ch] ELSE born[ch]]
    /\ poll' = IF poll = "none" THEN "top" ELSE poll
    /\ UNCHANGED <<data, base, outgoing, view, wakeVars, snapshot, mine, read, closing, leaves, misses>>

ForgottenButRead(gone) == mine
\* A read under way is no longer about the channels in gone.
Forgotten(gone) == mine \ gone

\* The finally of subscribe; a _ChannelState without subscribers is dropped,
\* while a read that is under way goes on.
Unregister(s) ==
    LET gone == {ch \in Present : subscribed[ch] = {s}}
    IN /\ subscribed' = [ch \in Channels |-> subscribed[ch] \ {s}]
       /\ base' = [ch \in Channels |-> IF ch \in gone THEN NoToken ELSE base[ch]]
       /\ mine' = Forgotten(gone)
       /\ stream' = [stream EXCEPT ![s] = "gone"]
       /\ outgoing' = [outgoing EXCEPT ![s] = {}]
       /\ pending' = [pending EXCEPT ![s] = {}]
       /\ woken' = woken \ {s}
       /\ UNCHANGED <<data, born, view, poll, snapshot, read, closing, misses>>

\* The connection breaks.
LeavePage(s) ==
    /\ stream[s] \in {"waiting", "sending"}
    /\ leaves < MaxLeaves /\ leaves' = leaves + 1
    /\ Unregister(s)

\* The browser connects again and refreshes everything first.
Reconnect(s) ==
    /\ stream[s] = "gone" /\ closing = "no"
    /\ stream' = [stream EXCEPT ![s] = "page"]
    /\ view' = [view EXCEPT ![s] = data]
    /\ UNCHANGED <<data, channelVars, outgoing, wakeVars, pollVars, closing, leaves, misses>>

\* wait: pending changes are taken and the wake-up cleared in one step.
WakeUp(s) ==
    /\ stream[s] = "waiting" /\ s \in woken /\ closing = "no"
    /\ outgoing' = [outgoing EXCEPT ![s] = pending[s]]
    /\ pending' = [pending EXCEPT ![s] = {}]
    /\ woken' = woken \ {s}
    /\ stream' = [stream EXCEPT ![s] = "sending"]
    /\ UNCHANGED <<data, channelVars, view, pollVars, closing, leaves, misses>>

\* An event is sent and the page fetches its part again.
Announce(s, ch) ==
    /\ stream[s] = "sending" /\ ch \in outgoing[s]
    /\ outgoing' = [outgoing EXCEPT ![s] = outgoing[s] \ {ch}]
    /\ view' = [view EXCEPT ![s][ch] = data[ch]]
    /\ UNCHANGED <<data, channelVars, stream, wakeVars, pollVars, closing, leaves, misses>>

WaitAgain(s) ==
    /\ stream[s] = "sending" /\ outgoing[s] = {} /\ closing = "no"
    /\ stream' = [stream EXCEPT ![s] = "waiting"]
    /\ UNCHANGED <<data, channelVars, outgoing, view, wakeVars, pollVars, closing, leaves, misses>>

\* A stream that close has marked ends as soon as it looks.
EndStream(s) ==
    /\ closing # "no" /\ stream[s] \in {"waiting", "sending"} /\ outgoing[s] = {}
    /\ UNCHANGED leaves
    /\ Unregister(s)

-----------------------------------------------------------------------------
(* The task.                                                                *)

PollEndsDeaf == "ended"
PollEnds == "none"

\* The head of the loop, at the start or after the pause (or a wake-up).
PollTop ==
    /\ poll \in {"top", "asleep"}
    /\ IF Present # {} /\ closing = "no"
       THEN poll' = "reading" /\ snapshot' = Present /\ mine' = Present
       ELSE poll' = PollEnds /\ snapshot' = {} /\ mine' = {}
    /\ read' = [ch \in Channels |-> NoToken]
    /\ UNCHANGED <<data, channelVars, pageVars, wakeVars, closing, leaves, misses>>

\* The thread reads the tokens; those in failed could not be read.
ReadTokens(failed) ==
    /\ poll = "reading"
    /\ failed \subseteq snapshot
    /\ failed # {} => misses < MaxMisses
    /\ misses' = IF failed = {} THEN misses ELSE misses + 1
    /\ read' = [ch \in Channels |-> IF ch \in snapshot \ failed THEN data[ch] ELSE NoToken]
    /\ poll' = "answered"
    /\ UNCHANGED <<data, channelVars, pageVars, wakeVars, snapshot, mine, closing, leaves>>

LoopEndsUnread == mine = {} \/ closing # "no"
LoopEnds == Present = {} \/ closing # "no"

\* Back on the event loop.
ApplyTokens ==
    LET new == {ch \in mine : read[ch] # NoToken}
        changed == {ch \in new : base[ch] \notin {NoToken, read[ch]}}
    IN /\ poll = "answered"
       /\ base' = [ch \in Channels |-> IF ch \in new THEN read[ch] ELSE base[ch]]
       /\ pending' = [s \in Streams |-> pending[s] \cup {ch \in changed : s \in subscribed[ch]}]
       /\ woken' = woken \cup UNION {subscribed[ch] : ch \in changed}
       /\ poll' = IF LoopEnds THEN PollEnds ELSE "asleep"
       /\ snapshot' = {} /\ mine' = {} /\ read' = [ch \in Channels |-> NoToken]
       /\ UNCHANGED <<data, subscribed, born, pageVars, closing, leaves, misses>>

\* close on shutdown: all streams are told, the read is awaited.
Close ==
    /\ closing = "no"
    /\ closing' = "wait"
    /\ subscribed' = [ch \in Channels |-> {}]
    /\ base' = [ch \in Channels |-> NoToken]
    /\ woken' = woken \cup UNION {subscribed[ch] : ch \in Channels}
    /\ mine' = {}
    /\ UNCHANGED <<data, born, pageVars, pending, poll, snapshot, read, leaves, misses>>

Drained == poll = "none"

Down ==
    /\ closing = "wait" /\ Drained
    /\ closing' = "down"
    /\ UNCHANGED <<data, channelVars, pageVars, wakeVars, pollVars, leaves, misses>>

-----------------------------------------------------------------------------
StreamStep(s) == WakeUp(s) \/ WaitAgain(s) \/ EndStream(s) \/ \E ch \in Channels : Announce(s, ch)
PollStep == PollTop \/ ApplyTokens \/ \E failed \in SUBSET Channels : ReadTokens(failed)

UiNext ==
    \/ \E s \in Streams : Subscribe(s) \/ LeavePage(s) \/ Reconnect(s) \/ StreamStep(s)
    \/ PollStep \/ Close \/ Down
    \/ \E ch \in Channels : Change(ch)

UiSpec == UiInit /\ [][UiNext]_uiVars

\* The event loop and the thread go on.  Nobody has to open a page, to change
\* anything or to shut down.
UiFairness ==
    /\ \A s \in Streams : WF_uiVars(StreamStep(s))
    /\ WF_uiVars(PollStep) /\ WF_uiVars(Down)

-----------------------------------------------------------------------------
(* Properties.                                                              *)

UiTypeOK ==
    /\ data \in [Channels -> 0 .. MaxChanges] /\ born \in [Channels -> 0 .. MaxChanges]
    /\ subscribed \in [Channels -> SUBSET Streams]
    /\ base \in [Channels -> {NoToken} \cup 0 .. MaxChanges]
    /\ stream \in [Streams -> {"page", "waiting", "sending", "gone"}]
    /\ pending \in [Streams -> SUBSET Channels] /\ woken \subseteq Streams
    /\ outgoing \in [Streams -> SUBSET Channels]
    /\ view \in [Streams -> [Channels -> 0 .. MaxChanges]]
    /\ poll \in {"none", "top", "reading", "answered", "asleep"}
    /\ mine \subseteq snapshot /\ snapshot \subseteq Channels
    /\ read \in [Channels -> {NoToken} \cup 0 .. MaxChanges]
    /\ closing \in {"no", "wait", "down"}
    /\ leaves \in 0 .. MaxLeaves /\ misses \in 0 .. MaxMisses

\* The baseline of a channel is never older than its first subscriber, although
\* a read may have been under way when the last of the earlier ones left.
BaselineIsOwn == \A ch \in Present : base[ch] # NoToken => base[ch] >= born[ch]

\* When close has returned, no read holds a database session (shutdown).
NoReadAfterClose == closing = "down" => poll = "none"

\* Whoever subscribes is heard: there is a task as long as somebody subscribes, a
\* subscriber has a stream that takes what is pending, and where something is pending
\* the wake-up is set.
NobodyIsDeaf ==
    /\ Present # {} => poll # "none"
    /\ \A ch \in Channels : \A s \in subscribed[ch] : stream[s] \in {"waiting", "sending"}
    /\ \A s \in Streams : pending[s] # {} => s \in woken

\* A baseline stays while its subscribers do or gives way to a token they are all told
\* of, and what a page is owed it is owed until it shows the newest data or is gone.
KeepsOwed(s, ch) ==
    /\ s \in subscribed[ch] \cap subscribed'[ch] /\ base[ch] \notin {NoToken, base'[ch]}
          => base'[ch] # NoToken /\ ch \in pending'[s]
    /\ ch \in pending[s] \cup outgoing[s]
          => \/ ch \in pending'[s] \cup outgoing'[s]
             \/ view'[s][ch] = data'[ch]
             \/ stream'[s] = "gone"

\* No step loses a change of which a subscriber has a baseline (_poll, wait and the
\* finally of subscribe).
ChangesAreOwed == [][\A s \in Streams, ch \in Channels : KeepsOwed(s, ch)]_uiVars

\* Every channel somebody looks at gets a baseline, and whatever changes after it
\* is fetched by every page that stays: no wake-up is lost, and no subscriber is
\* left without a task, however subscribers, reads and the end of the task
\* interleave.
ChangesReachThePage ==
    \A ch \in Channels :
        /\ []<>(subscribed[ch] = {} \/ base[ch] # NoToken)
        /\ \A s \in Streams :
              (s \in subscribed[ch] /\ base[ch] # NoToken /\ data[ch] > base[ch])
                 ~> (view[s][ch] = data[ch] \/ s \notin subscribed[ch])
=============================================================================
