-------------------------------- MODULE SlackBot --------------------------------
(***************************************************************************)
(* How people get into a SEV's incident channel: the Slack bot             *)
(* (cmd/slackbot), a process of its own with one event listener and one    *)
(* goroutine per slash command, and on the server CreateSEV, AssignRole    *)
(* and JoinSlackChannel (internal/api/grpc/sev.go, role.go).               *)
(*                                                                         *)
(* The listener learns of a SEV from the hub's sev.created event, makes    *)
(* its channel and invites the role holders, the creator and whoever ran   *)
(* /sev open. That command usually returns before the channel exists and   *)
(* leaves its user in pendingOpeners; when it returns later it invites     *)
(* its user itself. AssignRole invites into a channel that its SEV         *)
(* already names.                                                          *)
(*                                                                         *)
(* Messages posted to channels change nothing the bot reads. Sensitive     *)
(* SEVs are never published and have no channel. A user here has a Slack   *)
(* identity; others are skipped.                                           *)
(***************************************************************************)
EXTENDS Integers, Sequences

CONSTANTS
    Nil,
    Sev, User,
    Filing,         \* CreateSEV calls in flight, with the bot's goroutine if any
    Assigner,       \* AssignRole calls in flight
    BufferSize,     \* events the hub keeps for the bot (clientBufferSize)
    Faults,         \* what may fail: "api", "slack", "hub", "bot", "overwrite"
    MaxFaults       \* bound: failures

Opt(S) == S \union {Nil}

SevRow == [opener : Opt(User), creator : Opt(User), channel : BOOLEAN]

ASSUME BotAssumption ==
    /\ Nil \notin Sev /\ Nil \notin User /\ Nil \notin SevRow
    /\ BufferSize \in Nat \ {0} /\ MaxFaults \in Nat

VARIABLES
    sevs,       \* sevs[s]: Nil or [opener, creator, channel]: who ran /sev open
                \*   for s, its created_by, and whether slack_channel_id is set
    roles,      \* roles[s]: holders of s's roles
    filing,     \* filing[f]: where CreateSEV and the command that called it stand
    assign,     \* assign[a]: where AssignRole stands
    listening,  \* whether the bot is connected to the hub
    stream,     \* sev.created events on their way to the bot
    listener,   \* the event listener: the SEV it makes a channel for
    channels,   \* bot.channels, as the set of SEVs that have an entry
    pending,    \* bot.pendingOpeners
    chans,      \* Slack's channels, each named by its SEV
    members,    \* Slack's channel members
    faults,     \* failures so far
    spoiled,    \* history variable: SEVs on whose way a call failed, an event was
                \*   lost, or the bot was restarted
    due         \* history variable: due[s], the role holders of s who were stored
                \*   before the channel was made or by a handler that saw it

vars == <<sevs, roles, filing, assign, listening, stream, listener, channels,
          pending, chans, members, faults, spoiled, due>>

\* hung: the command waits for an answer that never comes.
FilingLoc == [pc : {"idle", "oncall", "publish", "register", "invite", "hung"},
              sev : Opt(Sev)]
AssignLoc == [pc : {"idle", "store", "invite"}, sev : Opt(Sev), user : Opt(User),
              channel : BOOLEAN]
ListenerLoc == [pc : {"idle", "create", "save", "roles", "creator", "take", "invite"},
                sev : Opt(Sev), invite : SUBSET User]

NoFiling  == [pc |-> "idle", sev |-> Nil]
NoAssign  == [pc |-> "idle", sev |-> Nil, user |-> Nil, channel |-> FALSE]
Listening == [pc |-> "idle", sev |-> Nil, invite |-> {}]

Init ==
    /\ sevs = [s \in Sev |-> Nil]
    /\ roles = [s \in Sev |-> {}]
    /\ filing = [f \in Filing |-> NoFiling]
    /\ assign = [a \in Assigner |-> NoAssign]
    /\ listening = FALSE
    /\ stream = <<>>
    /\ listener = Listening
    /\ channels = {}
    /\ pending = [s \in Sev |-> Nil]
    /\ chans = {}
    /\ members = [s \in Sev |-> {}]
    /\ faults = 0
    /\ spoiled = {}
    /\ due = [s \in Sev |-> {}]

server == <<sevs, roles, filing, assign>>
bot    == <<listening, stream, listener, channels, pending>>
slack  == <<chans, members>>

InStream(s) == \E i \in DOMAIN stream : stream[i] = s

\* The call about s goes through, or it fails and s is spoiled.
Works == UNCHANGED <<faults, spoiled>>
Fails(kind, s) ==
    /\ kind \in Faults
    /\ faults < MaxFaults
    /\ faults' = faults + 1
    /\ spoiled' = spoiled \union {s}

Invite(s, users) == members' = [members EXCEPT ![s] = @ \union users]

-------------------------------------------------------------------------------
(***************************************************************************)
(* CreateSEV, called by /sev open (opener) or by another client (creator). *)
(***************************************************************************)
CreateSEV(f, s, opener, creator) ==
    /\ filing[f].pc = "idle"
    /\ sevs[s] = Nil
    /\ opener # Nil => creator = Nil
    /\ sevs' = [sevs EXCEPT ![s] = [opener |-> opener, creator |-> creator,
                                    channel |-> FALSE]]
    /\ filing' = [filing EXCEPT ![f] = [pc |-> "oncall", sev |-> s]]
    /\ Works
    /\ UNCHANGED <<roles, assign, bot, slack, due>>

\* On-call auto-population, before the event goes out.
AssignOnCall(f) ==
    LET s == filing[f].sev IN
    /\ filing[f].pc = "oncall"
    /\ filing' = [filing EXCEPT ![f].pc = "publish"]
    /\ \/ UNCHANGED <<roles, due>>
       \/ \E u \in User : /\ roles' = [roles EXCEPT ![s] = @ \union {u}]
                          /\ due' = [due EXCEPT ![s] = @ \union {u}]
    /\ Works
    /\ UNCHANGED <<sevs, assign, bot, slack>>

\* Mutant: the hub keeps every event for the bot.
PublishAll(f) ==
    LET s == filing[f].sev IN
    /\ filing[f].pc = "publish"
    /\ filing' = [filing EXCEPT ![f] = IF sevs[s].opener = Nil THEN NoFiling
                                       ELSE [@ EXCEPT !.pc = "register"]]
    /\ stream' = Append(stream, s)
    /\ Works
    /\ UNCHANGED <<sevs, roles, assign, listening, listener, channels, pending, slack, due>>

\* The event is lost when the bot is away or too far behind.
Publish(f) ==
    LET s == filing[f].sev IN
    /\ filing[f].pc = "publish"
    /\ filing' = [filing EXCEPT ![f] = IF sevs[s].opener = Nil THEN NoFiling
                                       ELSE [@ EXCEPT !.pc = "register"]]
    /\ IF listening /\ Len(stream) < BufferSize
       THEN stream' = Append(stream, s) /\ UNCHANGED spoiled
       ELSE spoiled' = spoiled \union {s} /\ UNCHANGED stream
    /\ UNCHANGED <<sevs, roles, assign, listening, listener, channels, pending,
                   slack, faults, due>>

\* CreateSEV stops half-way, or its answer does not reach the bot.
FilingFails(f) ==
    /\ filing[f].pc \in {"oncall", "register"}
    /\ filing' = [filing EXCEPT ![f] = NoFiling]
    /\ Fails("api", filing[f].sev)
    /\ UNCHANGED <<sevs, roles, assign, bot, slack, due>>

-------------------------------------------------------------------------------
(***************************************************************************)
(* handleOpen, once CreateSEV has answered.                                *)
(***************************************************************************)

\* Mutant: the opener is registered without a look at the channels.
RegisterAlways(f) ==
    LET s == filing[f].sev IN
    /\ filing[f].pc = "register"
    /\ pending' = [pending EXCEPT ![s] = sevs[s].opener]
    /\ filing' = [filing EXCEPT ![f] = NoFiling]
    /\ Works
    /\ UNCHANGED <<sevs, roles, assign, listening, stream, listener, channels, slack, due>>

\* Mutant: the command waits for the channel.
AwaitChannel(f) ==
    /\ filing[f].pc = "register"
    /\ filing[f].sev \in channels
    /\ filing' = [filing EXCEPT ![f].pc = "invite"]
    /\ Works
    /\ UNCHANGED <<sevs, roles, assign, bot, slack, due>>

ChannelOrRegisterOpener(f) ==
    LET s == filing[f].sev IN
    /\ filing[f].pc = "register"
    /\ \/ /\ s \in channels
          /\ filing' = [filing EXCEPT ![f].pc = "invite"]
          /\ UNCHANGED pending
       \/ /\ s \notin channels
          /\ pending' = [pending EXCEPT ![s] = sevs[s].opener]
          /\ filing' = [filing EXCEPT ![f] = NoFiling]
    /\ Works
    /\ UNCHANGED <<sevs, roles, assign, listening, stream, listener, channels, slack, due>>

InviteOpener(f) ==
    LET s == filing[f].sev IN
    /\ filing[f].pc = "invite"
    /\ filing' = [filing EXCEPT ![f] = NoFiling]
    /\ \/ Invite(s, {sevs[s].opener}) /\ Works
       \/ Fails("slack", s) /\ UNCHANGED members
    /\ UNCHANGED <<sevs, roles, assign, bot, chans, due>>

\* Neither the bot's gRPC calls nor Slack's client has a deadline: the answer to CreateSEV or
\* to the invitation, which may have been carried out, never comes.
NoAnswer(f) ==
    LET s == filing[f].sev IN
    /\ filing[f].pc \in {"register", "invite"}
    /\ filing' = [filing EXCEPT ![f].pc = "hung"]
    /\ \/ filing[f].pc = "invite" /\ Invite(s, {sevs[s].opener})
       \/ UNCHANGED members
    /\ spoiled' = spoiled \union {s}
    /\ UNCHANGED <<sevs, roles, assign, bot, chans, faults, due>>

-------------------------------------------------------------------------------
(***************************************************************************)
(* The event listener.                                                     *)
(***************************************************************************)

\* connectAndListen: the listener reconnects when it is done with its event.
Connect ==
    /\ ~listening
    /\ listener.pc = "idle"
    /\ listening' = TRUE
    /\ Works
    /\ UNCHANGED <<server, stream, listener, channels, pending, slack, due>>

\* The events the hub had kept for the connection are lost with it.
Disconnect ==
    /\ listening
    /\ "hub" \in Faults
    /\ faults < MaxFaults
    /\ faults' = faults + 1
    /\ listening' = FALSE
    /\ stream' = <<>>
    /\ spoiled' = spoiled \union {s \in Sev : InStream(s)}
    /\ UNCHANGED <<server, listener, channels, pending, slack, due>>

HandleSEVCreated ==
    LET s == Head(stream) IN
    /\ listening
    /\ listener.pc = "idle"
    /\ stream # <<>>
    /\ stream' = Tail(stream)
    /\ listener' = IF s \in channels THEN Listening
                   ELSE [pc |-> "create", sev |-> s, invite |-> {}]
    /\ Works
    /\ UNCHANGED <<server, listening, channels, pending, slack, due>>

Goto(pc) == listener' = [listener EXCEPT !.pc = pc]

CreateChannel ==
    LET s == listener.sev IN
    /\ listener.pc = "create"
    /\ \/ /\ chans' = chans \union {s}
          /\ channels' = channels \union {s}
          /\ Goto("save")
          /\ Works
       \/ /\ Fails("slack", s)
          /\ listener' = Listening
          /\ UNCHANGED <<chans, channels>>
    /\ UNCHANGED <<server, listening, stream, pending, members, due>>

\* UpdateSEV with slack_channel_id.
WriteBack ==
    LET s == listener.sev IN
    /\ listener.pc = "save"
    /\ Goto("roles")
    /\ \/ sevs' = [sevs EXCEPT ![s].channel = TRUE] /\ Works
       \/ Fails("api", s) /\ UNCHANGED sevs
    /\ UNCHANGED <<roles, filing, assign, listening, stream, channels, pending, slack, due>>

\* A failure may take all of the role holders or some of them.
ResolveRoleHolders ==
    LET s == listener.sev IN
    /\ listener.pc = "roles"
    /\ \E found \in SUBSET roles[s] :
          /\ listener' = [listener EXCEPT !.pc = "creator", !.invite = found]
          /\ IF found = roles[s] THEN Works ELSE Fails("api", s)
    /\ UNCHANGED <<server, listening, stream, channels, pending, slack, due>>

\* Mutant: the creator replaces the role holders.
CreatorOnly ==
    LET creator == sevs[listener.sev].creator IN
    /\ listener.pc = "creator"
    /\ listener' = [listener EXCEPT !.pc = "take", !.invite = {creator} \ {Nil}]
    /\ Works
    /\ UNCHANGED <<server, listening, stream, channels, pending, slack, due>>

ResolveCreator ==
    LET creator == sevs[listener.sev].creator IN
    /\ listener.pc = "creator"
    /\ \/ /\ listener' = [listener EXCEPT !.pc = "take",
                                          !.invite = @ \union ({creator} \ {Nil})]
          /\ Works
       \/ Goto("take") /\ Fails("api", listener.sev)
    /\ UNCHANGED <<server, listening, stream, channels, pending, slack, due>>

\* Mutant: the pending opener is read and left in the map.
PeekPendingOpener ==
    /\ listener.pc = "take"
    /\ listener' = [listener EXCEPT !.pc = "invite",
                                    !.invite = @ \union ({pending[listener.sev]} \ {Nil})]
    /\ Works
    /\ UNCHANGED <<server, listening, stream, channels, pending, slack, due>>

TakePendingOpener ==
    LET s == listener.sev IN
    /\ listener.pc = "take"
    /\ listener' = [listener EXCEPT !.pc = "invite",
                                    !.invite = @ \union ({pending[s]} \ {Nil})]
    /\ pending' = [pending EXCEPT ![s] = Nil]
    /\ Works
    /\ UNCHANGED <<server, listening, stream, channels, slack, due>>

InviteUsers ==
    LET s == listener.sev IN
    /\ listener.pc = "invite"
    /\ listener' = Listening
    /\ \/ Invite(s, listener.invite) /\ Works
       \/ Fails("slack", s) /\ UNCHANGED members
    /\ UNCHANGED <<server, listening, stream, channels, pending, chans, due>>

\* SEVs the bot is busy with, or has yet to hear of.
Unsettled(s) ==
    \/ InStream(s) \/ listener.sev = s
    \/ \E f \in Filing : filing[f].sev = s

\* Both maps are in memory only. A CreateSEV the bot had called goes on at the
\* server, and nobody waits for its answer.
Restart ==
    /\ "bot" \in Faults
    /\ faults < MaxFaults
    /\ faults' = faults + 1
    /\ spoiled' = spoiled \union {s \in Sev : Unsettled(s)}
    /\ filing' = [f \in Filing |-> IF filing[f].pc \in {"register", "invite", "hung"}
                                   THEN NoFiling ELSE filing[f]]
    /\ sevs' = [s \in Sev |-> IF sevs[s] # Nil /\ Unsettled(s)
                              THEN [sevs[s] EXCEPT !.opener = Nil] ELSE sevs[s]]
    /\ listening' = FALSE
    /\ stream' = <<>>
    /\ listener' = Listening
    /\ channels' = {}
    /\ pending' = [s \in Sev |-> Nil]
    /\ UNCHANGED <<roles, assign, slack, due>>

-------------------------------------------------------------------------------
(***************************************************************************)
(* AssignRole and the others that act on slack_channel_id.                 *)
(***************************************************************************)

AssignRole(a, s, u) ==
    /\ assign[a].pc = "idle"
    /\ sevs[s] # Nil
    /\ assign' = [assign EXCEPT ![a] = [pc |-> "store", sev |-> s, user |-> u,
                                        channel |-> sevs[s].channel]]
    /\ Works
    /\ UNCHANGED <<sevs, roles, filing, bot, slack, due>>

StoreRole(a) ==
    LET s == assign[a].sev
        u == assign[a].user IN
    /\ assign[a].pc = "store"
    /\ \/ /\ roles' = [roles EXCEPT ![s] = @ \union {u}]
          /\ due' = IF assign[a].channel \/ s \notin chans
                    THEN [due EXCEPT ![s] = @ \union {u}] ELSE due
          /\ assign' = [assign EXCEPT ![a] = IF assign[a].channel
                                             THEN [@ EXCEPT !.pc = "invite"]
                                             ELSE NoAssign]
          /\ Works
       \/ /\ Fails("api", s)
          /\ assign' = [assign EXCEPT ![a] = NoAssign]
          /\ UNCHANGED <<roles, due>>
    /\ UNCHANGED <<sevs, filing, bot, slack>>

AutoInviteRoleToSlack(a) ==
    LET s == assign[a].sev IN
    /\ assign[a].pc = "invite"
    /\ assign' = [assign EXCEPT ![a] = NoAssign]
    /\ \/ Invite(s, {assign[a].user}) /\ Works
       \/ Fails("slack", s) /\ UNCHANGED members
    /\ UNCHANGED <<sevs, roles, filing, bot, chans, due>>

RemoveRole(s, u) ==
    /\ u \in roles[s]
    /\ roles' = [roles EXCEPT ![s] = @ \ {u}]
    /\ due' = [due EXCEPT ![s] = @ \ {u}]
    /\ Works
    /\ UNCHANGED <<sevs, filing, assign, bot, slack>>

\* InviteRoleToSlack has the same effect, for a role holder.
JoinSlackChannel(s, u) ==
    /\ sevs[s] # Nil
    /\ sevs[s].channel
    /\ Invite(s, {u})
    /\ Works
    /\ UNCHANGED <<server, bot, chans, due>>

\* A handler that read the row before the write-back stores it afterwards.
OverwriteSEV(s) ==
    /\ sevs[s] # Nil
    /\ sevs[s].channel
    /\ sevs' = [sevs EXCEPT ![s].channel = FALSE]
    /\ Fails("overwrite", s)
    /\ UNCHANGED <<roles, filing, assign, bot, slack, due>>

-------------------------------------------------------------------------------

FilingStep(f) ==
    \/ AssignOnCall(f) \/ Publish(f) \/ FilingFails(f)
    \/ ChannelOrRegisterOpener(f) \/ InviteOpener(f)

ListenerStep ==
    \/ HandleSEVCreated \/ CreateChannel \/ WriteBack \/ ResolveRoleHolders
    \/ ResolveCreator \/ TakePendingOpener \/ InviteUsers

Next ==
    \/ \E f \in Filing : \/ \E s \in Sev, opener, creator \in Opt(User) :
                               CreateSEV(f, s, opener, creator)
                         \/ FilingStep(f) \/ NoAnswer(f)
    \/ Connect \/ Disconnect \/ ListenerStep \/ Restart
    \/ \E a \in Assigner : \/ \E s \in Sev, u \in User : AssignRole(a, s, u)
                           \/ StoreRole(a) \/ AutoInviteRoleToSlack(a)
    \/ \E s \in Sev : \/ \E u \in User : RemoveRole(s, u) \/ JoinSlackChannel(s, u)
                      \/ OverwriteSEV(s)

Spec == Init /\ [][Next]_vars

\* CreateSEV and the goroutine of the command that called it run, but for the calls that
\* never answer (NoAnswer). Of the listener nothing is assumed: any of its calls may take
\* for ever.
FairSpec == Spec /\ \A f \in Filing : WF_vars(FilingStep(f))

-------------------------------------------------------------------------------

\* Every variable has its type, and the hub keeps no more than a buffer of events
\* for the bot.
TypeOK ==
    /\ sevs \in [Sev -> Opt(SevRow)]
    /\ roles \in [Sev -> SUBSET User]
    /\ filing \in [Filing -> FilingLoc]
    /\ assign \in [Assigner -> AssignLoc]
    /\ listening \in BOOLEAN
    /\ stream \in Seq(Sev)
    /\ Len(stream) <= BufferSize
    /\ listener \in ListenerLoc
    /\ channels \subseteq Sev
    /\ pending \in [Sev -> Opt(User)]
    /\ chans \subseteq Sev
    /\ members \in [Sev -> SUBSET User]
    /\ faults \in 0 .. MaxFaults
    /\ spoiled \subseteq Sev
    /\ due \in [Sev -> SUBSET User]

\* The listener has not yet come to s's pending opener.
TakeAhead(s) ==
    \/ InStream(s)
    \/ listener.sev = s /\ listener.pc \in {"create", "save", "roles", "creator", "take"}

\* An opener left for the listener is one the listener has yet to collect, however
\* the two goroutines interleave; nobody is left in the map for good.
PendingTaken ==
    \A s \in Sev : pending[s] # Nil => TakeAhead(s) \/ s \in spoiled

\* Once the command and the listener are through, who ran /sev open is in the
\* incident channel, whichever of the two came first.
OpenerInvited ==
    \A s \in Sev :
        sevs[s] # Nil /\ sevs[s].opener # Nil /\ ~Unsettled(s) /\ s \notin spoiled
            => sevs[s].opener \in members[s]

Assigning(s) == \E a \in Assigner : assign[a].sev = s

\* "A subscriber reacting to sev.created can immediately look up the on-call role":
\* a role stored before the channel was made, or by a handler that saw it on the
\* SEV, has brought its holder into the channel.
HoldersInvited ==
    \A s \in Sev :
        sevs[s] # Nil /\ ~Unsettled(s) /\ ~Assigning(s) /\ s \notin spoiled
            => due[s] \subseteq members[s]

\* "Incident-channel creation must never be the reason a SEV-open response fails or blocks":
\* every /sev open is answered unless a call of its own never is, though the listener may
\* hang for good at any step and the event may never reach it.
CommandsAnswered ==
    \A f \in Filing : filing[f].pc # "idle" ~> filing[f].pc \in {"idle", "hung"}

\* "If the SEV already has an incident Slack channel, invite this role's holder into
\* it immediately": with or without AssignRole's help, a role holder ends up in
\* the channel of the SEV.
EveryHolderInvited ==
    \A s \in Sev :
        sevs[s] # Nil /\ ~Unsettled(s) /\ ~Assigning(s) /\ s \notin spoiled
            => roles[s] \subseteq members[s]

===============================================================================
