----------------------------- MODULE SlackBotProofs -----------------------------
(***************************************************************************)
(* SlackBot for any number of SEVs, users, commands and assignments, and   *)
(* any failures: types, nobody left in pendingOpeners, openers and role    *)
(* holders invited.                                                        *)
(***************************************************************************)
EXTENDS SlackBot, TLAPS

(***************************************************************************)
(* Types. A goroutine that is somewhere is there for a SEV that exists,    *)
(* and one that waits to register or invite its opener has one.            *)
(***************************************************************************)
FilingsOK ==
    \A f \in Filing :
        /\ filing[f].pc = "idle" <=> filing[f].sev = Nil
        /\ filing[f].pc # "idle" => sevs[filing[f].sev] # Nil
        /\ filing[f].pc \in {"register", "invite"} => sevs[filing[f].sev].opener # Nil

AssignsOK ==
    \A a \in Assigner :
        assign[a].pc # "idle" => /\ assign[a].sev # Nil /\ assign[a].user # Nil
                                 /\ sevs[assign[a].sev] # Nil

StreamOK == \A s \in Sev : InStream(s) => sevs[s] # Nil

ListenerOK ==
    /\ listener.pc = "idle" <=> listener.sev = Nil
    /\ listener.pc # "idle" => sevs[listener.sev] # Nil

TypeInv == TypeOK /\ FilingsOK /\ AssignsOK /\ StreamOK /\ ListenerOK

LEMMA InitType ==
    ASSUME Init
    PROVE  TypeInv
<1>1. TypeOK
  <2>1. NoFiling \in FilingLoc /\ NoAssign \in AssignLoc /\ Listening \in ListenerLoc
    BY DEF FilingLoc, AssignLoc, ListenerLoc, NoFiling, NoAssign, Listening, Opt
  <2>2. stream \in Seq(Sev) /\ Len(stream) <= BufferSize
    BY BotAssumption DEF Init
  <2>3. sevs \in [Sev -> Opt(SevRow)] /\ pending \in [Sev -> Opt(User)]
    BY DEF Init, Opt
  <2>4. /\ roles \in [Sev -> SUBSET User] /\ members \in [Sev -> SUBSET User]
        /\ due \in [Sev -> SUBSET User]
    BY DEF Init
  <2>5. filing \in [Filing -> FilingLoc] /\ assign \in [Assigner -> AssignLoc]
    BY <2>1 DEF Init
  <2>6. channels \subseteq Sev /\ chans \subseteq Sev /\ spoiled \subseteq Sev
    BY DEF Init
  <2>7. faults \in 0 .. MaxFaults
    BY BotAssumption DEF Init
  <2>8. listening \in BOOLEAN
    BY DEF Init
  <2> QED
    BY <2>1, <2>2, <2>3, <2>4, <2>5, <2>6, <2>7, <2>8 DEF Init, TypeOK
<1>2. FilingsOK /\ AssignsOK
  BY DEF Init, FilingsOK, AssignsOK, NoFiling, NoAssign
<1>3. StreamOK /\ ListenerOK
  BY DEF Init, StreamOK, ListenerOK, InStream, Listening
<1> QED
  BY <1>1, <1>2, <1>3 DEF TypeInv

\* The stream after a publication.
LEMMA Appended ==
    ASSUME stream \in Seq(Sev), NEW s \in Sev, stream' = Append(stream, s)
    PROVE  /\ stream' \in Seq(Sev)
           /\ Len(stream') = Len(stream) + 1
           /\ \A t \in Sev : InStream(t)' <=> InStream(t) \/ t = s
<1>1. DOMAIN stream' = 1 .. Len(stream) + 1 /\ DOMAIN stream = 1 .. Len(stream)
  OBVIOUS
<1>2. stream'[Len(stream) + 1] = s
  OBVIOUS
<1>3. \A i \in DOMAIN stream : stream'[i] = stream[i]
  OBVIOUS
<1>4. Len(stream) \in Nat
  OBVIOUS
<1> QED
  BY <1>1, <1>2, <1>3, <1>4 DEF InStream

\* The stream after an event has been read from it.
LEMMA Shortened ==
    ASSUME stream \in Seq(Sev), stream # <<>>, stream' = Tail(stream)
    PROVE  /\ Head(stream) \in Sev /\ InStream(Head(stream))
           /\ stream' \in Seq(Sev)
           /\ Len(stream') <= Len(stream)
           /\ \A t \in Sev : InStream(t)' => InStream(t)
           /\ \A t \in Sev : InStream(t) => InStream(t)' \/ t = Head(stream)
           /\ \A i \in DOMAIN stream' : i + 1 \in DOMAIN stream /\ stream'[i] = stream[i + 1]
<1>1. Len(stream) \in Nat /\ Len(stream) # 0 /\ Len(Tail(stream)) = Len(stream) - 1
  OBVIOUS
<1>2. DOMAIN stream = 1 .. Len(stream) /\ DOMAIN stream' = 1 .. Len(stream) - 1
  BY <1>1
<1>3. \A i \in DOMAIN stream' : i + 1 \in DOMAIN stream /\ stream'[i] = stream[i + 1]
  BY <1>1, <1>2
<1>4. Head(stream) = stream[1] /\ 1 \in DOMAIN stream
  BY <1>1, <1>2
<1>5. \A t \in Sev : InStream(t)' => InStream(t)
  BY <1>3 DEF InStream
<1>6. ASSUME NEW i \in DOMAIN stream, i # 1
      PROVE  i - 1 \in DOMAIN stream' /\ stream'[i - 1] = stream[i]
  BY <1>1, <1>2, <1>3, <1>6
<1>7. \A t \in Sev : InStream(t) => InStream(t)' \/ t = Head(stream)
  BY <1>4, <1>6 DEF InStream
<1> QED
  BY <1>1, <1>2, <1>3, <1>4, <1>5, <1>7 DEF InStream

\* A step that leaves the stream alone leaves what is in it.
LEMMA SameStream ==
    ASSUME stream' = stream
    PROVE  \A t : InStream(t)' = InStream(t)
  BY DEF InStream

LEMMA EmptyStream ==
    ASSUME stream' = <<>>
    PROVE  \A t : ~ InStream(t)'
  BY DEF InStream

LEMMA FilingType ==
    ASSUME TypeInv, NEW f \in Filing, FilingStep(f) \/ NoAnswer(f)
    PROVE  TypeInv'
<1> DEFINE s == filing[f].sev
<1> USE BotAssumption DEF TypeInv, TypeOK, Opt, FilingLoc
<1>0. filing[f] \in FilingLoc
  OBVIOUS
<1>1. CASE AssignOnCall(f)
  <2>1. s \in Sev
    BY <1>1 DEF AssignOnCall, FilingsOK
  <2>2. filing' = [filing EXCEPT ![f].pc = "publish"] /\ UNCHANGED <<sevs, assign, stream, listener>>
    BY <1>1 DEF AssignOnCall, bot
  <2>3. FilingsOK'
    BY <1>1, <2>2 DEF FilingsOK, AssignOnCall
  <2>4. AssignsOK' /\ StreamOK' /\ ListenerOK'
    BY <2>2 DEF AssignsOK, StreamOK, ListenerOK, InStream
  <2>5. filing' \in [Filing -> FilingLoc]
    <3>1. [filing[f] EXCEPT !.pc = "publish"] \in FilingLoc
      BY DEF FilingLoc
    <3> QED
      BY <2>2, <3>1
  <2>6. roles' \in [Sev -> SUBSET User] /\ due' \in [Sev -> SUBSET User]
    <3>1. CASE UNCHANGED <<roles, due>>
      BY <3>1
    <3>2. CASE \E u \in User : /\ roles' = [roles EXCEPT ![s] = @ \union {u}]
                              /\ due' = [due EXCEPT ![s] = @ \union {u}]
      BY <2>1, <3>2
    <3> QED
      BY <1>1, <3>1, <3>2 DEF AssignOnCall
  <2>7. UNCHANGED <<sevs, assign, listening, stream, listener, channels, pending, chans,
                    members, faults, spoiled>>
    BY <1>1 DEF AssignOnCall, Works, bot, slack
  <2>8. TypeOK'
    BY <2>5, <2>6, <2>7
  <2> QED
    BY <2>3, <2>4, <2>8
<1>2. CASE Publish(f)
  <2>1. s \in Sev /\ sevs[s] # Nil
    BY <1>2 DEF Publish, FilingsOK
  <2>2. /\ filing' = [filing EXCEPT ![f] = IF sevs[s].opener = Nil THEN NoFiling
                                           ELSE [@ EXCEPT !.pc = "register"]]
        /\ UNCHANGED <<sevs, assign, listener>>
    BY <1>2 DEF Publish
  <2>3. FilingsOK'
    BY <1>2, <2>1, <2>2 DEF FilingsOK, Publish, NoFiling
  <2>4. \/ stream' = Append(stream, s) /\ Len(stream) < BufferSize
        \/ stream' = stream
    BY <1>2 DEF Publish
  <2>5. /\ stream' \in Seq(Sev) /\ Len(stream') <= BufferSize
        /\ \A t \in Sev : InStream(t)' => InStream(t) \/ t = s
    BY <2>1, <2>4, Appended, SameStream
  <2>6. AssignsOK' /\ StreamOK' /\ ListenerOK'
    BY <2>1, <2>2, <2>5 DEF AssignsOK, StreamOK, ListenerOK
  <2>7. filing' \in [Filing -> FilingLoc]
    BY <2>2 DEF NoFiling
  <2>8. TypeOK'
    BY <1>2, <2>1, <2>5, <2>7 DEF Publish, slack
  <2> QED
    BY <2>3, <2>6, <2>8
<1>3. CASE FilingFails(f)
  <2>1. s \in Sev
    BY <1>3 DEF FilingFails, FilingsOK
  <2>2. filing' = [filing EXCEPT ![f] = NoFiling] /\ UNCHANGED <<sevs, assign, stream, listener>>
    BY <1>3 DEF FilingFails, bot
  <2>3. FilingsOK' /\ AssignsOK' /\ StreamOK' /\ ListenerOK'
    BY <2>2 DEF FilingsOK, NoFiling, AssignsOK, StreamOK, ListenerOK, InStream
  <2>4. TypeOK'
    BY <1>3, <2>1, <2>2 DEF FilingFails, bot, slack, Fails, NoFiling
  <2> QED
    BY <2>3, <2>4
<1>4. CASE ChannelOrRegisterOpener(f)
  <2>1. s \in Sev /\ sevs[s] \in SevRow /\ sevs[s].opener # Nil
    BY <1>4 DEF ChannelOrRegisterOpener, FilingsOK
  <2>2. /\ filing' \in {[filing EXCEPT ![f].pc = "invite"], [filing EXCEPT ![f] = NoFiling]}
        /\ UNCHANGED <<sevs, assign, stream, listener>>
    BY <1>4 DEF ChannelOrRegisterOpener
  <2>3. FilingsOK'
    <3>1. CASE filing' = [filing EXCEPT ![f].pc = "invite"]
      BY <1>4, <2>1, <2>2, <3>1 DEF ChannelOrRegisterOpener, FilingsOK
    <3>2. CASE filing' = [filing EXCEPT ![f] = NoFiling]
      BY <2>2, <3>2 DEF FilingsOK, NoFiling
    <3> QED
      BY <2>2, <3>1, <3>2
  <2>4. AssignsOK' /\ StreamOK' /\ ListenerOK'
    BY <2>2 DEF AssignsOK, StreamOK, ListenerOK, InStream
  <2>5. pending' \in [Sev -> Opt(User)]
    BY <1>4, <2>1 DEF ChannelOrRegisterOpener, SevRow
  <2>6. filing' \in [Filing -> FilingLoc]
    <3>1. CASE filing' = [filing EXCEPT ![f].pc = "invite"]
      <4>1. [filing[f] EXCEPT !.pc = "invite"] \in FilingLoc
        BY DEF FilingLoc
      <4> QED
        BY <3>1, <4>1
    <3>2. CASE filing' = [filing EXCEPT ![f] = NoFiling]
      BY <3>2 DEF NoFiling, FilingLoc
    <3> QED
      BY <2>2, <3>1, <3>2
  <2>7. TypeOK'
    BY <1>4, <2>2, <2>5, <2>6 DEF ChannelOrRegisterOpener, slack, Works
  <2> QED
    BY <2>3, <2>4, <2>7
<1>5. CASE InviteOpener(f)
  <2>1. s \in Sev /\ sevs[s] \in SevRow /\ sevs[s].opener \in User
    BY <1>5 DEF InviteOpener, FilingsOK, SevRow
  <2>2. filing' = [filing EXCEPT ![f] = NoFiling] /\ UNCHANGED <<sevs, assign, stream, listener>>
    BY <1>5 DEF InviteOpener, bot
  <2>3. FilingsOK' /\ AssignsOK' /\ StreamOK' /\ ListenerOK'
    BY <2>2 DEF FilingsOK, NoFiling, AssignsOK, StreamOK, ListenerOK, InStream
  <2>4. TypeOK'
    BY <1>5, <2>1, <2>2 DEF InviteOpener, bot, Works, Fails, Invite, NoFiling
  <2> QED
    BY <2>3, <2>4
<1>6. CASE NoAnswer(f)
  <2>1. s \in Sev /\ sevs[s] \in SevRow /\ filing[f].pc \in {"register", "invite"}
    BY <1>6 DEF NoAnswer, FilingsOK
  <2>2. sevs[s].opener \in User
    BY <2>1 DEF FilingsOK, SevRow
  <2>3. /\ filing' = [filing EXCEPT ![f].pc = "hung"]
        /\ UNCHANGED <<sevs, assign, stream, listener>>
    BY <1>6 DEF NoAnswer, bot
  <2>4. FilingsOK'
    BY <2>1, <2>3 DEF FilingsOK
  <2>5. AssignsOK' /\ StreamOK' /\ ListenerOK'
    BY <2>3 DEF AssignsOK, StreamOK, ListenerOK, InStream
  <2>6. filing' \in [Filing -> FilingLoc]
    <3>1. [filing[f] EXCEPT !.pc = "hung"] \in FilingLoc
      BY DEF FilingLoc
    <3> QED
      BY <2>3, <3>1
  <2>7. members' \in [Sev -> SUBSET User] /\ spoiled' \subseteq Sev
    BY <1>6, <2>1, <2>2 DEF NoAnswer, Invite
  <2>8. TypeOK'
    BY <1>6, <2>6, <2>7 DEF NoAnswer, bot
  <2> QED
    BY <2>4, <2>5, <2>8
<1> QED
  BY <1>1, <1>2, <1>3, <1>4, <1>5, <1>6 DEF FilingStep

LEMMA ListenerType ==
    ASSUME TypeInv, ListenerStep
    PROVE  TypeInv'
<1> DEFINE s == listener.sev
<1> USE BotAssumption DEF TypeInv, TypeOK, Opt
<1>1. CASE HandleSEVCreated
  <2>1. /\ Head(stream) \in Sev /\ InStream(Head(stream))
        /\ stream' \in Seq(Sev)
        /\ Len(stream') <= Len(stream)
        /\ \A t \in Sev : InStream(t)' => InStream(t)
    BY <1>1, Shortened DEF HandleSEVCreated
  <2>2. /\ listener' \in {Listening, [pc |-> "create", sev |-> Head(stream), invite |-> {}]}
        /\ UNCHANGED <<sevs, filing, assign>>
    BY <1>1 DEF HandleSEVCreated, server
  <2>3. listener' \in ListenerLoc /\ ListenerOK'
    BY <2>1, <2>2 DEF ListenerLoc, Listening, ListenerOK, StreamOK
  <2>4. FilingsOK' /\ AssignsOK' /\ StreamOK'
    BY <2>1, <2>2 DEF FilingsOK, AssignsOK, StreamOK
  <2>5. Len(stream') <= BufferSize
    BY <2>1
  <2>6. TypeOK'
    BY <1>1, <2>1, <2>3, <2>5 DEF HandleSEVCreated, server, slack, Works
  <2> QED
    BY <2>3, <2>4, <2>6
<1>2. ASSUME listener.pc # "idle"
      PROVE  s \in Sev /\ sevs[s] \in SevRow
  BY <1>2 DEF ListenerOK, ListenerLoc
<1>3. CASE CreateChannel
  <2>1. /\ listener' \in {[listener EXCEPT !.pc = "save"], Listening}
        /\ UNCHANGED <<sevs, filing, assign, stream>>
    BY <1>3 DEF CreateChannel, Goto, server
  <2>2. s \in Sev /\ sevs[s] # Nil
    BY <1>2, <1>3 DEF CreateChannel, ListenerOK
  <2>3. listener' \in ListenerLoc /\ ListenerOK'
    BY <2>1, <2>2 DEF ListenerLoc, Listening, ListenerOK
  <2>4. FilingsOK' /\ AssignsOK' /\ StreamOK'
    BY <2>1 DEF FilingsOK, AssignsOK, StreamOK, InStream
  <2>5. TypeOK'
    BY <1>3, <2>2, <2>3 DEF CreateChannel, server, Works, Fails
  <2> QED
    BY <2>3, <2>4, <2>5
<1>4. CASE WriteBack
  <2>1. /\ listener' = [listener EXCEPT !.pc = "roles"]
        /\ UNCHANGED <<filing, assign, stream>>
        /\ sevs' \in {sevs, [sevs EXCEPT ![s].channel = TRUE]}
    BY <1>4 DEF WriteBack, Goto
  <2>2. s \in Sev /\ sevs[s] \in SevRow /\ sevs[s] # Nil
    BY <1>2, <1>4 DEF WriteBack, ListenerOK
  <2>3. /\ sevs' \in [Sev -> Opt(SevRow)]
        /\ \A t \in Sev : sevs[t] # Nil => sevs'[t] # Nil /\ sevs'[t].opener = sevs[t].opener
    <3>1. CASE sevs' = sevs
      BY <3>1
    <3>2. CASE sevs' = [sevs EXCEPT ![s].channel = TRUE]
      <4>1. [sevs[s] EXCEPT !.channel = TRUE] \in SevRow
        BY <2>2 DEF SevRow
      <4>2. /\ [sevs[s] EXCEPT !.channel = TRUE].opener = sevs[s].opener
            /\ [sevs[s] EXCEPT !.channel = TRUE] # Nil
        BY <2>2, <4>1 DEF SevRow
      <4> QED
        BY <3>2, <2>2, <4>1, <4>2
    <3> QED
      BY <2>1, <3>1, <3>2
  <2>4. listener' \in ListenerLoc /\ ListenerOK'
    BY <2>1, <2>2, <2>3 DEF ListenerLoc, ListenerOK
  <2>5. FilingsOK'
    BY <2>1, <2>3 DEF FilingsOK, FilingLoc
  <2>6. AssignsOK' /\ StreamOK'
    BY <2>1, <2>3 DEF AssignsOK, AssignLoc, StreamOK, InStream
  <2>7. TypeOK'
    BY <1>4, <2>2, <2>3, <2>4 DEF WriteBack, slack, Works, Fails
  <2> QED
    BY <2>4, <2>5, <2>6, <2>7
<1>5. CASE ResolveRoleHolders \/ ResolveCreator \/ TakePendingOpener
  <2>1. s \in Sev /\ sevs[s] \in SevRow /\ sevs[s] # Nil
    BY <1>2, <1>5 DEF ResolveRoleHolders, ResolveCreator, TakePendingOpener, ListenerOK
  <2>2. PICK invite \in SUBSET User, pc \in {"creator", "take", "invite"} :
            listener' = [listener EXCEPT !.pc = pc, !.invite = invite]
    <3>1. CASE ResolveRoleHolders
      BY <2>1, <3>1 DEF ResolveRoleHolders
    <3>2. CASE ResolveCreator
      <4>1. listener.invite \subseteq User /\ {sevs[s].creator} \ {Nil} \subseteq User
        BY <2>1 DEF ListenerLoc, SevRow
      <4>2. CASE Goto("take")
        <5>1. listener' = [listener EXCEPT !.pc = "take", !.invite = listener.invite]
          BY <4>2 DEF Goto, ListenerLoc
        <5> QED
          BY <4>1, <5>1
      <4>3. CASE listener' = [listener EXCEPT !.pc = "take",
                                !.invite = @ \union ({sevs[s].creator} \ {Nil})]
        BY <4>1, <4>3
      <4> QED
        BY <3>2, <4>2, <4>3 DEF ResolveCreator
    <3>3. CASE TakePendingOpener
      <4>1. listener.invite \subseteq User /\ {pending[s]} \ {Nil} \subseteq User
        BY <2>1 DEF ListenerLoc
      <4> QED
        BY <3>3, <4>1 DEF TakePendingOpener
    <3> QED
      BY <1>5, <3>1, <3>2, <3>3
  <2>3. UNCHANGED <<sevs, filing, assign, stream>>
    BY <1>5 DEF ResolveRoleHolders, ResolveCreator, TakePendingOpener, server
  <2>4. listener' \in ListenerLoc /\ ListenerOK'
    BY <2>1, <2>2, <2>3 DEF ListenerLoc, ListenerOK
  <2>5. FilingsOK' /\ AssignsOK' /\ StreamOK'
    BY <2>3 DEF FilingsOK, AssignsOK, StreamOK, InStream
  <2>6. /\ pending' \in [Sev -> Opt(User)]
        /\ UNCHANGED <<roles, listening, channels, chans, members, due>>
        /\ Works \/ Fails("api", s)
    BY <1>5 DEF ResolveRoleHolders, ResolveCreator, TakePendingOpener, server, slack
  <2>7. TypeOK'
    BY <2>1, <2>3, <2>4, <2>6 DEF Works, Fails
  <2> QED
    BY <2>4, <2>5, <2>7
<1>6. CASE InviteUsers
  <2>1. listener' = Listening /\ UNCHANGED <<sevs, filing, assign, stream>>
    BY <1>6 DEF InviteUsers, server
  <2>2. s \in Sev
    BY <1>2, <1>6 DEF InviteUsers
  <2>3. listener' \in ListenerLoc /\ ListenerOK'
    BY <2>1 DEF ListenerLoc, Listening, ListenerOK
  <2>4. FilingsOK' /\ AssignsOK' /\ StreamOK'
    BY <2>1 DEF FilingsOK, AssignsOK, StreamOK, InStream
  <2>5. TypeOK'
    BY <1>6, <2>2, <2>3 DEF InviteUsers, server, Works, Fails, Invite, ListenerLoc
  <2> QED
    BY <2>3, <2>4, <2>5
<1> QED
  BY <1>1, <1>3, <1>4, <1>5, <1>6 DEF ListenerStep

\* The bot is gone: no goroutine of its own, and whoever ran /sev open for a SEV
\* that was not settled is forgotten.
LEMMA RestartType ==
    ASSUME TypeInv, Restart
    PROVE  TypeInv'
<1> USE DEF TypeInv, TypeOK
<1>1. \A s \in Sev : /\ sevs[s] = Nil <=> sevs'[s] = Nil
                     /\ sevs'[s] \in Opt(SevRow)
  <2> SUFFICES ASSUME NEW s \in Sev
               PROVE  (sevs[s] = Nil <=> sevs'[s] = Nil) /\ sevs'[s] \in Opt(SevRow)
    OBVIOUS
  <2>1. CASE sevs'[s] = sevs[s]
    BY <2>1
  <2>2. CASE sevs[s] # Nil /\ sevs'[s] = [sevs[s] EXCEPT !.opener = Nil]
    <3>1. sevs[s] \in SevRow
      BY <2>2 DEF Opt
    <3>2. [sevs[s] EXCEPT !.opener = Nil] \in SevRow
      BY <3>1 DEF SevRow, Opt
    <3> QED
      BY <2>2, <3>2, BotAssumption DEF Opt
  <2> QED
    BY <2>1, <2>2 DEF Restart
<1>2. sevs' \in [Sev -> Opt(SevRow)]
  BY <1>1 DEF Restart
<1>3. \A f \in Filing : \/ filing'[f] = filing[f] /\ filing[f].pc \notin {"register", "invite"}
                        \/ filing'[f] = NoFiling
  BY DEF Restart
<1>4. NoFiling \in FilingLoc /\ Listening \in ListenerLoc
  BY DEF NoFiling, FilingLoc, Listening, ListenerLoc, Opt
<1>5. filing' \in [Filing -> FilingLoc]
  BY <1>3, <1>4 DEF Restart
<1>6. FilingsOK'
  BY <1>1, <1>3 DEF FilingsOK, NoFiling, FilingLoc, Opt
<1>7. AssignsOK'
  BY <1>1 DEF Restart, AssignsOK, AssignLoc, Opt
<1>8. stream' = <<>> /\ listener' = Listening
  BY DEF Restart
<1>9. StreamOK' /\ ListenerOK'
  BY <1>8, EmptyStream DEF StreamOK, ListenerOK, Listening
<1>10. stream' \in Seq(Sev) /\ Len(stream') <= BufferSize
  BY <1>8, BotAssumption
<1>11. pending' \in [Sev -> Opt(User)]
  BY DEF Restart, Opt
<1>12. faults' \in 0 .. MaxFaults /\ spoiled' \subseteq Sev /\ channels' \subseteq Sev
  BY BotAssumption DEF Restart
<1>13. listening' \in BOOLEAN
  BY DEF Restart
<1>14. TypeOK'
  BY <1>2, <1>4, <1>5, <1>8, <1>10, <1>11, <1>12, <1>13 DEF Restart, slack
<1> QED
  BY <1>6, <1>7, <1>9, <1>14

LEMMA AssignerType ==
    ASSUME TypeInv, NEW a \in Assigner,
           (\E s \in Sev, u \in User : AssignRole(a, s, u)) \/ StoreRole(a)
             \/ AutoInviteRoleToSlack(a)
    PROVE  TypeInv'
<1> DEFINE s == assign[a].sev
           u == assign[a].user
<1> USE BotAssumption DEF TypeInv, TypeOK, Opt, AssignLoc
<1>1. NoAssign \in AssignLoc
  BY DEF NoAssign
<1>2. CASE \E t \in Sev, v \in User : AssignRole(a, t, v)
  <2>1. PICK t \in Sev, v \in User : AssignRole(a, t, v)
    BY <1>2
  <2>2. sevs[t] \in SevRow /\ sevs[t] # Nil
    BY <2>1 DEF AssignRole
  <2>3. UNCHANGED <<sevs, roles, filing, stream, listener>>
    BY <2>1 DEF AssignRole, bot
  <2>4. [pc |-> "store", sev |-> t, user |-> v, channel |-> sevs[t].channel] \in AssignLoc
    BY <2>2 DEF SevRow
  <2>5. assign' \in [Assigner -> AssignLoc] /\ AssignsOK'
    BY <2>1, <2>2, <2>3, <2>4 DEF AssignRole, AssignsOK
  <2>6. FilingsOK' /\ StreamOK' /\ ListenerOK'
    BY <2>3 DEF FilingsOK, StreamOK, ListenerOK, InStream
  <2>7. TypeOK'
    BY <2>1, <2>5 DEF AssignRole, bot, slack, Works
  <2> QED
    BY <2>5, <2>6, <2>7
<1>3. CASE StoreRole(a)
  <2>1. s \in Sev /\ u \in User /\ sevs[s] # Nil
    BY <1>3 DEF StoreRole, AssignsOK
  <2>2. /\ UNCHANGED <<sevs, filing, stream, listener>>
        /\ assign' \in {[assign EXCEPT ![a].pc = "invite"], [assign EXCEPT ![a] = NoAssign]}
    BY <1>3 DEF StoreRole, bot
  <2>3. AssignsOK'
    <3>1. CASE assign' = [assign EXCEPT ![a].pc = "invite"]
      BY <2>1, <2>2, <3>1 DEF AssignsOK
    <3>2. CASE assign' = [assign EXCEPT ![a] = NoAssign]
      BY <2>2, <3>2 DEF AssignsOK, NoAssign
    <3> QED
      BY <2>2, <3>1, <3>2
  <2>4. assign' \in [Assigner -> AssignLoc]
    <3>1. PICK l : l = [assign[a] EXCEPT !.pc = "invite"]
      OBVIOUS
    <3>2. l \in AssignLoc
      BY <1>1, <3>1 DEF AssignLoc
    <3>3. [assign EXCEPT ![a].pc = "invite"] = [assign EXCEPT ![a] = l]
      BY <3>1
    <3>4. \A m \in AssignLoc : [assign EXCEPT ![a] = m] \in [Assigner -> AssignLoc]
      BY <1>1
    <3> QED
      BY <1>1, <2>2, <3>2, <3>3, <3>4
  <2>5. FilingsOK' /\ StreamOK' /\ ListenerOK'
    BY <2>2 DEF FilingsOK, StreamOK, ListenerOK, InStream
  <2>6. roles' \in [Sev -> SUBSET User] /\ due' \in [Sev -> SUBSET User]
    <3>1. /\ roles' \in {roles, [roles EXCEPT ![s] = @ \union {u}]}
          /\ due' \in {due, [due EXCEPT ![s] = @ \union {u}]}
      BY <1>3 DEF StoreRole
    <3>2. /\ [roles EXCEPT ![s] = @ \union {u}] \in [Sev -> SUBSET User]
          /\ [due EXCEPT ![s] = @ \union {u}] \in [Sev -> SUBSET User]
      BY <2>1
    <3> QED
      BY <3>1, <3>2
  <2>7. TypeOK'
    BY <1>3, <2>1, <2>4, <2>6 DEF StoreRole, bot, slack, Works, Fails
  <2> QED
    BY <2>3, <2>5, <2>7
<1>4. CASE AutoInviteRoleToSlack(a)
  <2>1. s \in Sev /\ u \in User
    BY <1>4 DEF AutoInviteRoleToSlack, AssignsOK
  <2>2. /\ UNCHANGED <<sevs, filing, stream, listener>>
        /\ assign' = [assign EXCEPT ![a] = NoAssign]
    BY <1>4 DEF AutoInviteRoleToSlack, bot
  <2>3. assign' \in [Assigner -> AssignLoc] /\ AssignsOK'
    BY <1>1, <2>2 DEF AssignsOK, NoAssign
  <2>4. FilingsOK' /\ StreamOK' /\ ListenerOK'
    BY <2>2 DEF FilingsOK, StreamOK, ListenerOK, InStream
  <2>5. members' \in [Sev -> SUBSET User]
    BY <1>4, <2>1 DEF AutoInviteRoleToSlack, Invite
  <2>6. TypeOK'
    BY <1>4, <2>1, <2>3, <2>5 DEF AutoInviteRoleToSlack, bot, Works, Fails
  <2> QED
    BY <2>3, <2>4, <2>6
<1> QED
  BY <1>2, <1>3, <1>4

LEMMA OtherType ==
    ASSUME TypeInv,
           \/ \E f \in Filing : \E s \in Sev, opener, creator \in Opt(User) :
                 CreateSEV(f, s, opener, creator)
           \/ Connect \/ Disconnect
           \/ \E s \in Sev : (\E u \in User : RemoveRole(s, u) \/ JoinSlackChannel(s, u))
                              \/ OverwriteSEV(s)
    PROVE  TypeInv'
<1> USE BotAssumption DEF TypeInv, TypeOK
<1>1. ASSUME NEW f \in Filing, NEW s \in Sev, NEW opener \in Opt(User),
             NEW creator \in Opt(User), CreateSEV(f, s, opener, creator)
      PROVE  TypeInv'
  <2> DEFINE row == [opener |-> opener, creator |-> creator, channel |-> FALSE]
             loc == [pc |-> "oncall", sev |-> s]
  <2>1. /\ sevs' = [sevs EXCEPT ![s] = row] /\ filing' = [filing EXCEPT ![f] = loc]
        /\ sevs[s] = Nil
        /\ UNCHANGED <<roles, assign, listening, stream, listener, channels, pending,
                       chans, members, due, faults, spoiled>>
    BY <1>1 DEF CreateSEV, bot, slack, Works
  <2>2. row \in SevRow /\ row # Nil /\ loc \in FilingLoc
    <3>1. row \in SevRow
      BY DEF SevRow
    <3>2. loc \in FilingLoc
      BY DEF FilingLoc, Opt
    <3> QED
      BY <3>1, <3>2
  <2>3. sevs' \in [Sev -> Opt(SevRow)] /\ \A t \in Sev : sevs[t] # Nil => sevs'[t] = sevs[t]
    BY <2>1, <2>2 DEF Opt
  <2>4. sevs'[s] # Nil
    BY <2>1, <2>2
  <2>5. FilingsOK'
    <3>1. loc.pc = "oncall" /\ loc.sev = s
      OBVIOUS
    <3> HIDE DEF loc, row
    <3> QED
      BY <2>1, <2>3, <2>4, <3>1 DEF FilingsOK, FilingLoc, Opt
  <2>6. AssignsOK' /\ StreamOK' /\ ListenerOK'
    BY <2>1, <2>3 DEF AssignsOK, AssignLoc, StreamOK, InStream, ListenerOK, ListenerLoc, Opt
  <2>7. TypeOK'
    BY <2>1, <2>2, <2>3
  <2> QED
    BY <2>5, <2>6, <2>7
<1>2. ASSUME Connect \/ Disconnect
      PROVE  TypeInv'
  <2>1. /\ UNCHANGED <<sevs, filing, assign, listener>>
        /\ stream' \in {stream, <<>>}
    BY <1>2 DEF Connect, Disconnect, server
  <2>2. stream' \in Seq(Sev) /\ Len(stream') <= BufferSize
    <3>1. CASE stream' = stream
      BY <3>1
    <3>2. CASE stream' = <<>>
      BY <3>2
    <3> QED
      BY <2>1, <3>1, <3>2
  <2>3. \A s \in Sev : InStream(s)' => InStream(s)
    BY <2>1, SameStream, EmptyStream
  <2>4. FilingsOK' /\ AssignsOK' /\ StreamOK' /\ ListenerOK'
    BY <2>1, <2>3 DEF FilingsOK, AssignsOK, StreamOK, ListenerOK
  <2>5. /\ listening' \in BOOLEAN /\ faults' \in 0 .. MaxFaults /\ spoiled' \subseteq Sev
        /\ UNCHANGED <<roles, channels, pending, chans, members, due>>
    <3>1. CASE Connect
      BY <3>1 DEF Connect, server, slack, Works
    <3>2. CASE Disconnect
      <4>1. faults' \in 0 .. MaxFaults
        BY <3>2 DEF Disconnect
      <4>2. listening' \in BOOLEAN /\ spoiled' \subseteq Sev
        BY <3>2 DEF Disconnect
      <4> QED
        BY <3>2, <4>1, <4>2 DEF Disconnect, server, slack
    <3> QED
      BY <1>2, <3>1, <3>2
  <2> QED
    BY <2>1, <2>2, <2>4, <2>5
<1>3. ASSUME NEW s \in Sev, (\E u \in User : RemoveRole(s, u) \/ JoinSlackChannel(s, u))
      PROVE  TypeInv'
  <2>1. PICK u \in User : RemoveRole(s, u) \/ JoinSlackChannel(s, u)
    BY <1>3
  <2>2. UNCHANGED <<sevs, filing, assign, listening, stream, listener, channels, pending,
                    chans, faults, spoiled>>
    BY <2>1 DEF RemoveRole, JoinSlackChannel, server, bot, slack, Works
  <2>3. FilingsOK' /\ AssignsOK' /\ StreamOK' /\ ListenerOK'
    BY <2>2 DEF FilingsOK, AssignsOK, StreamOK, InStream, ListenerOK
  <2>4. /\ roles' \in [Sev -> SUBSET User] /\ members' \in [Sev -> SUBSET User]
        /\ due' \in [Sev -> SUBSET User]
    BY <2>1 DEF RemoveRole, JoinSlackChannel, Invite, server, slack
  <2> QED
    BY <2>2, <2>3, <2>4
<1>4. ASSUME NEW s \in Sev, OverwriteSEV(s)
      PROVE  TypeInv'
  <2>1. /\ sevs' = [sevs EXCEPT ![s].channel = FALSE]
        /\ faults' \in 0 .. MaxFaults /\ spoiled' \subseteq Sev
        /\ UNCHANGED <<roles, filing, assign, listening, stream, listener, channels,
                       pending, chans, members, due>>
    BY <1>4 DEF OverwriteSEV, bot, slack, Fails
  <2>2. sevs[s] \in SevRow
    BY <1>4 DEF OverwriteSEV, Opt
  <2>3. /\ [sevs[s] EXCEPT !.channel = FALSE] \in SevRow
        /\ [sevs[s] EXCEPT !.channel = FALSE].opener = sevs[s].opener
    BY <2>2 DEF SevRow
  <2>4. /\ sevs' \in [Sev -> Opt(SevRow)]
        /\ \A t \in Sev : sevs[t] # Nil => sevs'[t] # Nil /\ sevs'[t].opener = sevs[t].opener
    BY <2>1, <2>3 DEF Opt
  <2>5. FilingsOK'
    BY <2>1, <2>4 DEF FilingsOK, FilingLoc, Opt
  <2>6. AssignsOK' /\ StreamOK' /\ ListenerOK'
    BY <2>1, <2>4 DEF AssignsOK, AssignLoc, StreamOK, InStream, ListenerOK, ListenerLoc, Opt
  <2> QED
    BY <2>1, <2>4, <2>5, <2>6
<1> QED
  BY <1>1, <1>2, <1>3, <1>4

LEMMA StutterType ==
    ASSUME TypeInv, UNCHANGED vars
    PROVE  TypeInv'
  BY DEF vars, TypeInv, TypeOK, FilingsOK, AssignsOK, StreamOK, ListenerOK, InStream

\* What the actions and their guards rely on: wherever a goroutine or a handler
\* stands, the SEV it works on is stored, and the hub's buffer is bounded.
THEOREM TypeCorrect == Spec => []TypeOK
<1>1. TypeInv /\ [Next]_vars => TypeInv'
  <2> SUFFICES ASSUME TypeInv, [Next]_vars PROVE TypeInv'
    OBVIOUS
  <2> QED
    BY FilingType, ListenerType, RestartType, AssignerType, OtherType, StutterType DEF Next
<1>2. TypeInv => TypeOK
  BY DEF TypeInv
<1> QED
  BY InitType, <1>1, <1>2, PTL DEF Spec

(***************************************************************************)
(* Where a SEV is on its way to its channel: filed, published, read by the *)
(* listener, in the map of channels, in this order and in one place at a   *)
(* time. A command about to register its opener has the listener's take    *)
(* still ahead, unless there is a channel already or an event was lost.    *)
(***************************************************************************)
Early == {"oncall", "publish"}

OneFiling ==
    \A f, g \in Filing : filing[f].sev = filing[g].sev /\ filing[f].sev # Nil => f = g

Unpublished ==
    \A f \in Filing :
        filing[f].pc \in Early => /\ ~ InStream(filing[f].sev)
                                  /\ listener.sev # filing[f].sev
                                  /\ filing[f].sev \notin channels

PublishedOnce ==
    /\ \A i, j \in DOMAIN stream : stream[i] = stream[j] => i = j
    /\ \A s \in Sev : InStream(s) => s \notin channels /\ listener.sev # s

ChannelsOK == \A s \in channels : sevs[s] # Nil

RegisterInTime ==
    \A f \in Filing :
        filing[f].pc = "register" => \/ filing[f].sev \in spoiled \/ InStream(filing[f].sev)
                                     \/ listener.sev = filing[f].sev /\ listener.pc = "create"
                                     \/ filing[f].sev \in channels

PlacesInv == OneFiling /\ Unpublished /\ PublishedOnce /\ ChannelsOK /\ RegisterInTime

\* A command moves on, and publishes nothing.
MovesOn(f) ==
    /\ filing'[f].sev \in {Nil, filing[f].sev}
    /\ filing'[f].pc \in Early => filing'[f].sev = filing[f].sev /\ filing[f].pc \in Early
    /\ filing'[f].pc = "register" => filing'[f].sev = filing[f].sev /\ filing[f].pc = "register"

LEMMA PlacesFrame ==
    ASSUME TypeInv, PlacesInv,
           UNCHANGED <<stream, channels>>,
           \A f \in Filing : MovesOn(f),
           listener'.sev \in {Nil, listener.sev},
           listener.pc = "create" => listener' = listener,
           \A s \in Sev : sevs[s] # Nil => sevs'[s] # Nil,
           spoiled \subseteq spoiled'
    PROVE  PlacesInv'
<1>1. \A s : InStream(s)' = InStream(s)
  BY SameStream
<1>2. \A f \in Filing : filing[f].pc \in Early => filing[f].sev # Nil
  BY DEF TypeInv, FilingsOK, Early
<1>3. OneFiling'
  BY DEF PlacesInv, OneFiling, MovesOn
<1>4. Unpublished'
  BY <1>1, <1>2 DEF PlacesInv, Unpublished, MovesOn
<1>5. PublishedOnce'
  BY <1>1, BotAssumption DEF PlacesInv, PublishedOnce
<1>6. ChannelsOK'
  BY DEF PlacesInv, ChannelsOK, TypeInv, TypeOK
<1>7. RegisterInTime'
  BY <1>1 DEF PlacesInv, RegisterInTime, MovesOn
<1> QED
  BY <1>3, <1>4, <1>5, <1>6, <1>7 DEF PlacesInv

LEMMA FilingPlaces ==
    ASSUME TypeInv, PlacesInv, NEW f \in Filing, FilingStep(f) \/ NoAnswer(f)
    PROVE  PlacesInv'
<1> DEFINE s == filing[f].sev
<1>1. CASE Publish(f)
  <2>1. s \in Sev /\ filing[f].pc = "publish"
    BY <1>1 DEF Publish, TypeInv, TypeOK, FilingsOK, FilingLoc, Opt
  <2>2. \/ filing' = [filing EXCEPT ![f] = NoFiling]
        \/ filing' = [filing EXCEPT ![f].pc = "register"]
    BY <1>1 DEF Publish, TypeInv, TypeOK
  <2>3. /\ \A g \in Filing : g # f => filing'[g] = filing[g]
        /\ filing'[f].sev \in {Nil, s} /\ filing'[f].pc \notin Early
        /\ filing'[f].pc = "register" => filing'[f].sev = s
    BY <2>1, <2>2 DEF TypeInv, TypeOK, FilingLoc, NoFiling, Early
  <2>4. \A g \in Filing : g # f => filing[g].sev # s
    BY <2>1, BotAssumption DEF PlacesInv, OneFiling
  <2>5. UNCHANGED <<sevs, listener, channels>> /\ spoiled \subseteq spoiled'
    BY <1>1 DEF Publish
  <2>6. OneFiling' /\ ChannelsOK'
    BY <2>3, <2>5 DEF PlacesInv, OneFiling, ChannelsOK
  <2>7. /\ ~ InStream(s) /\ listener.sev # s /\ s \notin channels
    BY <2>1 DEF PlacesInv, Unpublished, Early
  <2>8. CASE stream' = Append(stream, s)
    <3>1. /\ Len(stream) \in Nat /\ Len(stream') = Len(stream) + 1
          /\ \A t \in Sev : InStream(t)' <=> InStream(t) \/ t = s
      BY <2>1, <2>8, Appended DEF TypeInv, TypeOK
    <3>2. \A i, j \in DOMAIN stream' : stream'[i] = stream'[j] => i = j
      <4>1. DOMAIN stream' = 1 .. Len(stream) + 1 /\ DOMAIN stream = 1 .. Len(stream)
        BY <2>1, <2>8 DEF TypeInv, TypeOK
      <4>2. /\ stream'[Len(stream) + 1] = s
            /\ \A i \in DOMAIN stream : stream'[i] = stream[i] /\ stream[i] # s
        BY <2>1, <2>7, <2>8 DEF TypeInv, TypeOK, InStream
      <4> QED
        BY <3>1, <4>1, <4>2 DEF PlacesInv, PublishedOnce
    <3>3. PublishedOnce'
      BY <2>5, <2>7, <3>1, <3>2 DEF PlacesInv, PublishedOnce
    <3>4. \A g \in Filing : filing[g].pc # "idle" => filing[g].sev \in Sev
      BY DEF TypeInv, TypeOK, FilingsOK, FilingLoc, Opt
    <3>5. Unpublished' /\ RegisterInTime'
      BY <2>1, <2>3, <2>4, <2>5, <3>1, <3>4 DEF PlacesInv, Unpublished, RegisterInTime, Early
    <3> QED
      BY <2>6, <3>3, <3>5 DEF PlacesInv
  <2>9. CASE stream' = stream /\ spoiled' = spoiled \union {s}
    <3>1. Unpublished' /\ RegisterInTime'
      BY <2>3, <2>5, <2>9, SameStream DEF PlacesInv, Unpublished, RegisterInTime
    <3>2. PublishedOnce'
      BY <2>5, <2>9, SameStream DEF PlacesInv, PublishedOnce
    <3> QED
      BY <2>6, <3>1, <3>2 DEF PlacesInv
  <2> QED
    BY <1>1, <2>8, <2>9 DEF Publish
<1>2. CASE \/ AssignOnCall(f) \/ FilingFails(f) \/ ChannelOrRegisterOpener(f) \/ InviteOpener(f)
           \/ NoAnswer(f)
  <2>1. UNCHANGED <<sevs, stream, listener, channels>> /\ spoiled \subseteq spoiled'
    BY <1>2 DEF AssignOnCall, FilingFails, ChannelOrRegisterOpener, InviteOpener, NoAnswer,
                bot, Works, Fails
  <2>2. \/ filing[f].pc = "oncall" /\ filing' = [filing EXCEPT ![f].pc = "publish"]
        \/ filing' = [filing EXCEPT ![f].pc = "invite"]
        \/ filing' = [filing EXCEPT ![f].pc = "hung"]
        \/ filing' = [filing EXCEPT ![f] = NoFiling]
    BY <1>2 DEF AssignOnCall, FilingFails, ChannelOrRegisterOpener, InviteOpener, NoAnswer
  <2>3. ASSUME NEW g \in Filing PROVE MovesOn(g)
    <3>1. CASE filing'[g] = filing[g]
      BY <3>1 DEF MovesOn
    <3>2. CASE /\ filing'[g].sev = filing[g].sev
               /\ \/ filing[g].pc = "oncall" /\ filing'[g].pc = "publish"
                  \/ filing'[g].pc \in {"invite", "hung"}
      BY <3>2 DEF MovesOn, Early
    <3>3. CASE filing'[g] = NoFiling
      BY <3>3 DEF MovesOn, NoFiling, Early
    <3> QED
      BY <2>2, <3>1, <3>2, <3>3 DEF TypeInv, TypeOK, FilingLoc
  <2> QED
    BY <2>1, <2>3, PlacesFrame
<1> QED
  BY <1>1, <1>2 DEF FilingStep

LEMMA ListenerPlaces ==
    ASSUME TypeInv, PlacesInv, ListenerStep
    PROVE  PlacesInv'
<1> DEFINE s == listener.sev
<1>0. \A f \in Filing : filing[f].pc # "idle" => filing[f].sev \in Sev
  BY DEF TypeInv, TypeOK, FilingsOK, FilingLoc, Opt
<1>1. CASE HandleSEVCreated
  <2>0. Head(stream) \in Sev
    BY <1>1, Shortened DEF HandleSEVCreated, TypeInv, TypeOK
  <2> PICK t \in Sev : t = Head(stream)
    BY <2>0
  <2>1. /\ InStream(t) /\ t = stream[1]
        /\ \A v \in Sev : InStream(v)' => InStream(v)
        /\ \A v \in Sev : InStream(v) => InStream(v)' \/ v = t
        /\ \A i \in DOMAIN stream' : i + 1 \in DOMAIN stream /\ stream'[i] = stream[i + 1]
        /\ DOMAIN stream' \subseteq Nat \ {0} /\ 1 \in DOMAIN stream
    <3>1. stream \in Seq(Sev) /\ stream # <<>> /\ stream' = Tail(stream)
      BY <1>1 DEF HandleSEVCreated, TypeInv, TypeOK
    <3>2. Head(stream) = stream[1] /\ 1 \in DOMAIN stream
      BY <3>1
    <3>3. stream' \in Seq(Sev)
      BY <3>1
    <3>4. DOMAIN stream' \subseteq Nat \ {0}
      BY <3>3
    <3> QED
      BY <3>1, <3>2, <3>4, Shortened
  <2>2. /\ listener' = [pc |-> "create", sev |-> t, invite |-> {}]
        /\ UNCHANGED <<sevs, filing, channels>>
        /\ spoiled' = spoiled /\ listener.sev = Nil
    BY <1>1, <2>1 DEF HandleSEVCreated, server, Works, PlacesInv, PublishedOnce, TypeInv, ListenerOK
  <2>3. ~ InStream(t)'
    <3>1. SUFFICES ASSUME NEW i \in DOMAIN stream', stream'[i] = t PROVE FALSE
      BY DEF InStream
    <3>2. i + 1 \in DOMAIN stream /\ stream[i + 1] = stream[1] /\ i + 1 # 1
      BY <2>1, <3>1
    <3> QED
      BY <2>1, <3>2 DEF PlacesInv, PublishedOnce
  <2>4. OneFiling' /\ ChannelsOK'
    BY <2>2 DEF PlacesInv, OneFiling, ChannelsOK
  <2>5. Unpublished'
    BY <1>0, <2>1, <2>2 DEF PlacesInv, Unpublished, Early
  <2>6. PublishedOnce'
    <3>1. \A i, j \in DOMAIN stream' : stream'[i] = stream'[j] => i = j
      BY <2>1 DEF PlacesInv, PublishedOnce
    <3>2. \A v \in Sev : InStream(v)' => v \notin channels' /\ listener'.sev # v
      BY <2>1, <2>2, <2>3 DEF PlacesInv, PublishedOnce
    <3> QED
      BY <3>1, <3>2 DEF PublishedOnce
  <2>7. RegisterInTime'
    BY <1>0, <2>1, <2>2, BotAssumption DEF PlacesInv, RegisterInTime
  <2> QED
    BY <2>4, <2>5, <2>6, <2>7 DEF PlacesInv
<1>2. CASE CreateChannel
  <2>1. /\ s \in Sev /\ sevs[s] # Nil /\ ~ InStream(s)
        /\ \A f \in Filing : filing[f].pc \in Early => filing[f].sev # s
    BY <1>2 DEF CreateChannel, TypeInv, TypeOK, ListenerOK, ListenerLoc, Opt, PlacesInv,
                PublishedOnce, Unpublished
  <2>2. UNCHANGED <<sevs, filing, stream>> /\ \A t : InStream(t)' = InStream(t)
    BY <1>2, SameStream DEF CreateChannel, server
  <2>3. OneFiling'
    BY <2>2 DEF PlacesInv, OneFiling
  <2>4. CASE channels' = channels \union {s} /\ Goto("save") /\ Works
    <3>1. listener'.sev = s /\ spoiled' = spoiled
      BY <2>4 DEF Goto, Works, TypeInv, TypeOK, ListenerLoc
    <3>2. Unpublished' /\ PublishedOnce' /\ ChannelsOK' /\ RegisterInTime'
      BY <2>1, <2>2, <2>4, <3>1 DEF PlacesInv, Unpublished, PublishedOnce, ChannelsOK,
                                    RegisterInTime
    <3> QED
      BY <2>3, <3>2 DEF PlacesInv
  <2>5. CASE channels' = channels /\ listener' = Listening /\ Fails("slack", s)
    <3>1. listener'.sev = Nil /\ spoiled' = spoiled \union {s}
      BY <2>5 DEF Listening, Fails
    <3>2. Unpublished' /\ PublishedOnce'
      BY <1>0, <2>2, <2>5, <3>1, BotAssumption DEF PlacesInv, Unpublished, PublishedOnce, Early
    <3>3. ChannelsOK' /\ RegisterInTime'
      BY <2>2, <2>5, <3>1 DEF PlacesInv, ChannelsOK, RegisterInTime
    <3> QED
      BY <2>3, <3>2, <3>3 DEF PlacesInv
  <2> QED
    BY <1>2, <2>4, <2>5 DEF CreateChannel
<1>3. CASE WriteBack \/ ResolveRoleHolders \/ ResolveCreator \/ TakePendingOpener \/ InviteUsers
  <2>1. UNCHANGED <<filing, stream, channels>> /\ listener.pc # "create" /\ spoiled \subseteq spoiled'
    <3>1. CASE WriteBack
      BY <3>1 DEF WriteBack, Works, Fails
    <3>2. CASE ResolveRoleHolders
      BY <3>2 DEF ResolveRoleHolders, server, Works, Fails
    <3>3. CASE ResolveCreator
      BY <3>3 DEF ResolveCreator, server, Works, Fails
    <3>4. CASE TakePendingOpener
      BY <3>4 DEF TakePendingOpener, server, Works
    <3>5. CASE InviteUsers
      BY <3>5 DEF InviteUsers, server, Works, Fails
    <3> QED
      BY <1>3, <3>1, <3>2, <3>3, <3>4, <3>5
  <2>2. listener'.sev \in {Nil, listener.sev}
    <3>1. CASE InviteUsers
      BY <3>1 DEF InviteUsers, Listening
    <3>2. CASE WriteBack \/ ResolveRoleHolders \/ ResolveCreator \/ TakePendingOpener
      BY <3>2 DEF WriteBack, ResolveRoleHolders, ResolveCreator, TakePendingOpener, Goto,
                  TypeInv, TypeOK, ListenerLoc
    <3> QED
      BY <1>3, <3>1, <3>2
  <2>3. \A f \in Filing : MovesOn(f)
    BY <2>1 DEF MovesOn
  <2>4. \A t \in Sev : sevs[t] # Nil => sevs'[t] # Nil
    <3>1. CASE WriteBack
      <4>1. s \in Sev /\ sevs[s] \in SevRow
        BY <3>1 DEF WriteBack, TypeInv, TypeOK, ListenerOK, ListenerLoc, Opt
      <4>2. [sevs[s] EXCEPT !.channel = TRUE] \in SevRow
        BY <4>1 DEF SevRow
      <4> QED
        BY <3>1, <4>1, <4>2, BotAssumption DEF WriteBack, TypeInv, TypeOK
    <3>2. CASE ResolveRoleHolders \/ ResolveCreator \/ TakePendingOpener \/ InviteUsers
      BY <3>2 DEF ResolveRoleHolders, ResolveCreator, TakePendingOpener, InviteUsers, server
    <3> QED
      BY <1>3, <3>1, <3>2
  <2> QED
    BY <2>1, <2>2, <2>3, <2>4, PlacesFrame
<1> QED
  BY <1>1, <1>2, <1>3 DEF ListenerStep

\* The server's role handlers, which the bot's goroutines do not see.
ServerStep ==
    \/ \E a \in Assigner : \/ \E s \in Sev, u \in User : AssignRole(a, s, u)
                           \/ StoreRole(a) \/ AutoInviteRoleToSlack(a)
    \/ \E s \in Sev : (\E u \in User : RemoveRole(s, u) \/ JoinSlackChannel(s, u))
                       \/ OverwriteSEV(s)

\* They change no SEV's opener, take nobody out of a channel, and leave the bot alone.
LEMMA ServerFrame ==
    ASSUME TypeInv, ServerStep \/ Connect \/ UNCHANGED vars
    PROVE  /\ UNCHANGED <<filing, stream, listener, channels, pending>>
           /\ \A s \in Sev : /\ sevs[s] = Nil <=> sevs'[s] = Nil
                             /\ sevs[s] # Nil => sevs'[s].opener = sevs[s].opener
           /\ \A s \in Sev : members[s] \subseteq members'[s]
           /\ spoiled \subseteq spoiled'
<1>1. ASSUME NEW a \in Assigner, NEW s \in Sev, NEW u \in User, AssignRole(a, s, u)
      PROVE  UNCHANGED <<filing, stream, listener, channels, pending, sevs, members, spoiled>>
  BY <1>1 DEF AssignRole, bot, slack, Works
<1>2. ASSUME NEW a \in Assigner, StoreRole(a)
      PROVE  /\ UNCHANGED <<filing, stream, listener, channels, pending, sevs, members>>
             /\ spoiled \subseteq spoiled'
  BY <1>2 DEF StoreRole, bot, slack, Works, Fails
<1>3. ASSUME NEW a \in Assigner, AutoInviteRoleToSlack(a)
      PROVE  /\ UNCHANGED <<filing, stream, listener, channels, pending, sevs>>
             /\ \A s \in Sev : members[s] \subseteq members'[s]
             /\ spoiled \subseteq spoiled'
  BY <1>3 DEF AutoInviteRoleToSlack, Invite, bot, Works, Fails, TypeInv, TypeOK
<1>4. ASSUME NEW s \in Sev, NEW u \in User, RemoveRole(s, u)
      PROVE  UNCHANGED <<filing, stream, listener, channels, pending, sevs, members, spoiled>>
  BY <1>4 DEF RemoveRole, bot, slack, Works
<1>5. ASSUME NEW s \in Sev, NEW u \in User, JoinSlackChannel(s, u)
      PROVE  /\ UNCHANGED <<filing, stream, listener, channels, pending, sevs, spoiled>>
             /\ \A t \in Sev : members[t] \subseteq members'[t]
  BY <1>5 DEF JoinSlackChannel, Invite, server, bot, Works, TypeInv, TypeOK
<1>6. ASSUME NEW s \in Sev, OverwriteSEV(s)
      PROVE  /\ UNCHANGED <<filing, stream, listener, channels, pending, members>>
             /\ \A t \in Sev : /\ sevs[t] = Nil <=> sevs'[t] = Nil
                               /\ sevs[t] # Nil => sevs'[t].opener = sevs[t].opener
             /\ spoiled \subseteq spoiled'
  <2>1. sevs[s] \in SevRow
    BY <1>6 DEF OverwriteSEV, TypeInv, TypeOK, Opt
  <2>2. /\ [sevs[s] EXCEPT !.channel = FALSE] \in SevRow
        /\ [sevs[s] EXCEPT !.channel = FALSE].opener = sevs[s].opener
    BY <2>1 DEF SevRow
  <2> QED
    BY <1>6, <2>1, <2>2, BotAssumption DEF OverwriteSEV, bot, slack, Fails, TypeInv, TypeOK
<1>7. CASE Connect
  BY <1>7 DEF Connect, server, slack, Works
<1>8. CASE UNCHANGED vars
  BY <1>8 DEF vars
<1> QED
  BY <1>1, <1>2, <1>3, <1>4, <1>5, <1>6, <1>7, <1>8 DEF ServerStep

LEMMA OtherPlaces ==
    ASSUME TypeInv, PlacesInv,
           \/ \E f \in Filing : \E s \in Sev, opener, creator \in Opt(User) :
                 CreateSEV(f, s, opener, creator)
           \/ Disconnect \/ Restart
           \/ ServerStep \/ Connect \/ UNCHANGED vars
    PROVE  PlacesInv'
<1>0. \A f \in Filing : filing[f].pc # "idle" => filing[f].sev \in Sev
  BY DEF TypeInv, TypeOK, FilingsOK, FilingLoc, Opt
<1>1. ASSUME NEW f \in Filing, NEW s \in Sev, NEW opener \in Opt(User),
             NEW creator \in Opt(User), CreateSEV(f, s, opener, creator)
      PROVE  PlacesInv'
  <2>1. /\ filing' = [filing EXCEPT ![f] = [pc |-> "oncall", sev |-> s]]
        /\ UNCHANGED <<stream, listener, channels, spoiled>>
        /\ sevs[s] = Nil /\ filing[f].pc = "idle"
        /\ \A t \in Sev : t # s => sevs'[t] = sevs[t]
    BY <1>1 DEF CreateSEV, bot, Works, TypeInv, TypeOK
  <2>2. /\ \A g \in Filing : filing[g].sev # s
        /\ ~ InStream(s) /\ listener.sev # s /\ s \notin channels
    BY <2>1, BotAssumption DEF TypeInv, FilingsOK, StreamOK, ListenerOK, PlacesInv, ChannelsOK
  <2>3. /\ filing'[f].sev = s /\ filing'[f].pc = "oncall"
        /\ \A g \in Filing : g # f => filing'[g] = filing[g]
    BY <2>1 DEF TypeInv, TypeOK
  <2>4. \A t : InStream(t)' = InStream(t)
    BY <2>1, SameStream
  <2>5. OneFiling' /\ Unpublished'
    BY <2>1, <2>2, <2>3, <2>4 DEF PlacesInv, OneFiling, Unpublished
  <2>6. PublishedOnce' /\ ChannelsOK'
    BY <2>1, <2>2, <2>4 DEF PlacesInv, PublishedOnce, ChannelsOK, TypeInv, TypeOK
  <2>7. RegisterInTime'
    BY <2>1, <2>3, <2>4 DEF PlacesInv, RegisterInTime
  <2> QED
    BY <2>5, <2>6, <2>7 DEF PlacesInv
<1>2. CASE Disconnect
  <2>1. /\ UNCHANGED <<sevs, filing, listener, channels>> /\ stream' = <<>>
        /\ spoiled' = spoiled \union {s \in Sev : InStream(s)}
    BY <1>2 DEF Disconnect, server
  <2>2. \A t : ~ InStream(t)'
    BY <2>1, EmptyStream
  <2>3. OneFiling' /\ Unpublished' /\ ChannelsOK'
    BY <2>1, <2>2 DEF PlacesInv, OneFiling, Unpublished, ChannelsOK
  <2>4. PublishedOnce'
    BY <2>1, <2>2 DEF PublishedOnce
  <2>5. RegisterInTime'
    BY <1>0, <2>1 DEF PlacesInv, RegisterInTime
  <2> QED
    BY <2>3, <2>4, <2>5 DEF PlacesInv
<1>3. CASE Restart
  <2>1. /\ stream' = <<>> /\ listener' = Listening /\ channels' = {}
        /\ \A f \in Filing : \/ filing'[f] = filing[f] /\ filing[f].pc \notin {"register", "invite"}
                             \/ filing'[f] = NoFiling
    BY <1>3 DEF Restart
  <2>2. \A t : ~ InStream(t)'
    BY <2>1, EmptyStream
  <2>3. \A f \in Filing : /\ filing'[f].sev \in {filing[f].sev, Nil}
                          /\ filing'[f].pc # "register"
                          /\ filing'[f].pc \in Early => filing'[f].sev \in Sev
    BY <1>0, <2>1 DEF NoFiling, Early
  <2>4. OneFiling' /\ RegisterInTime' /\ ChannelsOK' /\ PublishedOnce'
    BY <2>1, <2>2, <2>3 DEF PlacesInv, OneFiling, RegisterInTime, ChannelsOK, PublishedOnce
  <2>5. Unpublished'
    BY <2>1, <2>2, <2>3, BotAssumption DEF Unpublished, Listening
  <2> QED
    BY <2>4, <2>5 DEF PlacesInv
<1>4. CASE ServerStep \/ Connect \/ UNCHANGED vars
  <2>1. \A f \in Filing : MovesOn(f)
    BY <1>4, ServerFrame DEF MovesOn
  <2> QED
    BY <1>4, <2>1, ServerFrame, PlacesFrame
<1> QED
  BY <1>1, <1>2, <1>3, <1>4

(***************************************************************************)
(* The two promises for one SEV: its pending opener will be collected, and *)
(* its opener is in the channel or on the way into it.                     *)
(***************************************************************************)
OpenerKept(s) ==
    sevs[s] # Nil /\ sevs[s].opener # Nil /\ s \notin spoiled =>
        \/ \E f \in Filing : filing[f].sev = s
        \/ sevs[s].opener \in members[s]
        \/ pending[s] = sevs[s].opener /\ TakeAhead(s)
        \/ listener.sev = s /\ listener.pc = "invite" /\ sevs[s].opener \in listener.invite

Promise(s) ==
    /\ pending[s] # Nil => TakeAhead(s) \/ s \in spoiled
    /\ OpenerKept(s)

SameOpener(s) ==
    /\ sevs[s] = Nil <=> sevs'[s] = Nil
    /\ sevs[s] # Nil => sevs'[s].opener = sevs[s].opener

\* A step that does not come near s keeps its promises, and so does one that spoils it.
LEMMA PromiseFrame ==
    ASSUME NEW s \in Sev, Promise(s),
           \/ s \in spoiled'
           \/ /\ SameOpener(s)
              /\ \A f \in Filing : filing[f].sev = s => filing'[f].sev = s
              /\ members[s] \subseteq members'[s]
              /\ pending'[s] = pending[s]
              /\ TakeAhead(s) => TakeAhead(s)'
              /\ listener.sev = s /\ listener.pc = "invite" => listener' = listener
              /\ spoiled \subseteq spoiled'
    PROVE  Promise(s)'
<1>1. CASE s \in spoiled'
  BY <1>1 DEF Promise, OpenerKept
<1>2. CASE s \notin spoiled'
  <2>1. pending'[s] # Nil => TakeAhead(s)' \/ s \in spoiled'
    BY <1>2 DEF Promise
  <2>2. OpenerKept(s)'
    BY <1>2 DEF Promise, OpenerKept, SameOpener
  <2> QED
    BY <2>1, <2>2 DEF Promise
<1> QED
  BY <1>1, <1>2

LEMMA FilingPromise ==
    ASSUME TypeInv, PlacesInv, NEW f \in Filing, FilingStep(f) \/ NoAnswer(f),
           NEW t \in Sev, Promise(t)
    PROVE  Promise(t)'
<1> DEFINE s == filing[f].sev
<1>0. filing[f].pc # "idle" /\ s \in Sev /\ sevs[s] # Nil /\ sevs[s] \in SevRow
  BY DEF FilingStep, AssignOnCall, Publish, FilingFails, ChannelOrRegisterOpener, InviteOpener,
         NoAnswer, TypeInv, TypeOK, FilingsOK, FilingLoc, Opt
<1>1. CASE AssignOnCall(f)
  <2>1. /\ filing' = [filing EXCEPT ![f].pc = "publish"]
        /\ UNCHANGED <<sevs, members, pending, stream, listener, spoiled>>
    BY <1>1 DEF AssignOnCall, bot, slack, Works
  <2>2. \A g \in Filing : filing'[g].sev = filing[g].sev
    BY <2>1 DEF TypeInv, TypeOK, FilingLoc
  <2> QED
    BY <2>1, <2>2, PromiseFrame, SameStream DEF SameOpener, TakeAhead
<1>2. CASE Publish(f)
  <2>1. /\ filing' = [filing EXCEPT ![f] = IF sevs[s].opener = Nil THEN NoFiling
                                           ELSE [@ EXCEPT !.pc = "register"]]
        /\ UNCHANGED <<sevs, members, pending, listener>> /\ spoiled \subseteq spoiled'
        /\ stream' \in {stream, Append(stream, s)}
    BY <1>2 DEF Publish, slack
  <2>2. \A v \in Sev : InStream(v) => InStream(v)'
    <3>1. CASE stream' = stream
      BY <3>1, SameStream
    <3>2. CASE stream' = Append(stream, s)
      BY <1>0, <3>2, Appended DEF TypeInv, TypeOK
    <3> QED
      BY <2>1, <3>1, <3>2
  <2>3. TakeAhead(t) => TakeAhead(t)'
    BY <2>1, <2>2 DEF TakeAhead
  <2>4. CASE sevs[t].opener = Nil
    BY <2>1, <2>3, <2>4 DEF Promise, OpenerKept
  <2>5. CASE sevs[t].opener # Nil
    <3>1. \A g \in Filing : filing[g].sev = t => filing'[g].sev = t
      BY <2>1, <2>5 DEF TypeInv, TypeOK, FilingLoc
    <3> QED
      BY <2>1, <2>3, <3>1, PromiseFrame DEF SameOpener
  <2> QED
    BY <2>4, <2>5
<1>3. CASE FilingFails(f)
  <2>1. /\ filing' = [filing EXCEPT ![f] = NoFiling]
        /\ UNCHANGED <<sevs, members, pending, stream, listener>> /\ spoiled' = spoiled \union {s}
    BY <1>3 DEF FilingFails, bot, slack, Fails
  <2>2. t # s => \A g \in Filing : filing[g].sev = t => filing'[g].sev = t
    BY <2>1 DEF TypeInv, TypeOK
  <2> QED
    BY <2>1, <2>2, PromiseFrame, SameStream DEF SameOpener, TakeAhead
<1>4. CASE ChannelOrRegisterOpener(f)
  <2>1. /\ filing[f].pc = "register"
        /\ UNCHANGED <<sevs, members, stream, listener, spoiled>>
        /\ \/ filing' = [filing EXCEPT ![f].pc = "invite"] /\ pending' = pending
           \/ /\ s \notin channels /\ filing' = [filing EXCEPT ![f] = NoFiling]
              /\ pending' = [pending EXCEPT ![s] = sevs[s].opener]
    BY <1>4 DEF ChannelOrRegisterOpener, slack, Works
  <2>2. \A v : InStream(v)' = InStream(v)
    BY <2>1, SameStream
  <2>3. CASE filing' = [filing EXCEPT ![f].pc = "invite"] /\ pending' = pending
    <3>1. \A g \in Filing : filing'[g].sev = filing[g].sev
      BY <2>3 DEF TypeInv, TypeOK, FilingLoc
    <3> QED
      BY <2>1, <2>2, <2>3, <3>1, PromiseFrame DEF SameOpener, TakeAhead
  <2>4. CASE /\ s \notin channels /\ filing' = [filing EXCEPT ![f] = NoFiling]
             /\ pending' = [pending EXCEPT ![s] = sevs[s].opener]
    <3>1. CASE t # s
      <4>1. /\ \A g \in Filing : filing[g].sev = t => filing'[g].sev = t
            /\ pending'[t] = pending[t]
        BY <2>4, <3>1 DEF TypeInv, TypeOK
      <4> QED
        BY <2>1, <2>2, <4>1, PromiseFrame DEF SameOpener, TakeAhead
    <3>2. CASE t = s
      <4>1. TakeAhead(t)' \/ t \in spoiled'
        BY <2>1, <2>2, <2>4, <3>2 DEF PlacesInv, RegisterInTime, TakeAhead
      <4>2. pending'[t] = sevs'[t].opener
        BY <2>1, <2>4, <3>2 DEF TypeInv, TypeOK
      <4> QED
        BY <4>1, <4>2 DEF Promise, OpenerKept
    <3> QED
      BY <3>1, <3>2
  <2> QED
    BY <2>1, <2>3, <2>4
<1>5. CASE InviteOpener(f)
  <2>1. /\ filing' = [filing EXCEPT ![f] = NoFiling]
        /\ UNCHANGED <<sevs, pending, stream, listener>>
        /\ \/ members' = [members EXCEPT ![s] = @ \union {sevs[s].opener}] /\ spoiled' = spoiled
           \/ members' = members /\ spoiled' = spoiled \union {s}
    BY <1>5 DEF InviteOpener, bot, Invite, Works, Fails
  <2>2. members[t] \subseteq members'[t] /\ spoiled \subseteq spoiled' /\ (TakeAhead(t) <=> TakeAhead(t)')
    BY <2>1, SameStream DEF TypeInv, TypeOK, TakeAhead
  <2>3. CASE t # s
    <3>1. \A g \in Filing : filing[g].sev = t => filing'[g].sev = t
      BY <2>1, <2>3 DEF TypeInv, TypeOK
    <3> QED
      BY <2>1, <2>2, <3>1, PromiseFrame DEF SameOpener
  <2>4. CASE t = s /\ s \notin spoiled'
    <3>1. sevs'[t].opener \in members'[t]
      BY <2>1, <2>4 DEF TypeInv, TypeOK
    <3> QED
      BY <2>1, <2>2, <3>1 DEF Promise, OpenerKept
  <2>5. CASE t \in spoiled'
    BY <2>5, PromiseFrame
  <2> QED
    BY <2>3, <2>4, <2>5
<1>6. CASE NoAnswer(f)
  <2>1. /\ filing' = [filing EXCEPT ![f].pc = "hung"]
        /\ UNCHANGED <<sevs, pending, stream, listener>> /\ spoiled' = spoiled \union {s}
        /\ \/ members' = [members EXCEPT ![s] = @ \union {sevs[s].opener}]
           \/ members' = members
    BY <1>6 DEF NoAnswer, bot, Invite
  <2>2. \A g \in Filing : filing'[g].sev = filing[g].sev
    BY <2>1 DEF TypeInv, TypeOK, FilingLoc
  <2>3. members[t] \subseteq members'[t] /\ (TakeAhead(t) <=> TakeAhead(t)')
    BY <2>1, SameStream DEF TypeInv, TypeOK, TakeAhead
  <2> QED
    BY <2>1, <2>2, <2>3, PromiseFrame DEF SameOpener
<1> QED
  BY <1>1, <1>2, <1>3, <1>4, <1>5, <1>6 DEF FilingStep

LEMMA ListenerPromise ==
    ASSUME TypeInv, PlacesInv, ListenerStep, NEW t \in Sev, Promise(t)
    PROVE  Promise(t)'
<1> DEFINE s == listener.sev
<1>1. CASE HandleSEVCreated
  <2>1. /\ stream \in Seq(Sev) /\ stream # <<>> /\ stream' = Tail(stream)
        /\ UNCHANGED <<sevs, filing, members, pending, spoiled>>
        /\ listener.pc = "idle" /\ listener.sev = Nil
    BY <1>1 DEF HandleSEVCreated, server, slack, Works, TypeInv, TypeOK, ListenerOK
  <2>2. Head(stream) \in Sev /\ InStream(Head(stream))
        /\ \A v \in Sev : InStream(v) => InStream(v)' \/ v = Head(stream)
    BY <2>1, Shortened
  <2>3. listener' = [pc |-> "create", sev |-> Head(stream), invite |-> {}]
    BY <1>1, <2>2 DEF HandleSEVCreated, PlacesInv, PublishedOnce
  <2>4. TakeAhead(t) => TakeAhead(t)'
    BY <2>1, <2>2, <2>3, BotAssumption DEF TakeAhead
  <2> QED
    BY <2>1, <2>4, PromiseFrame DEF SameOpener
<1>2. CASE CreateChannel
  <2>1. /\ UNCHANGED <<sevs, filing, members, pending, stream>> /\ listener.pc = "create"
        /\ \/ listener' = [listener EXCEPT !.pc = "save"] /\ spoiled' = spoiled
           \/ listener' = Listening /\ spoiled' = spoiled \union {s}
    BY <1>2 DEF CreateChannel, Goto, server, Works, Fails
  <2>2. CASE t \in spoiled'
    BY <2>2, PromiseFrame
  <2>3. CASE t \notin spoiled'
    <3>1. TakeAhead(t) => TakeAhead(t)'
      BY <2>1, <2>3, SameStream DEF TakeAhead, TypeInv, TypeOK, ListenerLoc
    <3> QED
      BY <2>1, <3>1, PromiseFrame DEF SameOpener
  <2> QED
    BY <2>2, <2>3
<1>3. CASE WriteBack
  <2>1. /\ UNCHANGED <<filing, members, pending, stream>> /\ listener.pc = "save"
        /\ listener' = [listener EXCEPT !.pc = "roles"] /\ spoiled \subseteq spoiled'
    BY <1>3 DEF WriteBack, Goto, slack, Works, Fails
  <2>2. SameOpener(t)
    <3>1. s \in Sev /\ sevs[s] \in SevRow
      BY <1>3 DEF WriteBack, TypeInv, TypeOK, ListenerOK, ListenerLoc, Opt
    <3>2. /\ [sevs[s] EXCEPT !.channel = TRUE] \in SevRow
          /\ [sevs[s] EXCEPT !.channel = TRUE].opener = sevs[s].opener
      BY <3>1 DEF SevRow
    <3> QED
      BY <1>3, <3>1, <3>2, BotAssumption DEF WriteBack, SameOpener, TypeInv, TypeOK
  <2>3. TakeAhead(t) => TakeAhead(t)'
    BY <2>1, SameStream DEF TakeAhead, TypeInv, TypeOK, ListenerLoc
  <2> QED
    BY <2>1, <2>2, <2>3, PromiseFrame
<1>4. CASE ResolveRoleHolders
  <2>1. PICK found \in SUBSET User :
            listener' = [listener EXCEPT !.pc = "creator", !.invite = found]
    BY <1>4 DEF ResolveRoleHolders, TypeInv, TypeOK, ListenerOK, ListenerLoc, Opt
  <2>2. /\ UNCHANGED <<sevs, filing, members, pending, stream>> /\ spoiled \subseteq spoiled'
        /\ listener.pc = "roles"
    BY <1>4 DEF ResolveRoleHolders, server, slack, Works, Fails
  <2>3. TakeAhead(t) => TakeAhead(t)'
    BY <2>1, <2>2, SameStream DEF TakeAhead, TypeInv, TypeOK, ListenerLoc
  <2> QED
    BY <2>2, <2>3, PromiseFrame DEF SameOpener
<1>5. CASE ResolveCreator
  <2>1. listener'.sev = listener.sev /\ listener'.pc = "take" /\ listener.pc = "creator"
    BY <1>5 DEF ResolveCreator, Goto, TypeInv, TypeOK, ListenerLoc
  <2>2. UNCHANGED <<sevs, filing, members, pending, stream>> /\ spoiled \subseteq spoiled'
    BY <1>5 DEF ResolveCreator, server, slack, Works, Fails
  <2>3. TakeAhead(t) => TakeAhead(t)'
    BY <2>1, <2>2, SameStream DEF TakeAhead
  <2> QED
    BY <2>1, <2>2, <2>3, PromiseFrame DEF SameOpener
<1>6. CASE TakePendingOpener
  <2>1. /\ listener.pc = "take" /\ s \in Sev
        /\ listener'.pc = "invite" /\ listener'.sev = s
        /\ listener'.invite = listener.invite \union ({pending[s]} \ {Nil})
        /\ UNCHANGED <<sevs, filing, members, stream, spoiled>>
        /\ pending' = [pending EXCEPT ![s] = Nil]
    BY <1>6 DEF TakePendingOpener, server, slack, Works, TypeInv, TypeOK, ListenerOK, ListenerLoc,
                Opt
  <2>2. CASE t # s
    <3>1. pending'[t] = pending[t] /\ (TakeAhead(t) => TakeAhead(t)')
      BY <2>1, <2>2, SameStream DEF TakeAhead, TypeInv, TypeOK
    <3> QED
      BY <2>1, <2>2, <3>1, PromiseFrame DEF SameOpener
  <2>3. CASE t = s
    <3>1. pending'[t] = Nil
      BY <2>1, <2>3 DEF TypeInv, TypeOK
    <3>2. pending[t] # Nil => pending[t] \in listener'.invite
      BY <2>1, <2>3
    <3> QED
      BY <2>1, <2>3, <3>1, <3>2 DEF Promise, OpenerKept
  <2> QED
    BY <2>2, <2>3
<1>7. CASE InviteUsers
  <2>1. /\ listener.pc = "invite" /\ listener' = Listening /\ s \in Sev
        /\ UNCHANGED <<sevs, filing, pending, stream>>
        /\ \/ members' = [members EXCEPT ![s] = @ \union listener.invite] /\ spoiled' = spoiled
           \/ members' = members /\ spoiled' = spoiled \union {s}
    BY <1>7 DEF InviteUsers, server, Invite, Works, Fails, TypeInv, TypeOK, ListenerOK,
                ListenerLoc, Opt
  <2>2. /\ members[t] \subseteq members'[t] /\ spoiled \subseteq spoiled'
        /\ TakeAhead(t) => TakeAhead(t)'
    BY <2>1, SameStream DEF TypeInv, TypeOK, TakeAhead
  <2>3. CASE t # s
    BY <2>1, <2>2, <2>3, PromiseFrame DEF SameOpener
  <2>4. CASE t = s /\ t \notin spoiled'
    <3>1. listener.invite \subseteq members'[t]
      BY <2>1, <2>4 DEF TypeInv, TypeOK
    <3> QED
      BY <2>1, <2>2, <2>4, <3>1 DEF Promise, OpenerKept
  <2>5. CASE t \in spoiled'
    BY <2>5, PromiseFrame
  <2> QED
    BY <2>3, <2>4, <2>5
<1> QED
  BY <1>1, <1>2, <1>3, <1>4, <1>5, <1>6, <1>7 DEF ListenerStep

LEMMA OtherPromise ==
    ASSUME TypeInv, PlacesInv, NEW t \in Sev, Promise(t),
           \/ \E f \in Filing : \E s \in Sev, opener, creator \in Opt(User) :
                 CreateSEV(f, s, opener, creator)
           \/ Disconnect \/ Restart
           \/ ServerStep \/ Connect \/ UNCHANGED vars
    PROVE  Promise(t)'
<1>1. ASSUME NEW f \in Filing, NEW s \in Sev, NEW opener \in Opt(User),
             NEW creator \in Opt(User), CreateSEV(f, s, opener, creator)
      PROVE  Promise(t)'
  <2>1. /\ filing' = [filing EXCEPT ![f] = [pc |-> "oncall", sev |-> s]]
        /\ UNCHANGED <<stream, listener, pending, members, spoiled>>
        /\ filing[f].sev = Nil
        /\ \A v \in Sev : v # s => sevs'[v] = sevs[v]
    BY <1>1 DEF CreateSEV, bot, slack, Works, TypeInv, TypeOK, FilingsOK
  <2>2. TakeAhead(t) <=> TakeAhead(t)'
    BY <2>1, SameStream DEF TakeAhead
  <2>3. CASE t # s
    <3>1. \A g \in Filing : filing[g].sev = t => filing'[g].sev = t
      BY <2>1, BotAssumption DEF TypeInv, TypeOK
    <3> QED
      BY <2>1, <2>2, <2>3, <3>1, PromiseFrame DEF SameOpener
  <2>4. CASE t = s
    <3>1. filing'[f].sev = t
      BY <2>1, <2>4 DEF TypeInv, TypeOK
    <3> QED
      BY <2>1, <2>2, <3>1 DEF Promise, OpenerKept
  <2> QED
    BY <2>3, <2>4
<1>2. CASE Disconnect
  <2>1. /\ UNCHANGED <<sevs, filing, listener, pending, members>>
        /\ spoiled' = spoiled \union {s \in Sev : InStream(s)}
    BY <1>2 DEF Disconnect, server, slack
  <2>2. t \in spoiled' \/ (TakeAhead(t) => TakeAhead(t)')
    BY <2>1 DEF TakeAhead
  <2> QED
    BY <2>1, <2>2, PromiseFrame DEF SameOpener
<1>3. CASE Restart
  <2>1. CASE Unsettled(t)
    <3>1. t \in spoiled'
      BY <1>3, <2>1 DEF Restart
    <3> QED
      BY <3>1, PromiseFrame
  <2>2. CASE ~ Unsettled(t)
    <3>1. ~ TakeAhead(t)
      BY <2>2 DEF Unsettled, TakeAhead
    <3>2. /\ pending'[t] = Nil /\ sevs'[t] = sevs[t] /\ members' = members
          /\ spoiled \subseteq spoiled'
      BY <1>3, <2>2 DEF Restart, slack
    <3> QED
      BY <2>2, <3>1, <3>2 DEF Promise, OpenerKept, Unsettled
  <2> QED
    BY <2>1, <2>2
<1>4. CASE ServerStep \/ Connect \/ UNCHANGED vars
  <2>1. TakeAhead(t) <=> TakeAhead(t)'
    BY <1>4, ServerFrame, SameStream DEF TakeAhead
  <2> QED
    BY <1>4, <2>1, ServerFrame, PromiseFrame DEF SameOpener
<1> QED
  BY <1>1, <1>2, <1>3, <1>4

BotInv == TypeInv /\ PlacesInv /\ \A s \in Sev : Promise(s)

LEMMA InitBot ==
    ASSUME Init
    PROVE  BotInv
<1>1. TypeInv
  BY InitType
<1>2. PlacesInv
  BY DEF Init, PlacesInv, OneFiling, Unpublished, PublishedOnce, ChannelsOK, RegisterInTime,
         InStream, NoFiling, Early
<1>3. \A s \in Sev : Promise(s)
  BY DEF Init, Promise, OpenerKept
<1> QED
  BY <1>1, <1>2, <1>3 DEF BotInv

LEMMA NextBot ==
    ASSUME BotInv, [Next]_vars
    PROVE  BotInv'
<1> USE DEF BotInv
<1>1. CASE \E f \in Filing : FilingStep(f) \/ NoAnswer(f)
  BY <1>1, FilingType, FilingPlaces, FilingPromise
<1>2. CASE ListenerStep
  BY <1>2, ListenerType, ListenerPlaces, ListenerPromise
<1>3. CASE \/ \E f \in Filing : \E s \in Sev, opener, creator \in Opt(User) :
                 CreateSEV(f, s, opener, creator)
           \/ Disconnect \/ Restart \/ ServerStep \/ Connect \/ UNCHANGED vars
  <2>1. TypeInv'
    BY <1>3, OtherType, RestartType, AssignerType, StutterType DEF ServerStep
  <2> QED
    BY <1>3, <2>1, OtherPlaces, OtherPromise
<1> QED
  BY <1>1, <1>2, <1>3 DEF Next, ServerStep

\* handleOpen looks for the channel and registers its opener in one critical section,
\* and the listener puts the channel in the map before it takes the opener out: an
\* opener that is registered is always collected, whatever the SEVs in flight.
THEOREM PendingCorrect == Spec => []PendingTaken
<1>1. BotInv => PendingTaken
  BY DEF BotInv, Promise, PendingTaken
<1>2. Init => BotInv
  BY InitBot
<1>3. BotInv /\ [Next]_vars => BotInv'
  BY NextBot
<1> QED
  BY <1>1, <1>2, <1>3, PTL DEF Spec

\* Of the two goroutines that may invite whoever ran /sev open, one does, however they
\* interleave, and however many commands, assignments and reconnections are going on.
THEOREM OpenerCorrect == Spec => []OpenerInvited
<1>1. BotInv => OpenerInvited
  <2> SUFFICES ASSUME BotInv, NEW s \in Sev, sevs[s] # Nil, sevs[s].opener # Nil,
                      ~ Unsettled(s), s \notin spoiled
               PROVE  sevs[s].opener \in members[s]
    BY DEF OpenerInvited
  <2>1. ~ TakeAhead(s)
    BY DEF Unsettled, TakeAhead
  <2> QED
    BY <2>1 DEF BotInv, Promise, OpenerKept, Unsettled
<1>2. Init => BotInv
  BY InitBot
<1>3. BotInv /\ [Next]_vars => BotInv'
  BY NextBot
<1> QED
  BY <1>1, <1>2, <1>3, PTL DEF Spec

(***************************************************************************)
(* Role holders. Those in due are in the channel, or in the list of roles  *)
(* the listener has yet to read, or in its list of invitations, or an      *)
(* AssignRole is about to invite them. A SEV without a channel has that    *)
(* reading of its roles still ahead.                                       *)
(***************************************************************************)
ListingAhead(s) ==
    \/ \E f \in Filing : filing[f].sev = s /\ filing[f].pc \in Early
    \/ InStream(s)
    \/ listener.sev = s /\ listener.pc \in {"create", "save", "roles"}

Gathering == {"creator", "take", "invite"}

Covered(s, u) ==
    \/ u \in members[s]
    \/ u \in roles[s] /\ ListingAhead(s)
    \/ listener.sev = s /\ listener.pc \in Gathering /\ u \in listener.invite
    \/ \E a \in Assigner : assign[a].sev = s /\ assign[a].user = u /\ assign[a].pc = "invite"

HolderKept(s) ==
    /\ s \notin spoiled => \A u \in due[s] : Covered(s, u)
    /\ s \notin spoiled /\ sevs[s] # Nil => s \in chans \/ ListingAhead(s)

ChannelMade == listener.pc \notin {"idle", "create"} => listener.sev \in chans

HolderInv == BotInv /\ ChannelMade /\ \A s \in Sev : HolderKept(s)

LEMMA HolderFrame ==
    ASSUME NEW s \in Sev, HolderKept(s),
           \/ s \in spoiled'
           \/ /\ sevs'[s] # Nil => sevs[s] # Nil
              /\ chans \subseteq chans'
              /\ due'[s] \subseteq due[s]
              /\ \A u \in due'[s] : u \in roles[s] => u \in roles'[s]
              /\ members[s] \subseteq members'[s]
              /\ ListingAhead(s) => ListingAhead(s)'
              /\ \/ ~ (listener.sev = s /\ listener.pc \in Gathering)
                 \/ /\ listener'.sev = s /\ listener'.pc \in Gathering
                    /\ listener.invite \subseteq listener'.invite
                 \/ listener.invite \subseteq members'[s]
              /\ \A a \in Assigner :
                     \/ ~ (assign[a].sev = s /\ assign[a].pc = "invite")
                     \/ assign'[a] = assign[a]
                     \/ assign[a].user \in members'[s]
              /\ spoiled \subseteq spoiled'
    PROVE  HolderKept(s)'
<1>1. CASE s \in spoiled'
  BY <1>1 DEF HolderKept
<1>2. CASE s \notin spoiled'
  <2>1. ASSUME NEW u \in due'[s] PROVE Covered(s, u)'
    <3>1. Covered(s, u)
      BY <1>2, <2>1 DEF HolderKept
    <3>2. CASE u \in members[s]
      BY <1>2, <3>2 DEF Covered
    <3>3. CASE u \in roles[s] /\ ListingAhead(s)
      BY <1>2, <2>1, <3>3 DEF Covered
    <3>4. CASE listener.sev = s /\ listener.pc \in Gathering /\ u \in listener.invite
      BY <1>2, <3>4 DEF Covered
    <3>5. CASE \E a \in Assigner : assign[a].sev = s /\ assign[a].user = u /\ assign[a].pc = "invite"
      BY <1>2, <3>5 DEF Covered
    <3> QED
      BY <3>1, <3>2, <3>3, <3>4, <3>5 DEF Covered
  <2>2. sevs'[s] # Nil => s \in chans' \/ ListingAhead(s)'
    BY <1>2 DEF HolderKept
  <2> QED
    BY <2>1, <2>2 DEF HolderKept
<1> QED
  BY <1>1, <1>2

LEMMA FilingHolder ==
    ASSUME HolderInv, NEW f \in Filing, FilingStep(f) \/ NoAnswer(f), NEW t \in Sev
    PROVE  HolderKept(t)'
<1> DEFINE s == filing[f].sev
<1>0. /\ HolderKept(t) /\ TypeInv
      /\ filing[f].pc # "idle" /\ s \in Sev /\ sevs[s] # Nil
  BY DEF HolderInv, BotInv, FilingStep, AssignOnCall, Publish, FilingFails,
         ChannelOrRegisterOpener, InviteOpener, NoAnswer, TypeInv, TypeOK, FilingsOK, FilingLoc, Opt
<1>1. CASE AssignOnCall(f)
  <2>1. /\ filing' = [filing EXCEPT ![f].pc = "publish"]
        /\ UNCHANGED <<sevs, members, chans, assign, stream, listener, spoiled>>
        /\ filing[f].pc = "oncall"
    BY <1>1 DEF AssignOnCall, bot, slack, Works
  <2>2. \A v \in Sev : ListingAhead(v) <=> ListingAhead(v)'
    BY <2>1, <1>0, SameStream DEF ListingAhead, TypeInv, TypeOK, FilingLoc, Early
  <2>3. ListingAhead(s)
    BY <2>1 DEF ListingAhead, Early
  <2>4. CASE UNCHANGED <<roles, due>>
    BY <1>0, <2>1, <2>2, <2>4, HolderFrame
  <2>5. CASE \E u \in User : /\ roles' = [roles EXCEPT ![s] = @ \union {u}]
                            /\ due' = [due EXCEPT ![s] = @ \union {u}]
    <3>1. PICK u \in User : /\ roles' = [roles EXCEPT ![s] = @ \union {u}]
                            /\ due' = [due EXCEPT ![s] = @ \union {u}]
      BY <2>5
    <3>2. CASE t # s
      <4>1. due'[t] = due[t] /\ roles'[t] = roles[t]
        BY <1>0, <3>1, <3>2 DEF TypeInv, TypeOK
      <4> QED
        BY <1>0, <2>1, <2>2, <4>1, HolderFrame
    <3>3. CASE t = s
      <4>1. due'[t] = due[t] \union {u} /\ roles'[t] = roles[t] \union {u}
        BY <1>0, <3>1, <3>3 DEF TypeInv, TypeOK
      <4>2. ListingAhead(t)'
        BY <2>2, <2>3, <3>3
      <4>3. \A v \in due[t] : (Covered(t, v) => Covered(t, v)')
        BY <2>1, <4>1, <4>2 DEF Covered
      <4>4. Covered(t, u)'
        BY <4>1, <4>2 DEF Covered
      <4> QED
        BY <1>0, <2>1, <4>1, <4>2, <4>3, <4>4 DEF HolderKept
    <3> QED
      BY <3>2, <3>3
  <2> QED
    BY <1>1, <2>4, <2>5 DEF AssignOnCall
<1>2. CASE Publish(f)
  <2>1. /\ \A g \in Filing : g # f => filing'[g] = filing[g]
        /\ UNCHANGED <<sevs, roles, due, members, chans, assign, listener>>
        /\ \/ stream' = Append(stream, s) /\ spoiled' = spoiled
           \/ stream' = stream /\ spoiled' = spoiled \union {s}
    BY <1>0, <1>2 DEF Publish, slack, TypeInv, TypeOK
  <2>2. CASE stream' = Append(stream, s) /\ spoiled' = spoiled
    <3>1. \A v \in Sev : InStream(v)' <=> InStream(v) \/ v = s
      BY <1>0, <2>2, Appended DEF TypeInv, TypeOK
    <3>2. ListingAhead(t) => ListingAhead(t)'
      BY <2>1, <3>1 DEF ListingAhead
    <3> QED
      BY <1>0, <2>1, <2>2, <3>2, HolderFrame
  <2>3. CASE stream' = stream /\ spoiled' = spoiled \union {s}
    <3>1. t # s /\ ListingAhead(t) => ListingAhead(t)'
      BY <2>1, <2>3, SameStream DEF ListingAhead
    <3> QED
      BY <1>0, <2>1, <2>3, <3>1, HolderFrame
  <2> QED
    BY <2>1, <2>2, <2>3
<1>3. CASE FilingFails(f)
  <2>1. /\ \A g \in Filing : g # f => filing'[g] = filing[g]
        /\ UNCHANGED <<sevs, roles, due, members, chans, assign, listener, stream>>
        /\ spoiled' = spoiled \union {s}
    BY <1>0, <1>3 DEF FilingFails, Fails, bot, slack, TypeInv, TypeOK
  <2>2. t # s /\ ListingAhead(t) => ListingAhead(t)'
    BY <2>1, SameStream DEF ListingAhead
  <2> QED
    BY <1>0, <2>1, <2>2, HolderFrame
<1>4. CASE ChannelOrRegisterOpener(f) \/ InviteOpener(f) \/ NoAnswer(f)
  <2>1. /\ \A g \in Filing : g # f => filing'[g] = filing[g]
        /\ filing[f].pc \in {"register", "invite"}
        /\ UNCHANGED <<sevs, roles, due, chans, assign, listener, stream>>
        /\ spoiled \subseteq spoiled'
    <3>1. CASE ChannelOrRegisterOpener(f)
      BY <1>0, <3>1 DEF ChannelOrRegisterOpener, slack, Works, TypeInv, TypeOK
    <3>2. CASE InviteOpener(f)
      BY <1>0, <3>2 DEF InviteOpener, bot, Works, Fails, TypeInv, TypeOK
    <3>3. CASE NoAnswer(f)
      BY <1>0, <3>3 DEF NoAnswer, bot, TypeInv, TypeOK
    <3> QED
      BY <1>4, <3>1, <3>2, <3>3
  <2>2. members[t] \subseteq members'[t]
    <3>1. CASE ChannelOrRegisterOpener(f)
      BY <3>1 DEF ChannelOrRegisterOpener, slack
    <3>2. CASE InviteOpener(f)
      BY <1>0, <3>2 DEF InviteOpener, Invite, TypeInv, TypeOK
    <3>3. CASE NoAnswer(f)
      BY <1>0, <3>3 DEF NoAnswer, Invite, TypeInv, TypeOK
    <3> QED
      BY <1>4, <3>1, <3>2, <3>3
  <2>3. ListingAhead(t) => ListingAhead(t)'
    BY <2>1, SameStream DEF ListingAhead, Early
  <2> QED
    BY <1>0, <2>1, <2>2, <2>3, HolderFrame
<1> QED
  BY <1>1, <1>2, <1>3, <1>4 DEF FilingStep

LEMMA ListenerHolder ==
    ASSUME HolderInv, ListenerStep, NEW t \in Sev
    PROVE  HolderKept(t)' /\ ChannelMade'
<1> DEFINE s == listener.sev
<1>0. HolderKept(t) /\ ChannelMade /\ TypeInv /\ PlacesInv
  BY DEF HolderInv, BotInv
<1>1. CASE HandleSEVCreated
  <2>1. /\ stream \in Seq(Sev) /\ stream # <<>> /\ stream' = Tail(stream)
        /\ UNCHANGED <<sevs, roles, due, filing, assign, members, chans, spoiled>>
        /\ listener.pc = "idle" /\ listener.sev = Nil
    BY <1>0, <1>1 DEF HandleSEVCreated, server, slack, Works, TypeInv, TypeOK, ListenerOK
  <2>2. /\ Head(stream) \in Sev /\ InStream(Head(stream))
        /\ \A v \in Sev : InStream(v) => InStream(v)' \/ v = Head(stream)
    BY <2>1, Shortened
  <2>3. listener' = [pc |-> "create", sev |-> Head(stream), invite |-> {}]
    BY <1>0, <1>1, <2>2 DEF HandleSEVCreated, PlacesInv, PublishedOnce
  <2>4. ListingAhead(t) => ListingAhead(t)'
    BY <2>1, <2>2, <2>3, BotAssumption DEF ListingAhead
  <2>5. ChannelMade'
    BY <2>3 DEF ChannelMade
  <2> QED
    BY <1>0, <2>1, <2>4, <2>5, HolderFrame DEF Gathering
<1>2. CASE CreateChannel
  <2>1. /\ UNCHANGED <<sevs, roles, due, filing, assign, members, stream>>
        /\ listener.pc = "create"
        /\ \/ /\ chans' = chans \union {s} /\ spoiled' = spoiled
              /\ listener' = [listener EXCEPT !.pc = "save"]
           \/ chans' = chans /\ listener' = Listening /\ spoiled' = spoiled \union {s}
    BY <1>2 DEF CreateChannel, Goto, server, Works, Fails
  <2>2. CASE /\ chans' = chans \union {s} /\ spoiled' = spoiled
             /\ listener' = [listener EXCEPT !.pc = "save"]
    <3>1. listener'.sev = s /\ listener'.pc = "save"
      BY <1>0, <2>2 DEF TypeInv, TypeOK, ListenerLoc
    <3>2. ListingAhead(t) => ListingAhead(t)'
      BY <2>1, <3>1, SameStream DEF ListingAhead
    <3>3. ChannelMade'
      BY <2>2, <3>1 DEF ChannelMade
    <3> QED
      BY <1>0, <2>1, <2>2, <3>2, <3>3, HolderFrame DEF Gathering
  <2>3. CASE chans' = chans /\ listener' = Listening /\ spoiled' = spoiled \union {s}
    <3>1. t # s /\ ListingAhead(t) => ListingAhead(t)'
      BY <2>1, SameStream DEF ListingAhead
    <3>2. ChannelMade'
      BY <2>3 DEF ChannelMade, Listening
    <3> QED
      BY <1>0, <2>1, <2>3, <3>1, <3>2, HolderFrame DEF Gathering
  <2> QED
    BY <2>1, <2>2, <2>3
<1>3. CASE WriteBack
  <2>1. /\ UNCHANGED <<roles, due, filing, assign, members, chans, stream>>
        /\ listener.pc = "save" /\ listener'.pc = "roles" /\ listener'.sev = s
        /\ spoiled \subseteq spoiled'
    BY <1>0, <1>3 DEF WriteBack, Goto, slack, Works, Fails, TypeInv, TypeOK, ListenerLoc
  <2>2. sevs'[t] # Nil => sevs[t] # Nil
    BY <1>0, <1>3 DEF WriteBack, TypeInv, TypeOK, ListenerOK
  <2>3. ListingAhead(t) => ListingAhead(t)'
    BY <2>1, SameStream DEF ListingAhead
  <2>4. ChannelMade'
    BY <1>0, <2>1 DEF ChannelMade
  <2> QED
    BY <1>0, <2>1, <2>2, <2>3, <2>4, HolderFrame DEF Gathering
<1>4. CASE ResolveRoleHolders
  <2>1. PICK found \in SUBSET roles[s] :
            /\ listener' = [listener EXCEPT !.pc = "creator", !.invite = found]
            /\ IF found = roles[s] THEN Works ELSE Fails("api", s)
    BY <1>4 DEF ResolveRoleHolders
  <2>2. /\ UNCHANGED <<sevs, roles, due, filing, assign, members, chans, stream>>
        /\ listener.pc = "roles"
    BY <1>4 DEF ResolveRoleHolders, server, slack
  <2>3. listener'.sev = s /\ listener'.pc = "creator" /\ listener'.invite = found
    BY <1>0, <2>1 DEF TypeInv, TypeOK, ListenerLoc
  <2>4. /\ spoiled \subseteq spoiled' /\ s \in Sev
        /\ s \in spoiled' \/ found = roles[s]
    BY <1>0, <2>1, <2>2 DEF Works, Fails, TypeInv, TypeOK, ListenerOK, ListenerLoc, Opt
  <2>5. ChannelMade' /\ s \in chans'
    BY <1>0, <2>2, <2>3 DEF ChannelMade
  <2>6. CASE t # s
    <3>1. ListingAhead(t) => ListingAhead(t)'
      BY <2>2, <2>6, SameStream DEF ListingAhead
    <3> QED
      BY <1>0, <2>2, <2>4, <2>5, <2>6, <3>1, HolderFrame
  <2>7. CASE t = s
    <3>1. CASE t \in spoiled'
      BY <1>0, <2>5, <3>1, HolderFrame
    <3>2. CASE found = roles[s] /\ t \notin spoiled'
      <4>1. ASSUME NEW u \in due[t], Covered(t, u) PROVE Covered(t, u)'
        <5>1. CASE u \in roles[t]
          BY <2>3, <2>7, <3>2, <5>1 DEF Covered, Gathering
        <5>2. CASE u \notin roles[t]
          BY <2>2, <4>1, <5>2 DEF Covered, Gathering
        <5> QED
          BY <5>1, <5>2
      <4>2. \A u \in due'[t] : Covered(t, u)'
        BY <1>0, <2>2, <2>4, <3>2, <4>1 DEF HolderKept
      <4> QED
        BY <2>5, <2>7, <4>2 DEF HolderKept
    <3> QED
      BY <2>4, <2>7, <3>1, <3>2
  <2> QED
    BY <2>5, <2>6, <2>7
<1>5. CASE ResolveCreator \/ TakePendingOpener
  <2>1. /\ UNCHANGED <<sevs, roles, due, filing, assign, members, chans, stream>>
        /\ listener.pc \in {"creator", "take"} /\ spoiled \subseteq spoiled'
    <3>1. CASE ResolveCreator
      BY <3>1 DEF ResolveCreator, server, slack, Works, Fails
    <3>2. CASE TakePendingOpener
      BY <3>2 DEF TakePendingOpener, server, slack, Works
    <3> QED
      BY <1>5, <3>1, <3>2
  <2>2. /\ listener'.sev = s /\ listener'.pc \in {"take", "invite"}
        /\ listener.invite \subseteq listener'.invite
    <3>1. CASE ResolveCreator
      BY <1>0, <3>1 DEF ResolveCreator, Goto, TypeInv, TypeOK, ListenerLoc
    <3>2. CASE TakePendingOpener
      BY <1>0, <3>2 DEF TakePendingOpener, TypeInv, TypeOK, ListenerLoc
    <3> QED
      BY <1>5, <3>1, <3>2
  <2>3. ListingAhead(t) => ListingAhead(t)'
    BY <2>1, SameStream DEF ListingAhead
  <2>4. ChannelMade'
    BY <1>0, <2>1, <2>2 DEF ChannelMade
  <2> QED
    BY <1>0, <2>1, <2>2, <2>3, <2>4, HolderFrame DEF Gathering
<1>6. CASE InviteUsers
  <2>1. /\ listener.pc = "invite" /\ listener' = Listening
        /\ UNCHANGED <<sevs, roles, due, filing, assign, chans, stream>>
        /\ \/ members' = [members EXCEPT ![s] = @ \union listener.invite] /\ spoiled' = spoiled
           \/ members' = members /\ spoiled' = spoiled \union {s}
    BY <1>6 DEF InviteUsers, server, Invite, Works, Fails
  <2>2. /\ members[t] \subseteq members'[t] /\ spoiled \subseteq spoiled'
        /\ t = s => t \in spoiled' \/ listener.invite \subseteq members'[t]
    BY <1>0, <2>1 DEF TypeInv, TypeOK
  <2>3. ListingAhead(t) => ListingAhead(t)'
    BY <2>1, SameStream DEF ListingAhead
  <2>4. ChannelMade'
    BY <2>1 DEF ChannelMade, Listening
  <2> QED
    BY <1>0, <2>1, <2>2, <2>3, <2>4, HolderFrame DEF Gathering
<1> QED
  BY <1>1, <1>2, <1>3, <1>4, <1>5, <1>6 DEF ListenerStep

LEMMA AssignerHolder ==
    ASSUME HolderInv, NEW a \in Assigner, NEW t \in Sev,
           (\E s \in Sev, u \in User : AssignRole(a, s, u)) \/ StoreRole(a)
             \/ AutoInviteRoleToSlack(a)
    PROVE  HolderKept(t)' /\ ChannelMade'
<1> DEFINE s == assign[a].sev
           u == assign[a].user
<1>0. HolderKept(t) /\ ChannelMade /\ TypeInv
  BY DEF HolderInv, BotInv
<1>1. /\ UNCHANGED <<sevs, filing, stream, listener, chans>>
      /\ spoiled \subseteq spoiled'
      /\ \A b \in Assigner : b # a => assign'[b] = assign[b]
  <2>1. CASE \E v \in Sev, w \in User : AssignRole(a, v, w)
    BY <1>0, <2>1 DEF AssignRole, bot, slack, Works, TypeInv, TypeOK
  <2>2. CASE StoreRole(a)
    BY <1>0, <2>2 DEF StoreRole, bot, slack, Works, Fails, TypeInv, TypeOK
  <2>3. CASE AutoInviteRoleToSlack(a)
    BY <1>0, <2>3 DEF AutoInviteRoleToSlack, bot, Works, Fails, TypeInv, TypeOK
  <2> QED
    BY <2>1, <2>2, <2>3
<1>2. ListingAhead(t) <=> ListingAhead(t)'
  BY <1>1, SameStream DEF ListingAhead
<1>3. ChannelMade'
  BY <1>0, <1>1 DEF ChannelMade
<1>4. CASE \E v \in Sev, w \in User : AssignRole(a, v, w)
  <2>1. UNCHANGED <<roles, due, members>> /\ assign[a].pc = "idle"
    BY <1>4 DEF AssignRole, slack
  <2> QED
    BY <1>0, <1>1, <1>2, <1>3, <2>1, HolderFrame
<1>5. CASE StoreRole(a)
  <2>1. s \in Sev /\ u \in User /\ sevs[s] # Nil /\ assign[a].pc = "store"
    BY <1>0, <1>5 DEF StoreRole, TypeInv, TypeOK, AssignsOK, AssignLoc, Opt
  <2> PICK w \in User : w = u
    BY <2>1
  <2>2. UNCHANGED members
    BY <1>5 DEF StoreRole, slack
  <2>3. CASE UNCHANGED <<roles, due>>
    BY <1>0, <1>1, <1>2, <1>3, <2>1, <2>2, <2>3, HolderFrame
  <2>4. CASE /\ roles' = [roles EXCEPT ![s] = @ \union {u}]
             /\ due' = IF assign[a].channel \/ s \notin chans
                       THEN [due EXCEPT ![s] = @ \union {u}] ELSE due
             /\ assign' = [assign EXCEPT ![a] = IF assign[a].channel
                                                THEN [@ EXCEPT !.pc = "invite"] ELSE NoAssign]
    <3>1. roles[t] \subseteq roles'[t] /\ (t = s => u \in roles'[t])
      BY <1>0, <2>1, <2>4 DEF TypeInv, TypeOK
    <3>2. CASE due'[t] = due[t]
      BY <1>0, <1>1, <1>2, <1>3, <2>1, <2>2, <3>1, <3>2, HolderFrame
    <3>3. CASE due'[t] # due[t] /\ t \notin spoiled'
      <4>1. t = s /\ due'[t] = due[t] \union {u} /\ (assign[a].channel \/ s \notin chans)
        BY <1>0, <2>1, <2>4, <3>3 DEF TypeInv, TypeOK
      <4>2. Covered(t, w)'
        <5>1. CASE assign[a].channel
          <6>1. assign'[a].sev = t /\ assign'[a].user = w /\ assign'[a].pc = "invite"
            BY <1>0, <2>4, <4>1, <5>1 DEF TypeInv, TypeOK, AssignLoc
          <6> QED
            BY <6>1 DEF Covered
        <5>2. CASE s \notin chans
          BY <1>0, <1>1, <1>2, <2>1, <3>1, <3>3, <4>1, <5>2 DEF HolderKept, Covered
        <5> QED
          BY <4>1, <5>1, <5>2
      <4>3. ASSUME NEW v \in due[t], Covered(t, v) PROVE Covered(t, v)'
        BY <1>1, <1>2, <2>1, <2>2, <3>1, <4>3 DEF Covered
      <4> QED
        BY <1>0, <1>1, <1>2, <1>3, <3>3, <4>1, <4>2, <4>3 DEF HolderKept
    <3>4. CASE t \in spoiled'
      BY <1>0, <1>3, <3>4, HolderFrame
    <3> QED
      BY <3>2, <3>3, <3>4
  <2> QED
    BY <1>5, <2>3, <2>4 DEF StoreRole
<1>6. CASE AutoInviteRoleToSlack(a)
  <2>1. s \in Sev /\ UNCHANGED <<roles, due>>
    BY <1>0, <1>6 DEF AutoInviteRoleToSlack, TypeInv, TypeOK, AssignsOK, AssignLoc, Opt
  <2>2. \/ members' = [members EXCEPT ![s] = @ \union {u}]
        \/ members' = members /\ s \in spoiled'
    BY <1>6 DEF AutoInviteRoleToSlack, Invite, Fails
  <2>3. /\ members[t] \subseteq members'[t]
        /\ t = s => t \in spoiled' \/ u \in members'[t]
    BY <1>0, <2>1, <2>2 DEF TypeInv, TypeOK
  <2> QED
    BY <1>0, <1>1, <1>2, <1>3, <2>1, <2>3, HolderFrame
<1> QED
  BY <1>4, <1>5, <1>6

LEMMA OtherHolder ==
    ASSUME HolderInv, NEW t \in Sev,
           \/ \E f \in Filing : \E s \in Sev, opener, creator \in Opt(User) :
                 CreateSEV(f, s, opener, creator)
           \/ Connect \/ Disconnect \/ Restart \/ UNCHANGED vars
           \/ \E s \in Sev : (\E u \in User : RemoveRole(s, u) \/ JoinSlackChannel(s, u))
                              \/ OverwriteSEV(s)
    PROVE  HolderKept(t)' /\ ChannelMade'
<1>0. HolderKept(t) /\ ChannelMade /\ TypeInv
  BY DEF HolderInv, BotInv
<1>1. ASSUME NEW f \in Filing, NEW s \in Sev, NEW opener \in Opt(User),
             NEW creator \in Opt(User), CreateSEV(f, s, opener, creator)
      PROVE  HolderKept(t)' /\ ChannelMade'
  <2>1. /\ filing' = [filing EXCEPT ![f] = [pc |-> "oncall", sev |-> s]]
        /\ UNCHANGED <<stream, listener, roles, due, assign, chans, members, spoiled>>
        /\ filing[f].pc = "idle"
        /\ \A v \in Sev : v # s => sevs'[v] = sevs[v]
    BY <1>0, <1>1 DEF CreateSEV, bot, slack, Works, TypeInv, TypeOK
  <2>2. /\ \A g \in Filing : g # f => filing'[g] = filing[g]
        /\ filing'[f].pc \in Early /\ filing'[f].sev = s
    BY <1>0, <2>1 DEF TypeInv, TypeOK, Early
  <2>3. ListingAhead(t) => ListingAhead(t)'
    BY <2>1, <2>2, SameStream DEF ListingAhead, Early
  <2>4. ChannelMade'
    BY <1>0, <2>1 DEF ChannelMade
  <2>5. CASE t # s
    BY <1>0, <2>1, <2>3, <2>4, <2>5, HolderFrame
  <2>6. CASE t = s
    <3>1. ListingAhead(t)'
      BY <2>2, <2>6 DEF ListingAhead
    <3>2. ASSUME NEW v \in due[t], Covered(t, v) PROVE Covered(t, v)'
      BY <2>1, <3>1, <3>2 DEF Covered
    <3> QED
      BY <1>0, <2>1, <2>4, <3>1, <3>2 DEF HolderKept
  <2> QED
    BY <2>5, <2>6
<1>2. CASE Connect \/ UNCHANGED vars
  <2>1. UNCHANGED <<sevs, roles, due, filing, assign, stream, listener, chans, members, spoiled>>
    BY <1>2 DEF Connect, server, slack, Works, vars
  <2>2. ListingAhead(t) => ListingAhead(t)'
    BY <2>1, SameStream DEF ListingAhead
  <2>3. ChannelMade'
    BY <1>0, <2>1 DEF ChannelMade
  <2> QED
    BY <1>0, <2>1, <2>2, <2>3, HolderFrame
<1>3. CASE Disconnect
  <2>1. /\ UNCHANGED <<sevs, roles, due, filing, assign, listener, chans, members>>
        /\ spoiled' = spoiled \union {s \in Sev : InStream(s)}
    BY <1>3 DEF Disconnect, server, slack
  <2>2. t \in spoiled' \/ (ListingAhead(t) => ListingAhead(t)')
    BY <2>1 DEF ListingAhead
  <2>3. ChannelMade'
    BY <1>0, <2>1 DEF ChannelMade
  <2> QED
    BY <1>0, <2>1, <2>2, <2>3, HolderFrame
<1>4. CASE Restart
  <2>1. ChannelMade'
    BY <1>4 DEF Restart, Listening, ChannelMade
  <2>2. CASE Unsettled(t)
    <3>1. t \in spoiled'
      BY <1>4, <2>2 DEF Restart
    <3> QED
      BY <1>0, <2>1, <3>1, HolderFrame
  <2>3. CASE ~ Unsettled(t)
    <3>1. ~ ListingAhead(t) /\ listener.sev # t
      BY <2>3 DEF Unsettled, ListingAhead
    <3>2. /\ sevs'[t] = sevs[t] /\ UNCHANGED <<roles, due, assign, chans, members>>
          /\ spoiled \subseteq spoiled'
      BY <1>4, <2>3 DEF Restart, slack
    <3> QED
      BY <1>0, <2>1, <3>1, <3>2, HolderFrame
  <2> QED
    BY <2>2, <2>3
<1>5. ASSUME NEW s \in Sev, NEW u \in User, RemoveRole(s, u) \/ JoinSlackChannel(s, u)
      PROVE  HolderKept(t)' /\ ChannelMade'
  <2>1. UNCHANGED <<sevs, filing, assign, stream, listener, chans, spoiled>>
    BY <1>5 DEF RemoveRole, JoinSlackChannel, server, bot, slack, Works
  <2>2. /\ due'[t] \subseteq due[t] /\ members[t] \subseteq members'[t]
        /\ \A v \in due'[t] : v \in roles[t] => v \in roles'[t]
    <3>1. CASE RemoveRole(s, u)
      BY <1>0, <3>1 DEF RemoveRole, slack, TypeInv, TypeOK
    <3>2. CASE JoinSlackChannel(s, u)
      BY <1>0, <3>2 DEF JoinSlackChannel, Invite, server, TypeInv, TypeOK
    <3> QED
      BY <1>5, <3>1, <3>2
  <2>3. ListingAhead(t) => ListingAhead(t)'
    BY <2>1, SameStream DEF ListingAhead
  <2>4. ChannelMade'
    BY <1>0, <2>1 DEF ChannelMade
  <2> QED
    BY <1>0, <2>1, <2>2, <2>3, <2>4, HolderFrame
<1>6. ASSUME NEW s \in Sev, OverwriteSEV(s)
      PROVE  HolderKept(t)' /\ ChannelMade'
  <2>1. /\ UNCHANGED <<roles, due, filing, assign, stream, listener, chans, members>>
        /\ spoiled \subseteq spoiled' /\ (t # s => sevs'[t] = sevs[t])
        /\ sevs[s] # Nil
    BY <1>0, <1>6 DEF OverwriteSEV, Fails, bot, slack, TypeInv, TypeOK
  <2>2. ListingAhead(t) => ListingAhead(t)'
    BY <2>1, SameStream DEF ListingAhead
  <2>3. ChannelMade'
    BY <1>0, <2>1 DEF ChannelMade
  <2> QED
    BY <1>0, <2>1, <2>2, <2>3, HolderFrame
<1> QED
  BY <1>1, <1>2, <1>3, <1>4, <1>5, <1>6

\* Between the listener's reading of the roles and AssignRole's look at the channel, a
\* role holder somebody was bound to invite is invited, for any number of each. (A role
\* stored after that reading by a handler that saw no channel is in neither's charge.)
THEOREM HoldersCorrect == Spec => []HoldersInvited
<1>1. Init => HolderInv
  <2> SUFFICES ASSUME Init PROVE HolderInv
    OBVIOUS
  <2>1. ChannelMade /\ \A s \in Sev : HolderKept(s)
    BY DEF Init, Listening, ChannelMade, HolderKept
  <2> QED
    BY <2>1, InitBot DEF HolderInv
<1>2. HolderInv /\ [Next]_vars => HolderInv'
  <2> SUFFICES ASSUME HolderInv, [Next]_vars PROVE HolderInv'
    OBVIOUS
  <2>1. BotInv'
    BY NextBot DEF HolderInv
  <2>2. ASSUME NEW t \in Sev PROVE HolderKept(t)' /\ ChannelMade'
    <3>1. CASE \E f \in Filing : FilingStep(f) \/ NoAnswer(f)
      <4>1. PICK f \in Filing : FilingStep(f) \/ NoAnswer(f)
        BY <3>1
      <4>2. UNCHANGED <<listener, chans>>
        BY <4>1 DEF FilingStep, AssignOnCall, Publish, FilingFails, ChannelOrRegisterOpener,
                    InviteOpener, NoAnswer, bot, slack
      <4> QED
        BY <4>1, <4>2, FilingHolder DEF HolderInv, ChannelMade
    <3>2. CASE ListenerStep
      BY <3>2, ListenerHolder
    <3>3. CASE \E a \in Assigner : \/ \E s \in Sev, u \in User : AssignRole(a, s, u)
                                 \/ StoreRole(a) \/ AutoInviteRoleToSlack(a)
      BY <3>3, AssignerHolder
    <3>4. CASE \/ \E f \in Filing : \E s \in Sev, opener, creator \in Opt(User) :
                   CreateSEV(f, s, opener, creator)
             \/ Connect \/ Disconnect \/ Restart \/ UNCHANGED vars
             \/ \E s \in Sev : (\E u \in User : RemoveRole(s, u) \/ JoinSlackChannel(s, u))
                                \/ OverwriteSEV(s)
      BY <3>4, OtherHolder
    <3> QED
      BY <3>1, <3>2, <3>3, <3>4 DEF Next
  <2>3. ChannelMade'
    <3>1. CASE listener'.pc = "idle"
      BY <3>1 DEF ChannelMade
    <3>2. CASE listener'.pc # "idle"
      <4>1. listener'.sev \in Sev
        BY <2>1, <3>2 DEF BotInv, TypeInv, TypeOK, ListenerOK, ListenerLoc, Opt
      <4> QED
        BY <2>2, <4>1
    <3> QED
      BY <3>1, <3>2
  <2> QED
    BY <2>1, <2>2, <2>3 DEF HolderInv
<1>3. HolderInv => HoldersInvited
  <2> SUFFICES ASSUME HolderInv, NEW s \in Sev, sevs[s] # Nil, ~ Unsettled(s), ~ Assigning(s),
                      s \notin spoiled, NEW u \in due[s]
               PROVE  u \in members[s]
    BY DEF HoldersInvited
  <2>1. Covered(s, u)
    BY DEF HolderInv, HolderKept
  <2>2. ~ ListingAhead(s) /\ listener.sev # s
    BY DEF Unsettled, ListingAhead
  <2> QED
    BY <2>1, <2>2 DEF Covered, Assigning
<1> QED
  BY <1>1, <1>2, <1>3, PTL DEF Spec

===============================================================================
