------------------------------- MODULE BotSession -------------------------------
(***************************************************************************)
(* How the Slack bot stays signed in (cmd/slackbot/auth.go): the token it  *)
(* keeps, the lock around it, the goroutine that renews it, and the one    *)
(* retry of a call the server refuses.                                     *)
(*                                                                         *)
(* The server is here as the bot sees it: whether the bot's account is     *)
(* active, the JWT_SECRET in force, and POST /auth/login in its two steps  *)
(* (Accounts models the server's side for every user). The answer of a     *)
(* login travels, so a token may be cached whose secret is no longer used. *)
(***************************************************************************)
EXTENDS Environment

CONSTANTS
    BotTtl,         \* lifetime of a token
    Margin,         \* tokenExpiryMargin
    Timeout,        \* of the HTTP client that logs in
    MaxRotations    \* bound: changes of JWT_SECRET

Session == [secret : Nat, exp : Nat]

ASSUME BotSessionAssumption ==
    /\ "refresher" \notin Request /\ Nil \notin Session
    /\ BotTtl \in Nat /\ Margin \in Nat /\ Timeout \in Nat /\ MaxRotations \in Nat
    /\ Timeout + Margin <= BotTtl

\* Who logs in: a call of the bot's, or runTokenRefresher.
Goroutine == Request \union {"refresher"}

VARIABLES
    botActive,  \* the bot's account is active
    key,        \* the server's JWT_SECRET
    cached,     \* tokenSource.token and expiresAt, or Nil
    login,      \* the holder of tokenSource.mu, and how far its login is
    rpc,        \* rpc[c]: where call c stands, which try it is, its token and
                \* the time it got it
    excused     \* history variable: calls that met something no retry can mend

botVars == <<botActive, key, cached, login, rpc, excused>>

NoLogin == [by |-> Nil, step |-> "none", since |-> 0, answer |-> Nil]
NoRpc   == [pc |-> "idle", try |-> 1, token |-> Nil, at |-> 0]

BotInit ==
    /\ botActive = TRUE
    /\ key = 0
    /\ cached = Nil
    /\ login = NoLogin
    /\ rpc = [c \in Request |-> NoRpc]
    /\ excused = {}

Unlocked == login.by = Nil

Begin(g) == [by |-> g, step |-> "ask", since |-> now, answer |-> Nil]

\* A cached token is handed out as long as it lasts for the margin.
Lasts(t) == t # Nil /\ now + Margin <= t.exp

-------------------------------------------------------------------------------
(***************************************************************************)
(* A call of the bot's: GetRequestMetadata, then the call itself, and on   *)
(* Unauthenticated forceLogin and all of it once more.                     *)
(***************************************************************************)
StartCall(c) ==
    /\ rpc[c].pc = "idle"
    /\ rpc' = [rpc EXCEPT ![c] = [NoRpc EXCEPT !.pc = "token"]]
    /\ excused' = IF botActive THEN excused ELSE excused \union {c}
    /\ UNCHANGED <<botActive, key, cached, login, env>>

\* Token(): under the lock, the cached token if it will last, else a login.
GetToken(c) ==
    /\ rpc[c].pc = "token"
    /\ Unlocked
    /\ IF Lasts(cached)
       THEN /\ rpc' = [rpc EXCEPT ![c].pc = "send", ![c].token = cached, ![c].at = now]
            /\ UNCHANGED login
       ELSE login' = Begin(c) /\ UNCHANGED rpc
    /\ UNCHANGED <<botActive, key, cached, excused, env>>

\* Mutant: what the retry is given is returned as it is, the first refusal too.
NoRetry(call) == [call EXCEPT !.pc = "failed", !.token = Nil]

\* Unauthenticated, from the server or from a login that failed in Token().
Refused(call) ==
    [call EXCEPT !.pc = IF call.try = 1 THEN "relogin" ELSE "failed", !.token = Nil]

Accepted(t) == t.secret = key /\ now < t.exp /\ botActive

Invoke(c) ==
    /\ rpc[c].pc = "send"
    /\ rpc' = [rpc EXCEPT ![c] = IF Accepted(@.token) THEN NoRpc ELSE Refused(@)]
    /\ excused' = IF Accepted(rpc[c].token) THEN excused \ {c}
                  ELSE IF rpc[c].try = 2 /\ now >= rpc[c].at + Margin
                  THEN excused \union {c} ELSE excused
    /\ UNCHANGED <<botActive, key, cached, login, env>>

ForceLogin(c) ==
    /\ rpc[c].pc = "relogin"
    /\ Unlocked
    /\ login' = Begin(c)
    /\ UNCHANGED <<botActive, key, cached, rpc, excused, env>>

ReturnFailure(c) ==
    /\ rpc[c].pc = "failed"
    /\ rpc' = [rpc EXCEPT ![c] = NoRpc]
    /\ excused' = excused \ {c}
    /\ UNCHANGED <<botActive, key, cached, login, env>>

-------------------------------------------------------------------------------
(***************************************************************************)
(* loginLocked, and the ticker of runTokenRefresher.                       *)
(***************************************************************************)

\* Mutant: the refresher leaves alone a token that still looks good.
RefreshIfStale ==
    /\ Unlocked
    /\ ~Lasts(cached)
    /\ login' = Begin("refresher")
    /\ UNCHANGED <<botActive, key, cached, rpc, excused, env>>

RefreshToken ==
    /\ Unlocked
    /\ login' = Begin("refresher")
    /\ UNCHANGED <<botActive, key, cached, rpc, excused, env>>

InTime == now <= login.since + Timeout

\* The server looks the account up.
LoginAsked ==
    /\ login.step = "ask"
    /\ botActive
    /\ login' = [login EXCEPT !.step = "sign"]
    /\ UNCHANGED <<botActive, key, cached, rpc, excused, env>>

LoginSigned ==
    /\ login.step = "sign"
    /\ login' = [login EXCEPT !.step = "answer",
                              !.answer = [secret |-> key, exp |-> now + BotTtl]]
    /\ UNCHANGED <<botActive, key, cached, rpc, excused, env>>

\* The token is cached and the lock released. A call that logged in within Token()
\* has its token; one that was refused goes for it again, as its second try.
LoginAnswered ==
    LET g == login.by IN
    /\ login.step = "answer"
    /\ InTime
    /\ cached' = login.answer
    /\ rpc' = IF g \notin Request THEN rpc
              ELSE IF rpc[g].pc = "token"
              THEN [rpc EXCEPT ![g].pc = "send", ![g].token = login.answer, ![g].at = now]
              ELSE [rpc EXCEPT ![g].pc = "token", ![g].try = 2]
    /\ login' = NoLogin
    /\ UNCHANGED <<botActive, key, excused, env>>

\* What a failed login leaves: the cached token, and a caller refused once more.
AfterFailure(g) ==
    /\ login' = NoLogin
    /\ rpc' = IF g \notin Request THEN rpc
              ELSE IF rpc[g].pc = "token" THEN [rpc EXCEPT ![g] = Refused(@)]
              ELSE [rpc EXCEPT ![g].pc = "failed"]
    /\ excused' = IF g \in Request THEN excused \union {g} ELSE excused
    /\ UNCHANGED <<botActive, key, cached>>

\* The account is not active, the client's timeout is over, or the request fails.
LoginFailed ==
    /\ ~Unlocked
    /\ AfterFailure(login.by)
    /\ \/ login.step = "ask" /\ ~botActive /\ UNCHANGED env
       \/ ~InTime /\ UNCHANGED env
       \/ Fail("login")

-------------------------------------------------------------------------------

\* Calls for which a change of the secret now comes too late to be mended: they are
\* in their second try, or the login before it has been signed.
PastMending ==
    {c \in Request : \/ rpc[c].try = 2
                     \/ rpc[c].pc = "relogin" /\ login.by = c /\ login.step = "answer"}

\* The server restarts with another secret. A login it was answering may fail.
RotateSecret ==
    /\ key < MaxRotations
    /\ key' = key + 1
    /\ excused' = excused \union PastMending
    /\ UNCHANGED <<botActive, cached, login, rpc, env>>

SetBotActive(active) ==
    /\ botActive # active
    /\ botActive' = active
    /\ excused' = {c \in Request : rpc[c].pc # "idle"} \union excused
    /\ UNCHANGED <<key, cached, login, rpc, env>>

RestartBot ==
    /\ Fail("bot")
    /\ cached' = Nil
    /\ login' = NoLogin
    /\ rpc' = [c \in Request |-> NoRpc]
    /\ excused' = {}
    /\ UNCHANGED <<botActive, key>>

BotTick == Tick /\ UNCHANGED botVars

LoginStep == LoginAsked \/ LoginSigned \/ LoginAnswered \/ LoginFailed

BotNext ==
    \/ \E c \in Request :
          \/ StartCall(c) \/ GetToken(c) \/ Invoke(c) \/ ForceLogin(c) \/ ReturnFailure(c)
    \/ RefreshToken
    \/ LoginStep
    \/ RotateSecret
    \/ \E active \in BOOLEAN : SetBotActive(active)
    \/ RestartBot
    \/ BotTick

BotSpec == BotInit /\ EnvInit /\ [][BotNext]_<<botVars, env>>

\* The refresher's ticker goes on, and each login request has a deadline.
BotFairSpec ==
    BotSpec /\ WF_<<botVars, env>>(RefreshToken) /\ WF_<<botVars, env>>(LoginStep)

-------------------------------------------------------------------------------

\* Every variable has its type; the lock is held by a goroutine that is logging in.
BotTypeOK ==
    /\ botActive \in BOOLEAN
    /\ key \in Nat
    /\ cached \in Session \union {Nil}
    /\ \/ login = NoLogin
       \/ /\ login.by \in Goroutine
          /\ login.since \in Nat
          /\ \/ login.step \in {"ask", "sign"} /\ login.answer = Nil
             \/ login.step = "answer" /\ login.answer \in Session
    /\ login.by \in Request => rpc[login.by].pc \in {"token", "relogin"}
    /\ rpc \in [Request -> [pc : {"idle", "token", "send", "relogin", "failed"},
                            try : {1, 2}, token : Session \union {Nil}, at : Nat]]
    /\ \A c \in Request : rpc[c].pc = "send" <=> rpc[c].token # Nil
    /\ \A c \in Request : rpc[c].pc = "relogin" => rpc[c].try = 1
    /\ excused \subseteq Request

\* "Forces a fresh login and retries": one retry is enough. A call is refused for
\* good only if a login of its own failed, the account was not active all along,
\* the secret changed once more after the login before its second try, or the second
\* token was used later than the margin it is handed out with. Two calls that are
\* refused at once, and the refresher between them, do not undo each other's login.
RetrySuffices == \A c \in Request : rpc[c].pc = "failed" => c \in excused

SignedIn == cached # Nil /\ cached.secret = key /\ now < cached.exp

\* After any rotation of the secret, restart, or failed login, and with no call made at
\* all, the bot comes to hold a token the server takes, if its account stays active.
SignsInAgain == <>[]botActive => []<>SignedIn

===============================================================================
