-------------------------------- MODULE Sharing --------------------------------
(***************************************************************************)
(* Who is shown a SEV (internal/api/grpc: share.go, share_view.go,         *)
(* visibility.go, sev_access.go, announcement.go; internal/share): public  *)
(* links, grants on a Sensitive SEV, and the announcements that are shown. *)
(*                                                                         *)
(* One SEV. A link is its token, the set of its claims: two signed in the  *)
(* same second with the same lifetime are one. Every handler checks the    *)
(* SEV it has read and shows what it reads next, and the flag, the grants  *)
(* and the links may change in between.                                    *)
(***************************************************************************)
EXTENDS Environment, Sequences

CONSTANTS
    Viewer,         \* users without a role that sees every SEV
    Trusted,        \* Admins and Incident Commanders
    Lifetimes,      \* expires_in_days asked for
    Audience,       \* audiences of announcements, one of them "external"
    MaxPosts,       \* bound: announcements ever made
    MaxShareKeys    \* bound: changes of JWT_SECRET

ASSUME SharingAssumption ==
    /\ {Nil, "subscribers"} \intersect (Viewer \union Trusted) = {} /\ Nil # "subscribers"
    /\ Viewer \intersect Trusted = {}
    /\ Lifetimes \subseteq Nat /\ "external" \in Audience
    /\ MaxPosts \in Nat /\ MaxShareKeys \in Nat

ShareToken == [signed : Nat, exp : Nat, key : Nat]

PostId == 1 .. MaxPosts

VARIABLES
    sensitive,  \* sevs.sensitive
    shareKey,   \* JWT_SECRET
    links,      \* shareable_links: the tokens stored
    revoked,    \* those whose row is revoked
    grants,     \* sev_access: who was granted access
    posts,      \* announcements, and their audience
    visit,      \* visit[r]: where handler invocation r stands
    withdrawn   \* history variable: tokens that were ever revoked

shareVars == <<sensitive, shareKey, links, revoked, grants, posts, visit, withdrawn>>

NoVisit == [pc |-> "idle"]

ShareInit ==
    /\ sensitive \in BOOLEAN
    /\ shareKey = 0
    /\ links = {}
    /\ revoked = {}
    /\ grants = {}
    /\ posts = <<>>
    /\ visit = [r \in Request |-> NoVisit]
    /\ withdrawn = {}

Free(r) == visit[r] = NoVisit

-------------------------------------------------------------------------------
(***************************************************************************)
(* may is a history field of a call that shows something: at some moment   *)
(* since it began, its caller was to be shown the SEV.                     *)
(***************************************************************************)

\* Whether u may see the SEV: a user, "subscribers" to events, or Nil for the public.
MaySee(u, flag, granted) == ~flag \/ u \in Trusted \/ u \in granted

\* What the calls may show after the flag and the grants have changed.
Reconsidered(flag, granted) ==
    [r \in Request |->
        IF visit[r].pc \in {"view", "access", "list", "post"}
        THEN [visit[r] EXCEPT !.may = @ \/ MaySee(visit[r].who, flag, granted)]
        ELSE visit[r]]

\* UpdateSEV.
SetSensitive(flag) ==
    /\ sensitive # flag
    /\ sensitive' = flag
    /\ visit' = Reconsidered(flag, grants)
    /\ UNCHANGED <<shareKey, links, revoked, grants, posts, withdrawn, env>>

GrantAccess(u) ==
    /\ u \notin grants
    /\ grants' = grants \union {u}
    /\ visit' = Reconsidered(sensitive, grants')
    /\ UNCHANGED <<sensitive, shareKey, links, revoked, posts, withdrawn, env>>

RevokeAccess(u) ==
    /\ u \in grants
    /\ grants' = grants \ {u}
    /\ UNCHANGED <<sensitive, shareKey, links, revoked, posts, visit, withdrawn, env>>

-------------------------------------------------------------------------------
(***************************************************************************)
(* CreateShareLink, RevokeShareLink.                                       *)
(***************************************************************************)
ReadForLink(r, days) ==
    /\ Free(r)
    /\ ~sensitive
    /\ visit' = [visit EXCEPT ![r] = [pc |-> "sign", days |-> days]]
    /\ UNCHANGED <<sensitive, shareKey, links, revoked, grants, posts, withdrawn, env>>

SignLink(r) ==
    /\ visit[r].pc = "sign"
    /\ visit' = [visit EXCEPT ![r] =
                   [pc |-> "store",
                    token |-> [signed |-> now, exp |-> now + @.days, key |-> shareKey]]]
    /\ UNCHANGED <<sensitive, shareKey, links, revoked, grants, posts, withdrawn, env>>

\* Mutant: a row with the same token is replaced.
Replaced(t) == /\ links' = links \union {t}
               /\ revoked' = revoked \ {t}

\* Create: a token that is stored already is a conflict.
Inserted(t) == /\ t \notin links
               /\ links' = links \union {t}
               /\ UNCHANGED revoked

StoreLink(r) ==
    /\ visit[r].pc = "store"
    /\ Inserted(visit[r].token)
    /\ visit' = [visit EXCEPT ![r] = NoVisit]
    /\ UNCHANGED <<sensitive, shareKey, grants, posts, withdrawn, env>>

RevokeShareLink(t) ==
    /\ t \notin revoked
    /\ revoked' = revoked \union {t}
    /\ withdrawn' = withdrawn \union {t}
    /\ UNCHANGED <<sensitive, shareKey, links, grants, posts, visit, env>>

-------------------------------------------------------------------------------
(***************************************************************************)
(* ShareViewHandler: the link's row, its signature and expiry; then the    *)
(* SEV; then its external announcements.                                   *)
(***************************************************************************)
ServeHTTP(r, t) ==
    /\ Free(r)
    /\ t \notin revoked
    /\ now < t.exp
    /\ t.key = shareKey
    /\ visit' = [visit EXCEPT ![r] = [pc |-> "view", who |-> Nil, may |-> ~sensitive,
                                      token |-> t, late |-> t \in withdrawn]]
    /\ UNCHANGED <<sensitive, shareKey, links, revoked, grants, posts, withdrawn, env>>

\* What a call goes on to once it may list the announcements.
Listing(call) == [pc |-> "list", who |-> call.who, may |-> call.may,
                  token |-> call.token, late |-> call.late]

\* Mutant: the flag is left to CreateShareLink.
ViewUnchecked(r) ==
    /\ visit[r].pc = "view"
    /\ visit' = [visit EXCEPT ![r] = Listing(@)]
    /\ UNCHANGED <<sensitive, shareKey, links, revoked, grants, posts, withdrawn, env>>

ViewSEV(r) ==
    /\ visit[r].pc = "view"
    /\ visit' = [visit EXCEPT ![r] = IF sensitive THEN NoVisit ELSE Listing(@)]
    /\ UNCHANGED <<sensitive, shareKey, links, revoked, grants, posts, withdrawn, env>>

-------------------------------------------------------------------------------
(***************************************************************************)
(* ListAnnouncements, and every list that begins with loadVisibleSEV.      *)
(***************************************************************************)
LoadVisibleSEV(r, u) ==
    LET call == [pc |-> "access", who |-> u, may |-> MaySee(u, sensitive, grants),
                 token |-> Nil, late |-> FALSE]
    IN
    /\ Free(r)
    /\ visit' = [visit EXCEPT ![r] = IF ~sensitive \/ u \in Trusted THEN Listing(call)
                                     ELSE call]
    /\ UNCHANGED <<sensitive, shareKey, links, revoked, grants, posts, withdrawn, env>>

HasAccess(r) ==
    /\ visit[r].pc = "access"
    /\ visit' = [visit EXCEPT ![r] = IF @.who \in grants THEN Listing(@) ELSE NoVisit]
    /\ UNCHANGED <<sensitive, shareKey, links, revoked, grants, posts, withdrawn, env>>

\* Nil asks for the external ones only.
PostsFor(u) == {k \in DOMAIN posts : u = Nil => posts[k] = "external"}

ListPosts(r) ==
    /\ visit[r].pc = "list"
    /\ visit' = [visit EXCEPT ![r] = [pc |-> "show", who |-> @.who, may |-> @.may,
                                      late |-> @.late, shown |-> PostsFor(@.who)]]
    /\ UNCHANGED <<sensitive, shareKey, links, revoked, grants, posts, withdrawn, env>>

-------------------------------------------------------------------------------
(***************************************************************************)
(* CreateAnnouncement: what the SEV's flag was decides whether the stored  *)
(* announcement is also published to everybody.                            *)
(***************************************************************************)
ReadForPost(r, audience) ==
    /\ Free(r)
    /\ visit' = [visit EXCEPT ![r] = [pc |-> "post", who |-> "subscribers", may |-> ~sensitive,
                                      audience |-> audience, publish |-> ~sensitive]]
    /\ UNCHANGED <<sensitive, shareKey, links, revoked, grants, posts, withdrawn, env>>

CreatePost(r) ==
    /\ visit[r].pc = "post"
    /\ Len(posts) < MaxPosts
    /\ posts' = Append(posts, visit[r].audience)
    /\ visit' = [visit EXCEPT ![r] =
                   IF @.publish
                   THEN [pc |-> "show", who |-> @.who, may |-> @.may, late |-> FALSE,
                         shown |-> {Len(posts')}]
                   ELSE NoVisit]
    /\ UNCHANGED <<sensitive, shareKey, links, revoked, grants, withdrawn, env>>

-------------------------------------------------------------------------------

\* The answer is sent, or the call has failed or was refused.
Leave(r) ==
    /\ ~Free(r)
    /\ visit' = [visit EXCEPT ![r] = NoVisit]
    /\ UNCHANGED <<sensitive, shareKey, links, revoked, grants, posts, withdrawn, env>>

\* The server restarts with another JWT_SECRET.
RotateShareKey ==
    /\ shareKey < MaxShareKeys
    /\ shareKey' = shareKey + 1
    /\ visit' = [r \in Request |-> NoVisit]
    /\ UNCHANGED <<sensitive, links, revoked, grants, posts, withdrawn, env>>

ShareTick == Tick /\ UNCHANGED shareVars

ShareNext ==
    \/ \E flag \in BOOLEAN : SetSensitive(flag)
    \/ \E u \in Viewer : GrantAccess(u) \/ RevokeAccess(u)
    \/ \E r \in Request, days \in Lifetimes : ReadForLink(r, days)
    \/ \E r \in Request :
          \/ SignLink(r) \/ StoreLink(r) \/ ViewSEV(r) \/ HasAccess(r)
          \/ ListPosts(r) \/ CreatePost(r) \/ Leave(r)
    \/ \E t \in links : RevokeShareLink(t) \/ \E r \in Request : ServeHTTP(r, t)
    \/ \E r \in Request, u \in Viewer \union Trusted : LoadVisibleSEV(r, u)
    \/ \E r \in Request, audience \in Audience : ReadForPost(r, audience)
    \/ RotateShareKey
    \/ ShareTick

ShareSpec == ShareInit /\ EnvInit /\ [][ShareNext]_<<shareVars, env>>

-------------------------------------------------------------------------------

Caller == Viewer \union Trusted \union {"subscribers", Nil}

Visit ==
    {NoVisit}
        \union [pc : {"sign"}, days : Lifetimes]
        \union [pc : {"store"}, token : ShareToken]
        \union [pc : {"view", "access", "list"}, who : Caller, may : BOOLEAN,
                token : ShareToken \union {Nil}, late : BOOLEAN]
        \union [pc : {"post"}, who : Caller, may : BOOLEAN, audience : Audience,
                publish : BOOLEAN]
        \union [pc : {"show"}, who : Caller, may : BOOLEAN, late : BOOLEAN,
                shown : SUBSET PostId]

\* Every variable has its type; only a stored link is revoked, and it stays revoked.
ShareTypeOK ==
    /\ sensitive \in BOOLEAN
    /\ shareKey \in Nat
    /\ links \subseteq ShareToken
    /\ revoked \subseteq links
    /\ grants \subseteq Viewer
    /\ posts \in Seq(Audience) /\ Len(posts) <= MaxPosts
    /\ visit \in [Request -> Visit]
    /\ withdrawn = revoked

\* Whoever is shown a SEV's announcements was to see it at some moment since the call
\* began: the SEV was not Sensitive, or the caller had a grant or the role, though the
\* flag and the grants change between the check and the list. A public link shows
\* nothing to a call that began after it was revoked, though the same token may be
\* signed again, and to the public only what is marked external.
DisclosedWithReason ==
    \A r \in Request : visit[r].pc = "show" =>
        /\ visit[r].may /\ ~visit[r].late
        /\ visit[r].who = Nil => \A k \in visit[r].shown : posts[k] = "external"

===============================================================================
