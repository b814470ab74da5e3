------------------------------ MODULE Socials -------------------------------
(***************************************************************************)
(* Socials: the platform owner's posts to X, Facebook, Instagram and       *)
(* LinkedIn (socials.service.js and the three integrations).  A post is a  *)
(* row at Supabase; X and LinkedIn attempts are kept in a log file, from   *)
(* which a post can be retried; the tokens of each connection are kept on  *)
(* disk.  The networks publish what they accept, and may do so although    *)
(* their answer is lost.                                                   *)
(*                                                                         *)
(* Media, captions and the networks' upload protocols are one step that    *)
(* may fail.  A log file is read and written without anything in between.  *)
(* Its limit of 200 entries is not reached.  Posts that are scheduled stay *)
(* scheduled: nothing here sends them.                                     *)
(***************************************************************************)
EXTENDS Requests

CONSTANTS
  Posts,
  Audiences    \* the sets of networks a post may be meant for

Networks == {"x", "facebook", "instagram", "linkedin"}
Logged == {"x", "linkedin"}

\* A post's id is no NULL, and neither is a token.
ASSUME SocialsAssumption ==
  /\ Audiences \subseteq SUBSET Networks
  /\ None \notin Posts \cup (Handlers \X (0..MaxRequests))

VARIABLES
  post,        \* rows at Supabase
  logs,        \* the log entry of each post at each logged network
  published,   \* external: how often each post is visible at each network
  connected,   \* the networks whose token is stored, X apart
  xToken,      \* the stored refresh token of X, and whether its access token lives
  xAccepts,    \* external: the refresh tokens X still accepts
  doubtful,    \* history: the attempts whose outcome the log could not tell
  stranded     \* history: a refreshed token was lost before it was stored, and none stored since

socialVars == <<post, logs, published, connected, xToken, xAccepts, doubtful, stranded>>
socials == <<socialVars, handlerVars>>

LogStatus == {"none", "pending", "failed", "success"}
NoLog == [status |-> "none", attempts |-> 0]
NewLog == [status |-> "pending", attempts |-> 1]

\* createPost serves the networks one after another, in this order.
Order == <<"x", "facebook", "instagram", "linkedin">>
FirstOf(todo) == Order[CHOOSE i \in 1..4 : Order[i] \in todo /\ \A j \in 1..(i-1) : Order[j] \notin todo]

SetLog(p, n, status) == logs' = [logs EXCEPT ![p][n].status = status]
FirstCall(n) ==
  IF n = "x" THEN "client" ELSE IF n = "facebook" THEN "publish" ELSE "upload"

-----------------------------------------------------------------------------
CreatePost(h) == \E p \in Posts, audience \in Audiences, now \in BOOLEAN :
  /\ post[p].status = "none"
  /\ post' = [post EXCEPT ![p] = [status |-> "scheduled", audience |-> audience]]
  /\ IF now THEN Begin(h, "next", [on |-> p, todo |-> audience, errors |-> FALSE, retry |-> FALSE])
     ELSE UNCHANGED handlerVars
  /\ UNCHANGED <<logs, published, connected, xToken, xAccepts, doubtful, stranded>>

\* On to the next network; at X and LinkedIn with a new log entry.
NextNetwork(h) == LET r == local[h]  n == FirstOf(r.todo) IN
  /\ pc[h] = "next" /\ r.todo # {}
  /\ IF n \in Logged
     THEN logs' = [logs EXCEPT ![r.on][n] = NewLog]
     ELSE UNCHANGED logs
  /\ Carry(h, FirstCall(n), [net |-> n])
  /\ UNCHANGED <<post, published, connected, xToken, xAccepts, doubtful, stranded>>

\* updatePostStatus, when every network was served.
UpdateStatus(h) == LET r == local[h] IN
  /\ pc[h] = "next" /\ r.todo = {}
  /\ post' = [post EXCEPT ![r.on].status =
       IF @ = "deleted" THEN @ ELSE IF r.errors THEN "failed" ELSE "sent"]
  /\ Answer(h)
  /\ UNCHANGED <<logs, published, connected, xToken, xAccepts, doubtful, stranded>>

DeletePost(p) ==
  /\ post[p].status \notin {"none", "deleted"}
  /\ post' = [post EXCEPT ![p].status = "deleted"]
  /\ UNCHANGED <<logs, published, connected, xToken, xAccepts, doubtful, stranded, handlerVars>>

\* Whatever the entry's status; the post's own status stays.
Retry(h, n) == \E p \in Posts :
  /\ logs[p][n].status # "none"
  /\ logs' = [logs EXCEPT ![p][n] = [status |-> "pending", attempts |-> @.attempts + 1]]
  /\ doubtful' = IF logs[p][n].status = "failed" THEN doubtful ELSE doubtful \cup {<<p, n>>}
  /\ Begin(h, FirstCall(n), [on |-> p, net |-> n, retry |-> TRUE])
  /\ UNCHANGED <<post, published, connected, xToken, xAccepts, stranded>>

RetryX(h) == Retry(h, "x")
RetryLinkedIn(h) == Retry(h, "linkedin")

-----------------------------------------------------------------------------
(* One attempt at one network.                                             *)

\* Its outcome goes to the log entry, if the network has one, and createPost
\* goes on to the next network.
Record(h, ok) == LET r == local[h] IN
  /\ IF r.net \in Logged THEN SetLog(r.on, r.net, IF ok THEN "success" ELSE "failed")
     ELSE UNCHANGED logs
  /\ IF r.retry THEN Answer(h)
     ELSE Carry(h, "next", [todo |-> r.todo \ {r.net}, errors |-> r.errors \/ ~ok])

\* getValidXClient: no token, a live one, or one to refresh.
XClient(h) ==
  /\ pc[h] = "client"
  /\ \/ xToken.refresh = None /\ Record(h, FALSE)
     \/ /\ xToken.refresh # None /\ xToken.fresh
        /\ Goto(h, "upload") /\ UNCHANGED logs
     \/ /\ xToken.refresh # None /\ ~xToken.fresh
        /\ Carry(h, "refresh", [token |-> xToken.refresh]) /\ UNCHANGED logs
  /\ UNCHANGED <<post, published, connected, xToken, xAccepts, doubtful, stranded>>

\* X takes a refresh token once and gives a new one for it.
XRefresh(h) == LET used == local[h].token IN
  /\ pc[h] = "refresh"
  /\ \/ /\ used \in xAccepts
        /\ xAccepts' = (xAccepts \ {used}) \cup {<<h, begun>>}
        /\ Carry(h, "save", [token |-> <<h, begun>>])
        /\ UNCHANGED logs
     \/ /\ used \notin xAccepts
        /\ Record(h, FALSE)
        /\ UNCHANGED xAccepts
  /\ UNCHANGED <<post, published, connected, xToken, doubtful, stranded>>

\* Mutant: only the access token is stored.
XSaveAccess(h) ==
  /\ pc[h] = "save"
  /\ xToken' = [xToken EXCEPT !.fresh = TRUE]
  /\ stranded' = FALSE
  /\ IF local[h].on = None THEN Answer(h) ELSE Goto(h, "upload")
  /\ UNCHANGED <<post, logs, published, connected, xAccepts, doubtful>>

\* saveTokens, for a refresh and for the callback of a new connection.
XSave(h) ==
  /\ pc[h] = "save"
  /\ xToken' = [refresh |-> local[h].token, fresh |-> TRUE]
  /\ stranded' = FALSE
  /\ IF local[h].on = None THEN Answer(h) ELSE Goto(h, "upload")
  /\ UNCHANGED <<post, logs, published, connected, xAccepts, doubtful>>

\* The access token is over, or nearly.
XExpire ==
  /\ xToken.fresh
  /\ xToken' = [xToken EXCEPT !.fresh = FALSE]
  /\ UNCHANGED <<post, logs, published, connected, xAccepts, doubtful, stranded, handlerVars>>

\* The owner comes back from X with a code, which is exchanged.
XCallback(h) ==
  /\ Begin(h, "save", [on |-> None, token |-> <<h, begun + 1>>])
  /\ xAccepts' = xAccepts \cup {<<h, begun + 1>>}
  /\ UNCHANGED <<post, logs, published, connected, xToken, doubtful, stranded>>

\* The callbacks of Meta and LinkedIn: the code is exchanged and the account
\* looked up.  A page may have no Instagram account, a LinkedIn profile may
\* not be readable; neither keeps the token from being stored.
ConnectMeta(h) ==
  /\ Begin(h, "saveMeta", [on |-> None])
  /\ UNCHANGED socialVars

ConnectLinkedIn(h) ==
  /\ Begin(h, "saveLinkedIn", [on |-> None])
  /\ UNCHANGED socialVars

Connect(h, lost, found) ==
  /\ connected' = (connected \ lost) \cup found
  /\ Answer(h)
  /\ UNCHANGED <<post, logs, published, xToken, xAccepts, doubtful, stranded>>

SaveMeta(h) == \E found \in {{"facebook"}, {"facebook", "instagram"}} :
  pc[h] = "saveMeta" /\ Connect(h, {"instagram"}, found)

SaveLinkedIn(h) == \E found \in {{}, {"linkedin"}} :
  pc[h] = "saveLinkedIn" /\ Connect(h, {"linkedin"}, found)

\* The media is fetched, uploaded and processed, or the attempt is over.
Upload(h, n) == \E ok \in BOOLEAN :
  /\ pc[h] = "upload" /\ local[h].net = n
  /\ IF ok THEN Goto(h, "publish") /\ UNCHANGED logs ELSE Record(h, FALSE)
  /\ UNCHANGED <<post, published, connected, xToken, xAccepts, doubtful, stranded>>

UploadX(h) == Upload(h, "x")
UploadInstagram(h) == "instagram" \in connected /\ Upload(h, "instagram")
UploadLinkedIn(h) == "linkedin" \in connected /\ Upload(h, "linkedin")

\* Without a connection the attempt is over as well.
Unconnected(h) ==
  /\ pc[h] \in {"upload", "publish"}
  /\ pc[h] = "publish" => local[h].net = "facebook"
  /\ local[h].net \notin connected \cup {"x"}
  /\ Record(h, FALSE)
  /\ UNCHANGED <<post, published, connected, xToken, xAccepts, doubtful, stranded>>

\* The network publishes and answers, refuses, or publishes unheard.
Publish(h, n) == LET r == local[h]  seen == [published EXCEPT ![r.on][n] = @ + 1] IN
  /\ pc[h] = "publish" /\ r.net = n
  /\ \/ published' = seen /\ Goto(h, "published") /\ UNCHANGED <<logs, doubtful>>
     \/ Record(h, FALSE) /\ UNCHANGED <<published, doubtful>>
     \/ published' = seen /\ doubtful' = doubtful \cup {<<r.on, n>>} /\ Record(h, FALSE)
  /\ UNCHANGED <<post, connected, xToken, xAccepts, stranded>>

PublishX(h) == Publish(h, "x")
PublishFacebook(h) == "facebook" \in connected /\ Publish(h, "facebook")
PublishInstagram(h) == Publish(h, "instagram")
PublishLinkedIn(h) == Publish(h, "linkedin")

\* Mutant: the answer is logged as a failure.
PublishedFailed(h) ==
  /\ pc[h] = "published"
  /\ Record(h, FALSE)
  /\ UNCHANGED <<post, published, connected, xToken, xAccepts, doubtful, stranded>>

Published(h) ==
  /\ pc[h] = "published"
  /\ Record(h, TRUE)
  /\ UNCHANGED <<post, published, connected, xToken, xAccepts, doubtful, stranded>>

\* The process ends, or X's answer to a refresh is lost.
SocialsFail(h) ==
  /\ pc[h] # "idle"
  /\ Answer(h)
  /\ stranded' = (stranded \/ (pc[h] = "save" /\ local[h].on # None))
  /\ UNCHANGED <<post, logs, published, connected, xToken, xAccepts, doubtful>>

-----------------------------------------------------------------------------
SocialsInit ==
  /\ post = [p \in Posts |-> [status |-> "none", audience |-> {}]]
  /\ logs = [p \in Posts |-> [n \in Logged |-> NoLog]]
  /\ published = [p \in Posts |-> [n \in Networks |-> 0]]
  /\ connected = {"facebook", "linkedin"}
  /\ \E t \in {None, <<>>} : xToken = [refresh |-> t, fresh |-> FALSE] /\ xAccepts = {t} \ {None}
  /\ doubtful = {}
  /\ stranded = FALSE

SocialsNext ==
  \/ XExpire
  \/ \E p \in Posts : DeletePost(p)
  \/ \E h \in Handlers :
       \/ CreatePost(h) \/ NextNetwork(h) \/ UpdateStatus(h)
       \/ RetryX(h) \/ RetryLinkedIn(h)
       \/ XClient(h) \/ XRefresh(h) \/ XSave(h) \/ XCallback(h)
       \/ ConnectMeta(h) \/ SaveMeta(h) \/ ConnectLinkedIn(h) \/ SaveLinkedIn(h)
       \/ Unconnected(h) \/ UploadX(h) \/ UploadInstagram(h) \/ UploadLinkedIn(h)
       \/ PublishX(h) \/ PublishFacebook(h) \/ PublishInstagram(h) \/ PublishLinkedIn(h)
       \/ Published(h) \/ SocialsFail(h)

SocialsSpec == SocialsInit /\ RequestsInit /\ [][SocialsNext]_socials

-----------------------------------------------------------------------------
\* No network shows a post twice, unless the post was retried although its log
\* entry did not say failed, or the network's answer was lost (executeXPostPipeline,
\* executeLinkedInPostPipeline and their retries).
PublishedOnce ==
  \A p \in Posts, n \in Networks : published[p][n] > 1 => <<p, n>> \in doubtful

\* X accepts the stored refresh token, except while a new one is on its way to
\* the store, and, once one was lost on that way, until the next is stored
\* (getValidXClient, handleXCallback).
XTokenWorks ==
  \/ xToken.refresh \in xAccepts \cup {None}
  \/ \E h \in Handlers : pc[h] = "save" /\ local[h].on # None
  \/ stranded

=============================================================================
