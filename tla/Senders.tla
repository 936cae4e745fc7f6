-------------------------------- MODULE Senders -------------------------------
(***************************************************************************)
(* Sending one message to WhatsApp through the providers.  The dynamic     *)
(* sender picks Zernio or Meta by the settings; the Zernio sender resolves *)
(* the account and the conversation through caches that all sends share,   *)
(* posts, tries again when the account or the conversation is not found,   *)
(* and otherwise hands the message to the Meta sender.  The bot sends a    *)
(* text when a list with options fails.  A request may be carried out and  *)
(* its answer lost.                                                        *)
(***************************************************************************)
EXTENDS Naturals

CONSTANT Sends   \* sends to one customer, at the same time

VARIABLES
    post,       \* per send: [at, kind, account, direct, second], see NoPost
    resolved,   \* resolvedAccountId, shared
    lastInput,  \* lastInputAccountId, shared
    cachedConv, \* conversationIdCache knows the conversation of the customer
    configured, \* the account of the settings
    live,       \* external: the account that exists at Zernio
    inbox,      \* external: the conversation exists at Zernio
    copies,     \* external: how often the customer got the message
    unclear     \* history: per send, a request was carried out and answered with an error

snVars == <<post, resolved, lastInput, cachedConv, configured, live, inbox, copies, unclear>>

Kinds == {"text", "list", "media", "template"}
Accounts == {"old", "new"}
\* `direct': the post goes to the conversation; `second': the text after a list.
NoPost == [at |-> "idle", kind |-> "text", account |-> "none", direct |-> FALSE, second |-> FALSE]
At(s, step) == post[s].at = step
Goto(s, step) == post' = [post EXCEPT ![s].at = step]
Caches == <<resolved, lastInput, cachedConv>>
World == <<configured, live, inbox>>

SendersInit ==
    /\ post \in [Sends -> {[NoPost EXCEPT !.kind = k] : k \in Kinds}]
    /\ resolved = "old" /\ lastInput = "old"   \* ZERNIO_ACCOUNT_ID
    /\ configured = "old" /\ live = "old" /\ inbox \in BOOLEAN /\ cachedConv \in BOOLEAN
    /\ copies = [s \in Sends |-> 0] /\ unclear = [s \in Sends |-> FALSE]

-----------------------------------------------------------------------------
(* Requests: `ok' delivers; an error may have delivered as well *)

Delivers(s) == copies' = [copies EXCEPT ![s] = @ + 1] /\ UNCHANGED unclear
Fails(s) == \/ UNCHANGED <<copies, unclear>>
            \/ /\ copies' = [copies EXCEPT ![s] = @ + 1]
               /\ unclear' = [unclear EXCEPT ![s] = TRUE]

\* What sendText throws, the bot answers with a plain text if it was a list.
AfterThrow(s) ==
    IF post[s].kind = "list" /\ ~post[s].second
    THEN [NoPost EXCEPT !.kind = "list", !.second = TRUE]
    ELSE [post[s] EXCEPT !.at = "thrown"]
Throws(s) == post' = [post EXCEPT ![s] = AfterThrow(s)]

-----------------------------------------------------------------------------
(* DynamicWhatsAppSender and ZernioSenderHttp *)

\* Meta has messages with a list of options; a file is uploaded there first.
AtMeta(s) == CASE post[s].kind = "media" -> "metaUpload"
               [] post[s].kind = "list" /\ ~post[s].second -> "metaList"
               [] OTHER -> "meta"

\* The provider of the settings, or Meta when they cannot be read.
GetSender(s) ==
    /\ At(s, "idle")
    /\ \/ Goto(s, IF post[s].kind = "media" THEN "upload" ELSE "account")
       \/ Goto(s, AtMeta(s))
    /\ UNCHANGED <<Caches, World, copies, unclear>>

\* uploadMediaToZernio: direct, presigned, multipart; if none works, Meta.
UploadMedia(s) ==
    /\ At(s, "upload") /\ (Goto(s, "account") \/ Goto(s, "metaUpload"))
    /\ UNCHANGED <<Caches, World, copies, unclear>>

AfterAccount(s) == IF post[s].kind = "template" THEN "request" ELSE "conversation"

\* getAccountId: the resolved account as long as the settings have the id it was
\* resolved from.
GetAccountId(s) ==
    /\ At(s, "account")
    /\ IF lastInput = configured
       THEN /\ post' = [post EXCEPT ![s].at = AfterAccount(s), ![s].account = resolved]
            /\ UNCHANGED lastInput
       ELSE Goto(s, "lookup") /\ lastInput' = configured
    /\ UNCHANGED <<resolved, cachedConv, World, copies, unclear>>

\* GET /accounts; a failure is thrown, and the id it was for stays noted.
LookUpAccount(s, step, next) ==
    /\ At(s, step)
    /\ \/ /\ resolved' = live
          /\ post' = [post EXCEPT ![s].at = next, ![s].account = live]
       \/ Throws(s) /\ UNCHANGED resolved
    /\ UNCHANGED <<lastInput, cachedConv, World, copies, unclear>>
Lookup(s) == LookUpAccount(s, "lookup", AfterAccount(s))
RefreshAccount(s) == LookUpAccount(s, "refresh", "repost")

\* resolveConversationId: the cache, or the list of conversations (it may fail).
ResolveConversationId(s) ==
    /\ At(s, "conversation")
    /\ cachedConv' \in {cachedConv, cachedConv \/ inbox}
    /\ post' = [post EXCEPT ![s].at = "request", ![s].direct = cachedConv']
    /\ UNCHANGED <<resolved, lastInput, World, copies, unclear>>

\* An answer that accepts the message; it may name the conversation.
PostAccepted(s, names) ==
    /\ post[s].account = live /\ (post[s].direct => inbox)
    /\ Goto(s, "sent") /\ Delivers(s) /\ inbox' = TRUE
    /\ cachedConv' \in {cachedConv, cachedConv \/ (names /\ ~post[s].direct)}
\* Any other answer: to Meta, which gets a list as a text; a broken connection throws.
ToMeta(s) == Goto(s, IF post[s].kind = "media" THEN "metaUpload" ELSE "meta")
PostRefused(s) == (ToMeta(s) \/ Throws(s)) /\ Fails(s) /\ UNCHANGED <<cachedConv, inbox>>
AccountNotFound(s) ==
    post[s].account # live /\ Goto(s, "refresh") /\ UNCHANGED <<cachedConv, inbox, copies, unclear>>
ConversationNotFound(s) ==
    /\ post[s].direct /\ ~inbox /\ Goto(s, "reopen")
    /\ cachedConv' = FALSE /\ UNCHANGED <<inbox, copies, unclear>>
Posting(s, step) == At(s, step) /\ UNCHANGED <<resolved, lastInput, configured, live>>

\* The first POST, to the conversation if it is known and to the customer if not.
PostMessage(s) ==
    /\ Posting(s, "request")
    /\ PostAccepted(s, TRUE) \/ ConversationNotFound(s) \/ AccountNotFound(s) \/ PostRefused(s)

SendText(s) == post[s].kind = "text" /\ PostMessage(s)
SendMedia(s) == post[s].kind = "media" /\ PostMessage(s)
\* sendInteractiveButtons, sendInteractiveList: the options as lines of a text.
SendInteractive(s) == post[s].kind = "list" /\ PostMessage(s)
\* A template goes to the customer, and the conversation is not noted.
SendTemplate(s) ==
    /\ post[s].kind = "template" /\ Posting(s, "request")
    /\ PostAccepted(s, FALSE) \/ AccountNotFound(s) \/ PostRefused(s)

\* The second POST after a missing conversation goes to the customer.
Reopen(s) ==
    /\ Posting(s, "reopen")
    /\ \/ /\ post[s].account = live /\ Goto(s, "sent") /\ Delivers(s)
          /\ inbox' = TRUE /\ UNCHANGED cachedConv
       \/ PostRefused(s)

\* Mutant of Repost: an answer that accepts the message is taken for an error.
RepostBoth(s) ==
    /\ Posting(s, "repost") /\ UNCHANGED <<cachedConv, inbox>>
    /\ ToMeta(s) /\ (Delivers(s) \/ Fails(s))

\* The second POST after a missing account: the same, with the account found.
Repost(s) ==
    Posting(s, "repost") /\ (PostAccepted(s, post[s].kind # "template") \/ PostRefused(s))

-----------------------------------------------------------------------------
(* WhatsAppSenderHttp: an answer without an id is an error *)

CallMeta(s, step) ==
    /\ At(s, step) /\ UNCHANGED <<Caches, World>>
    /\ \/ Goto(s, "sent") /\ Delivers(s)
       \/ Throws(s) /\ Fails(s)

MetaText(s) == post[s].kind # "template" /\ CallMeta(s, "meta")
MetaTemplate(s) == post[s].kind = "template" /\ CallMeta(s, "meta")
MetaInteractive(s) == CallMeta(s, "metaList")
MetaUpload(s) ==
    /\ At(s, "metaUpload") /\ (Goto(s, "metaMedia") \/ Throws(s))
    /\ UNCHANGED <<Caches, World, copies, unclear>>
MetaMedia(s) == CallMeta(s, "metaMedia")

-----------------------------------------------------------------------------
(* Around it *)

Configure ==   \* an administrator changes the account of the settings
    /\ configured = "old" /\ configured' = "new"
    /\ UNCHANGED <<post, Caches, live, inbox, copies, unclear>>
Move ==        \* the account is replaced at Zernio
    /\ live = "old" /\ live' = "new"
    /\ UNCHANGED <<post, Caches, configured, inbox, copies, unclear>>
Drop ==        \* the conversation disappears from the inbox
    /\ inbox /\ inbox' = FALSE
    /\ UNCHANGED <<post, Caches, configured, live, copies, unclear>>

SendersNext ==
    \/ \E s \in Sends :
         \/ GetSender(s) \/ UploadMedia(s) \/ GetAccountId(s) \/ Lookup(s) \/ RefreshAccount(s)
         \/ ResolveConversationId(s) \/ SendText(s) \/ SendMedia(s)
         \/ SendInteractive(s) \/ SendTemplate(s) \/ Reopen(s) \/ Repost(s)
         \/ MetaText(s) \/ MetaTemplate(s) \/ MetaInteractive(s) \/ MetaUpload(s) \/ MetaMedia(s)
    \/ Configure \/ Move \/ Drop

SendersSpec == SendersInit /\ [][SendersNext]_snVars

-----------------------------------------------------------------------------
(* Properties *)

\* Types of the variables.
SendersTypeOK ==
    /\ \A s \in Sends : /\ post[s].kind \in Kinds /\ post[s].account \in Accounts \cup {"none"}
                        /\ copies[s] \in Nat
    /\ {resolved, lastInput, configured, live} \subseteq Accounts

\* Through every retry and fallback the caller learns what happened: one copy of a
\* message that was sent, none of one that was not, unless a request that WhatsApp
\* carried out was answered with an error.
OneCopy ==
    \A s \in Sends : ~unclear[s] => copies[s] = (IF At(s, "sent") THEN 1 ELSE 0)
=============================================================================
