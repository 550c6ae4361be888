--------------------------- MODULE CampaignContent ---------------------------
(***************************************************************************)
(* What a campaign mails: the templates of the organization, the one the   *)
(* campaign names, and the copy of its content made for the recipients.    *)
(* It composes the life of the campaign with the requests on templates:    *)
(* each operation of CampaignLifecycle is joined with what it does to the  *)
(* content, and the requests on templates come in between.                 *)
(*                                                                         *)
(* It is meant for serial requests, Overlap = FALSE: what overlapping ones *)
(* do to each other's templates is in the README.                          *)
(***************************************************************************)
EXTENDS CampaignLifecycle

CONSTANTS
    Tmpls,          \* rows of the templates table
    NoTemplate,     \* the campaign names no template
    MaxTexts        \* bound: texts written into templates

ASSUME ContentAssumption ==
    /\ NoTemplate \notin Tmpls
    /\ MaxTexts \in Nat \ {0}

VARIABLES
    regular,    \* whether the campaign names its template itself; else a step or variant does
    tmpl,       \* the templates
    chosen,     \* the template the campaign names
    copy,       \* the content copied for the recipients
    texts,      \* texts written so far
    letters     \* contents the campaign mailed since its launch was committed

contentVars == <<regular, tmpl, chosen, copy, texts, letters>>
contentAllVars == <<lifeVars, contentVars>>

\* A template; its text is numbered.
Template == [status : {"none", "draft", "published", "archived", "deleted"},
             text : 0..MaxTexts]
NoRow == [status |-> "none", text |-> 0]

\* Text copied or mailed, and the template it is of.
Content == [of : Tmpls \cup {NoTemplate}, text : 0..MaxTexts]
NoCopy == [of |-> NoTemplate, text |-> 0]

ContentTypeOK ==
    /\ regular \in BOOLEAN
    /\ tmpl \in [Tmpls -> Template]
    /\ chosen \in Tmpls \cup {NoTemplate}
    /\ copy \in Content
    /\ texts \in 0..MaxTexts
    /\ letters \subseteq Content

ContentInit ==
    /\ LifeInit
    /\ regular \in BOOLEAN
    /\ tmpl = [x \in Tmpls |-> NoRow]
    /\ chosen = NoTemplate
    /\ copy = NoCopy
    /\ texts = 0
    /\ letters = {}

-----------------------------------------------------------------------------
(* The campaign's side. *)

Live(x) == x \in Tmpls /\ tmpl[x].status \in {"draft", "published", "archived"}

\* review_campaign wants a template named.  The campaign's own must exist and not be
\* archived; the one of a step or variant is passed over when it was deleted.
Usable(x) ==
    /\ x \in Tmpls
    /\ tmpl[x].status # "archived"
    /\ regular => Live(x)

\* Operations that review the campaign they have read.
Reviews(op) ==
    \/ op \in {"review", "schedule", "launch", "resume"}
    \/ op = "process" /\ campaign.status = "scheduled"

BeginOperation(t, op, l) ==
    /\ Begin(t, op, l)
    /\ Reviews(op) => Usable(chosen)
    /\ UNCHANGED contentVars

\* The content of the chosen template, as it is copied for the recipients.
Current == [of |-> chosen, text |-> tmpl[chosen].text]

\* An edit of the campaign, its steps or its variants names any template that is left.
\* Deleted recipients take their copies along; a snapshot copies the content again, and
\* fails without a template.
CommitContent(t) ==
    /\ CommitRequest(t)
    /\ Snapshots(job[t].op, job[t].seen) => Live(chosen)
    /\ IF job[t].op = "edit"
       THEN \E x \in {y \in Tmpls : Live(y)} \cup {NoTemplate, chosen} : chosen' = x
       ELSE UNCHANGED chosen
    /\ copy' = IF Snapshots(job[t].op, job[t].seen) THEN Current
               ELSE IF Deletes(job[t].op) THEN NoCopy ELSE copy
    /\ UNCHANGED <<regular, tmpl, texts, letters>>

\* Mutant: the mail is made from the template, not from the copy.
LetterOfTemplate == Current

\* What a recipient gets: subject and body of the copy, although the send has looked the
\* template up.
Letter == copy

\* Mails of a batch: every send looks the template up although the copy is mailed.  Those
\* of a launch that is rolled back are excepted, the campaign may be edited afterwards.
MailLetters ==
    /\ mailed' # mailed => Live(chosen)
    /\ letters' = IF mailed' # mailed /\ campaign'.launched THEN letters \cup {Letter}
                  ELSE letters
    /\ UNCHANGED <<regular, tmpl, chosen, copy, texts>>

CommitMails(t) == CommitBatch(t) /\ MailLetters
LoseMails(t) == LoseBatch(t) /\ MailLetters

CommitOperation(t) ==
    \/ CommitContent(t)
    \/ CommitMails(t)
    \/ LoseMails(t)
    \/ (CommitCancel(t) \/ Abandon(t)) /\ UNCHANGED contentVars

ContactsChange(l, p) == ChangeList(l, p) /\ UNCHANGED contentVars

-----------------------------------------------------------------------------
(* Requests on templates. *)

\* Mutant: nothing counts as use.
NeverUsed(x) == FALSE

\* count_campaign_usages: an unfinished campaign names the template.
Used(x) ==
    /\ chosen = x
    /\ ~campaign.deleted
    /\ campaign.status \notin {"completed", "cancelled", "failed", "archived"}

\* A request on template x while no other request is being served.
Request(x, row) ==
    /\ \A t \in Txns : job[t].op = "idle"
    /\ tmpl' = [tmpl EXCEPT ![x] = row]
    /\ UNCHANGED <<lifeVars, regular, chosen, copy, letters>>

\* A new text.
Write(x) ==
    /\ texts < MaxTexts
    /\ texts' = texts + 1
    /\ Request(x, [status |-> "draft", text |-> texts + 1])

\* create_custom_template, also for the copy of a system template.
CreateTemplate(x) == tmpl[x].status = "none" /\ Write(x)

\* update_custom_template.
EditTemplate(x) == tmpl[x].status = "draft" /\ Write(x)

\* The duplicate is a draft with the same content.
DuplicateTemplate(x, y) ==
    /\ Live(x)
    /\ tmpl[y].status = "none"
    /\ Request(y, [tmpl[x] EXCEPT !.status = "draft"])
    /\ UNCHANGED texts

SetStatus(x, s) == Request(x, [tmpl[x] EXCEPT !.status = s]) /\ UNCHANGED texts

\* An archived template may be published again.
PublishTemplate(x) == Live(x) /\ tmpl[x].status # "published" /\ SetStatus(x, "published")

ArchiveTemplate(x) == tmpl[x].status = "published" /\ ~Used(x) /\ SetStatus(x, "archived")

RestoreTemplate(x) == tmpl[x].status = "archived" /\ SetStatus(x, "draft")

DeleteTemplate(x) == Live(x) /\ ~Used(x) /\ SetStatus(x, "deleted")

-----------------------------------------------------------------------------
ContentNext ==
    \/ \E t \in Txns, op \in Ops, l \in Lists : BeginOperation(t, op, l)
    \/ \E t \in Txns : CommitOperation(t)
    \/ \E l \in Lists, p \in People : ContactsChange(l, p)
    \/ \E x \in Tmpls : CreateTemplate(x) \/ EditTemplate(x) \/ PublishTemplate(x)
                        \/ ArchiveTemplate(x) \/ RestoreTemplate(x) \/ DeleteTemplate(x)
    \/ \E x, y \in Tmpls : DuplicateTemplate(x, y)

ContentSpec == ContentInit /\ [][ContentNext]_contentAllVars

-----------------------------------------------------------------------------
(* Properties. *)

\* A scheduled, running or paused campaign has a template that is not archived, and that
\* still exists if it is the campaign's own: what an archived campaign gave up while its
\* template was archived or deleted is reviewed again before it goes on, and the use of the
\* template keeps it from then on.  A step may have lost its template that way, see the README.
LaunchedKeepsTemplate ==
    campaign.status \in {"scheduled", "running", "paused"} /\ ~campaign.deleted
        => Usable(chosen)

\* All mails of a campaign since its launch was committed carry one text, of the template it
\* names, whatever is edited, published or chosen after its recipients were copied, whatever
\* was rolled back and retried.  Preheaders and sender's names are excepted, see the README.
OneText ==
    \A a \in letters : a.of = chosen /\ \A b \in letters : a.text = b.text
=============================================================================
