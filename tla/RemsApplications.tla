--------------------------- MODULE RemsApplications ---------------------------
(***************************************************************************)
(* One application for access to a dataset: how Metax takes it through     *)
(* REMS for the applicant and for the handlers, one call after another,    *)
(* and which mails it sends. The application itself is in REMS; what REMS  *)
(* does is as in the mock that the tests of the repository use.            *)
(*                                                                         *)
(* A request stops at the first call that REMS refuses.                    *)
(***************************************************************************)
EXTENDS Rems, Naturals, FiniteSets

CONSTANTS Session,       \* requests of the applicant that run at a time
          Handler,       \* handlers of the workflow, the REMS owner among them
          License,       \* licenses of the resource
          MaxSubmits     \* bound on submissions

VARIABLES
    item,    \* what is applied for, the same throughout
    app,     \* the application
    pc,      \* what a request does next
    input,   \* what was sent with it
    events,  \* how often REMS has recorded an event
    mails    \* how often mails about an event were sent

vars == << item, app, pc, input, events, mails >>

ASSUME ApplicantsAreNoHandlers == Session \cap Handler = {}
ASSUME HandlersAreFinite == IsFiniteSet(Handler)

Actor == Session \cup Handler
State == {"draft", "submitted", "approved", "rejected", "returned", "closed"}

\* Whether the workflow has the bot that approves, whether there is a form with a
\* required field, and whether the dataset has instructions for reviewers.
CatalogueItem == [automatic: BOOLEAN, form: BOOLEAN, instructions: BOOLEAN]

Application == [state: State, accepted: SUBSET License, filled: BOOLEAN, access: BOOLEAN]

ASSUME NoneIsNoApplication == None \notin Application

Decision == {"approved", "rejected", "returned", "closed"}
\* What an applicant sends.
Body == [licenses: SUBSET License, fields: {"none", "some", "all"}]
Event == Decision \cup {"submitted"}

TypeOK ==
    /\ item \in CatalogueItem
    /\ app \in Application \cup {None}
    /\ pc \in [Actor -> {"idle", "fields", "licenses", "submit", "remark", "mail submitted",
                         "mail if approved", "command", "mail"}]
    /\ input \in [Actor -> Body \cup Decision]
    /\ \A s \in Session : input[s] \in Body
    /\ \A h \in Handler : input[h] \in Decision
    /\ events \in [Event -> Nat]
    /\ mails \in [Event -> Nat]

\* publish_dataset makes a form for items that handlers decide about.
Init ==
    /\ item \in {i \in CatalogueItem : i.form = ~i.automatic}
    /\ app = None
    /\ pc = [x \in Actor |-> "idle"]
    /\ input = [x \in Actor |-> IF x \in Session THEN [licenses |-> {}, fields |-> "none"]
                                ELSE "closed"]
    /\ events = [e \in Event |-> 0]
    /\ mails = [e \in Event |-> 0]

GoTo(x, place) == pc' = [pc EXCEPT ![x] = place]

At(x, place) == pc[x] = place

Record(e) == events' = [events EXCEPT ![e] = @ + 1]

\* Faulty variant of Mail: not sent when closed.
MailUnlessClosed(e) == mails' = [mails EXCEPT ![e] = @ + Cardinality({e} \ {"closed"})]

Mail(e) == mails' = [mails EXCEPT ![e] = @ + 1]

-----------------------------------------------------------------------------
(* Requests of the applicant. *)

\* The submission starts with the values of the form, if any are given.
FirstStep(fields) == IF fields = "none" THEN "licenses" ELSE "fields"

Begin(s) ==
    \E licenses \in SUBSET License, fields \in {"none", "some", "all"} :
        /\ input' = [input EXCEPT ![s] = [licenses |-> licenses, fields |-> fields]]
        /\ GoTo(s, FirstStep(fields))

\* A new application is a draft, and is submitted by the same request.
CreateApplication(s) ==
    /\ At(s, "idle")
    /\ app = None
    /\ app' = [state |-> "draft", accepted |-> {}, filled |-> FALSE, access |-> FALSE]
    /\ Begin(s)
    /\ UNCHANGED << item, events, mails >>

SubmitApplication(s) ==
    /\ At(s, "idle")
    /\ app # None
    /\ events["submitted"] < MaxSubmits
    /\ Begin(s)
    /\ UNCHANGED << item, app, events, mails >>

Refused(x) == GoTo(x, "idle") /\ UNCHANGED app

\* submit_field_values: all required fields of the form have to be given.
SaveFields(s) ==
    /\ At(s, "fields")
    /\ IF item.form /\ input[s].fields = "all" /\ app.state = "draft"
       THEN app' = [app EXCEPT !.filled = TRUE] /\ GoTo(s, "licenses")
       ELSE Refused(s)
    /\ UNCHANGED << item, input, events, mails >>

IsWritable == app.state \in {"draft", "returned"}

AcceptLicenses(s) ==
    /\ At(s, "licenses")
    /\ IF input[s].licenses = License /\ IsWritable
       THEN app' = [app EXCEPT !.accepted = License] /\ GoTo(s, "submit")
       ELSE Refused(s)
    /\ UNCHANGED << item, input, events, mails >>

\* Faulty variant of IsComplete: the form is not looked at.
LicensesAccepted == app.accepted = License

IsComplete == app.accepted = License /\ (item.form => app.filled)

\* The bot approves at once.
PostSubmit(s) ==
    /\ At(s, "submit")
    /\ IF IsWritable /\ IsComplete
       THEN /\ app' = [app EXCEPT !.state = IF item.automatic THEN "approved" ELSE "submitted",
                                  !.access = item.automatic]
            /\ events' = [e \in Event |->
                             events[e] + Cardinality({e} \cap ({"submitted"} \cup
                                             (IF item.automatic THEN {"approved"} ELSE {})))]
            /\ GoTo(s, IF item.instructions THEN "remark" ELSE "mail submitted")
       ELSE Refused(s) /\ UNCHANGED events
    /\ UNCHANGED << item, input, mails >>

\* The REMS owner adds the instructions; REMS may have closed or rejected the
\* application by then and refuse.
Remark(s) ==
    /\ At(s, "remark")
    /\ IF app.state \in {"submitted", "approved", "returned"}
       THEN GoTo(s, "mail submitted") /\ UNCHANGED app
       ELSE Refused(s)
    /\ UNCHANGED << item, input, events, mails >>

MailSubmitted(s) ==
    /\ At(s, "mail submitted")
    /\ Mail("submitted")
    /\ GoTo(s, "mail if approved")
    /\ UNCHANGED << item, app, input, events >>

MailIfApproved(s) ==
    /\ At(s, "mail if approved")
    /\ IF app.state = "approved" THEN Mail("approved") ELSE UNCHANGED mails
    /\ GoTo(s, "idle")
    /\ UNCHANGED << item, app, input, events >>

-----------------------------------------------------------------------------
(* Requests of handlers. *)

\* get_user_application: a handler does not see drafts.
ReadApplication(h) ==
    /\ At(h, "idle")
    /\ app # None
    /\ app.state # "draft"
    /\ \E c \in Decision : input' = [input EXCEPT ![h] = c]
    /\ GoTo(h, "command")
    /\ UNCHANGED << item, app, events, mails >>

\* Faulty variant of IsAllowed: the state is that of when the handler looked.
IsAllowedWhenRead(c) == c # "closed" \/ app.state # "closed"

IsAllowed(c) ==
    IF c = "closed" THEN app.state \in {"submitted", "approved", "returned"}
    ELSE app.state = "submitted"

\* An approval gives access, the end of the application takes it away.
Decided(c) == [app EXCEPT !.state = c, !.access = c = "approved"]

PostCommand(h) ==
    /\ At(h, "command")
    /\ IF IsAllowed(input[h])
       THEN app' = Decided(input[h]) /\ Record(input[h]) /\ GoTo(h, "mail")
       ELSE Refused(h) /\ UNCHANGED events
    /\ UNCHANGED << item, input, mails >>

MailDecision(h) ==
    /\ At(h, "mail")
    /\ Mail(input[h])
    /\ GoTo(h, "idle")
    /\ UNCHANGED << item, app, input, events >>

-----------------------------------------------------------------------------

Next ==
    \/ \E s \in Session :
          \/ CreateApplication(s) \/ SubmitApplication(s)
          \/ SaveFields(s) \/ AcceptLicenses(s) \/ PostSubmit(s) \/ Remark(s)
          \/ MailSubmitted(s) \/ MailIfApproved(s)
    \/ \E h \in Handler : ReadApplication(h) \/ PostCommand(h) \/ MailDecision(h)

Spec == Init /\ [][Next]_vars

-----------------------------------------------------------------------------
(* Properties. *)

\* Access is what an approved application gives and nothing else, and only to
\* someone who has accepted all licenses and filled in the form.
AccessIsApproved ==
    app # None =>
        /\ app.access = (app.state = "approved")
        /\ app.access => app.accepted = License /\ (item.form => app.filled)

\* A decision stays though another handler decided from an earlier look: an
\* approval can only be closed, and what is rejected or closed stays so.
DecisionsStay ==
    [][/\ app # None /\ app'.state # app.state
       => /\ app.state = "approved" => app'.state = "closed"
          /\ app.state \notin {"rejected", "closed"}]_vars

AllIdle == \A x \in Actor : At(x, "idle")

\* When nothing is going on, the applicant has been told of each decision of a
\* handler. (One of the bot is not mailed if a handler closes it at once.)
DecisionsAreMailed ==
    AllIdle => \A d \in Decision : mails[d] >= events[d] \/ (item.automatic /\ d = "approved")
=============================================================================
