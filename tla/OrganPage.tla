----------------------------- MODULE OrganPage -----------------------------
(***************************************************************************)
(* The page Organ Yayasan (web/src/OrganMembershipPage.tsx): its list of   *)
(* members, the form that adds one, and the details of one member, where   *)
(* the membership is changed or ended.  One flag says that the page is     *)
(* busy; "Kelola" does not ask it, so several actions may be under way and *)
(* the first to end says that none is.  Other administrators change the    *)
(* same memberships.                                                       *)
(***************************************************************************)
EXTENDS Naturals

CONSTANTS
    Person,          \* people with an Akun SQ, or to be given one; who joins again is another
    OrganOnly,       \* those whose Akun SQ is made for the organ
    CanEndNew,       \* capabilities.endNewIdentity
    Action,          \* runs of the page that may be under way, numbered
    NoPerson

ASSUME OrganPageAssumption ==
    /\ OrganOnly \subseteq Person /\ NoPerson \notin Person
    /\ Action \subseteq Nat /\ CanEndNew \in BOOLEAN

VARIABLES
    memberOf,        \* person -> his membership at SQ Hub
    organPage,       \* what the page holds
    action           \* how far each run is

organPageVars == <<memberOf, organPage, action>>

\* The state of MembershipDetail as it is mounted.
NoDetail == [of |-> NoPerson, active |-> FALSE, preview |-> NoPerson, confirmed |-> FALSE, steps |-> NoPerson]
NewPage == [list |-> {}, loaded |-> FALSE, path |-> "none", staff |-> {}, chosen |-> NoPerson,
            busy |-> FALSE, detail |-> NoDetail]
NoAction == [pc |-> "free", kind |-> "none", of |-> NoPerson, shown |-> NoPerson, mounted |-> FALSE, body |-> {}]

OrganPageInit ==
    /\ memberOf \in [Person -> {"none", "active"}]
    /\ organPage = NewPage
    /\ action = [a \in Action |-> NoAction]

-----------------------------------------------------------------------------
(* The list and the form. *)

\* adminFetch, the first of a run; with an end goes what has been checked before it.
Send(a, kind, person, page) ==
    /\ action[a].pc = "free" /\ \A b \in Action : b < a => action[b].pc # "free"
    /\ action' = [action EXCEPT ![a] = [NoAction EXCEPT !.pc = "sent", !.kind = kind, !.of = person,
                                            !.shown = IF kind = "end" THEN organPage.detail.preview ELSE NoPerson,
                                            !.mounted = kind \in {"preview", "end", "resend"}]]
    /\ organPage' = page
    /\ UNCHANGED memberOf

\* run sets the flag, whoever has set it before.
RunAction(a, kind, person) == Send(a, kind, person, [organPage EXCEPT !.busy = TRUE])

\* load, as the page opens or by "Coba lagi": not a run.
OpenList(a) ==
    /\ ~organPage.loaded /\ Send(a, "load", NoPerson, organPage)

\* Enter in the field asks for no flag.
SearchStaff(a) ==
    /\ organPage.path = "existing_staff" /\ RunAction(a, "search", NoPerson)

ChooseStaff(person) ==
    /\ organPage.path = "existing_staff" /\ person \in organPage.staff
    /\ organPage' = [organPage EXCEPT !.chosen = person]
    /\ UNCHANGED <<memberOf, action>>

ChoosePath(path) ==
    /\ organPage.loaded
    /\ organPage' = [organPage EXCEPT !.path = path]
    /\ UNCHANGED <<memberOf, action>>

\* submit: the person chosen, or the one whose name and e-mail are typed.
Submit(a, person) ==
    /\ organPage.path # "none" /\ ~organPage.busy
    /\ IF organPage.path = "existing_staff" THEN person = organPage.chosen ELSE person \in OrganOnly
    /\ RunAction(a, "add", person)

\* "Kelola" or "Perpanjang atau akhiri": not even while the page is busy is it kept from.
OpenDetail(a, person) ==
    /\ person \in organPage.list /\ RunAction(a, "open", person)

-----------------------------------------------------------------------------
(* MembershipDetail. *)

\* An active membership that is shown, and no run that has not said its end.
Pressable == organPage.detail.active /\ ~organPage.busy

Change(a) == Pressable /\ RunAction(a, "change", organPage.detail.of)

LoadPreview(a) ==
    Pressable /\ organPage.detail.preview = NoPerson /\ RunAction(a, "preview", organPage.detail.of)

\* "Saya sudah memeriksa langkah di atas."
Confirm ==
    /\ organPage.detail.active /\ organPage.detail.preview # NoPerson
    /\ organPage' = [organPage EXCEPT !.detail.confirmed = ~@]
    /\ UNCHANGED <<memberOf, action>>

\* What is shown of the end of a membership for the organ alone may not be pressed everywhere.
Disabled == organPage.detail.preview \in OrganOnly /\ ~CanEndNew

PressEnd(a) ==
    /\ Pressable /\ organPage.detail.preview # NoPerson /\ organPage.detail.confirmed /\ ~Disabled
    /\ RunAction(a, "end", organPage.detail.of)

Resend(a) ==
    Pressable /\ organPage.detail.of \in OrganOnly /\ RunAction(a, "resend", organPage.detail.of)

\* Mutant: the component has no key, so React keeps its state for the next membership.
ShowInPlace(page, person) == [page EXCEPT !.detail.of = person]

\* setDetail: the key is the membership, so another one is mounted anew.
Mount(page, person) ==
    IF page.detail.of = person THEN page ELSE [page EXCEPT !.detail = [NoDetail EXCEPT !.of = person]]

\* A component that is gone hears no answer; the page does.
Unmounted(person) ==
    [b \in Action |-> IF action[b].of # person THEN [action[b] EXCEPT !.mounted = FALSE] ELSE action[b]]

-----------------------------------------------------------------------------
(* SQ Hub. *)

Members == {p \in Person : memberOf[p] = "active"}
Answer(a, pc, body) == action' = [action EXCEPT ![a].pc = pc, ![a].body = body]

\* What a run sends first is carried out: an add of somebody who has no membership, an end.
Serve(a) ==
    LET p == action[a].of
    IN /\ action[a].pc = "sent"
       /\ action[a].kind = "add" => memberOf[p] = "none"
       /\ action[a].kind \in {"change", "preview", "end"} => memberOf[p] = "active"
       /\ memberOf' = CASE action[a].kind = "add" -> [memberOf EXCEPT ![p] = "active"]
                        [] action[a].kind = "end" -> [memberOf EXCEPT ![p] = "ended"]
                        [] OTHER -> memberOf
       /\ \E body \in IF action[a].kind = "search" THEN SUBSET (Person \ OrganOnly)
                       ELSE {IF action[a].kind = "load" THEN Members ELSE Members \cap {p}} :
             Answer(a, "answered", body)
       /\ UNCHANGED organPage

ServeDetail(a) ==
    /\ action[a].pc = "refresh" /\ Answer(a, "refreshed", Members \cap {action[a].of})
    /\ UNCHANGED <<memberOf, organPage>>

ServeList(a) ==
    /\ action[a].pc = "list" /\ Answer(a, "listed", Members)
    /\ UNCHANGED <<memberOf, organPage>>

ChangedByOthers(person) ==
    /\ memberOf[person] # "ended"
    /\ memberOf' = [memberOf EXCEPT ![person] = IF @ = "active" THEN "ended" ELSE "active"]
    /\ UNCHANGED <<organPage, action>>

-----------------------------------------------------------------------------
(* The answers at the page. *)

\* The end of a run: no flag any more, whatever else runs.
Finish(a, page) ==
    /\ action' = [action EXCEPT ![a] = NoAction]
    /\ organPage' = [page EXCEPT !.busy = FALSE]
    /\ UNCHANGED memberOf

Goes(a, pc, page) ==
    /\ action' = [action EXCEPT ![a].pc = pc, ![a].body = {}, ![a].mounted = FALSE]
    /\ organPage' = page
    /\ UNCHANGED memberOf

ReadList(a) ==
    LET page == [organPage EXCEPT !.list = action[a].body, !.loaded = TRUE]
    IN \/ /\ action[a].pc = "answered" /\ action[a].kind = "load"
          /\ action' = [action EXCEPT ![a] = NoAction]
          /\ organPage' = page
          /\ UNCHANGED memberOf
       \/ action[a].pc = "listed" /\ Finish(a, page)

ReadStaff(a) ==
    /\ action[a].pc = "answered" /\ action[a].kind = "search"
    /\ Finish(a, [organPage EXCEPT !.staff = action[a].body, !.chosen = NoPerson])

ReadAdded(a) ==
    /\ action[a].pc = "answered" /\ action[a].kind = "add" /\ Goes(a, "list", organPage)

\* setPreview and setSteps are of the component that pressed.
Own(a, page) == IF action[a].mounted THEN page ELSE organPage

ReadPreview(a) ==
    /\ action[a].pc = "answered" /\ action[a].kind = "preview"
    /\ Finish(a, Own(a, [organPage EXCEPT !.detail.preview = action[a].of]))

ReadResent(a) ==
    /\ action[a].pc = "answered" /\ action[a].kind = "resend"
    /\ Finish(a, Own(a, [organPage EXCEPT !.detail.steps = action[a].of]))

\* change and end load the details again.
ReadChanged(a) ==
    /\ action[a].pc = "answered" /\ action[a].kind \in {"change", "end"}
    /\ Goes(a, "refresh", IF action[a].kind = "end" THEN Own(a, [organPage EXCEPT !.detail.steps = action[a].of])
                          ELSE organPage)

\* The details of one membership, of openDetail or after a change: shown whichever is shown now.
ShowDetail(a) ==
    LET p == action[a].of
        page == [Mount(organPage, p) EXCEPT !.detail.active = action[a].body # {}]
    IN /\ \/ action[a].pc = "answered" /\ action[a].kind = "open"
          \/ action[a].pc = "refreshed"
       /\ action' = [Unmounted(p) EXCEPT ![a] = IF @.kind = "open" THEN NoAction ELSE [@ EXCEPT !.pc = "list", !.body = {}]]
       /\ organPage' = IF action[a].kind = "open" THEN [page EXCEPT !.busy = FALSE] ELSE page
       /\ UNCHANGED memberOf

\* An error, or no answer, of any of its requests ends the run with a message; of `load`
\* alone it is the list that says so.
Failed(a) ==
    /\ action[a].pc # "free"
    /\ IF action[a].kind = "load"
       THEN action' = [action EXCEPT ![a] = NoAction] /\ UNCHANGED <<memberOf, organPage>>
       ELSE Finish(a, organPage)

\* 401, or the page is left.
LeaveOrganPage ==
    /\ organPage' = NewPage
    /\ action' = [a \in Action |-> NoAction]
    /\ UNCHANGED memberOf

-----------------------------------------------------------------------------

OrganPageStep(a) ==
    \/ OpenList(a) \/ SearchStaff(a) \/ \E p \in Person : Submit(a, p) \/ OpenDetail(a, p)
    \/ Change(a) \/ LoadPreview(a) \/ PressEnd(a) \/ Resend(a)
    \/ Serve(a) \/ ServeDetail(a) \/ ServeList(a)
    \/ ReadList(a) \/ ReadStaff(a) \/ ReadAdded(a) \/ ReadPreview(a) \/ ReadResent(a) \/ ReadChanged(a)
    \/ ShowDetail(a) \/ Failed(a)

OrganPageNext ==
    \/ \E a \in Action : OrganPageStep(a)
    \/ \E p \in Person : ChooseStaff(p) \/ ChangedByOthers(p)
    \/ \E path \in {"existing_staff", "organ_identity"} : ChoosePath(path)
    \/ Confirm \/ LeaveOrganPage

OrganPageSpec == OrganPageInit /\ [][OrganPageNext]_organPageVars

-----------------------------------------------------------------------------
(* Properties. *)

PersonOrNone == Person \cup {NoPerson}
Details == [of : PersonOrNone, active : BOOLEAN, preview : PersonOrNone, confirmed : BOOLEAN, steps : PersonOrNone]
OrganPages == [list : SUBSET Person, loaded : BOOLEAN, path : {"none", "existing_staff", "organ_identity"},
               staff : SUBSET Person, chosen : PersonOrNone, busy : BOOLEAN, detail : Details]
ActionRuns == [pc : {"free", "sent", "answered", "refresh", "refreshed", "list", "listed"},
         kind : {"none", "load", "search", "add", "open", "change", "preview", "end", "resend"},
         of : PersonOrNone, shown : PersonOrNone, mounted : BOOLEAN, body : SUBSET Person]

OrganPageTypeOK ==
    /\ memberOf \in [Person -> {"none", "active", "ended"}]
    /\ organPage \in OrganPages
    /\ action \in [Action -> ActionRuns]

\* What stands beside a membership is that membership's (MembershipDetail, keyed by it):
\* the steps an administrator has checked before he ends one are the steps of the one he
\* ends, and the steps that were carried out are shown at theirs, although the details
\* of another were opened, or came back, while an answer was under way.
EndsWhatWasShown ==
    /\ organPage.detail.preview \in {NoPerson, organPage.detail.of}
    /\ organPage.detail.steps \in {NoPerson, organPage.detail.of}
    /\ organPage.detail.confirmed => organPage.detail.preview # NoPerson
    /\ \A a \in Action : action[a].kind = "end" => action[a].shown = action[a].of
=============================================================================
