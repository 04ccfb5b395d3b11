----------------------------- MODULE ModelPanel -----------------------------
(***************************************************************************)
(* The model card of the admin page, in the browser, over the Node it       *)
(* configures: a form, a probe whose answer may come after the form has     *)
(* changed, a dialog, and the call that applies the form.  The dialog does   *)
(* not shut the form off: Tab leads out of it.  The other callers are the    *)
(* CLI and the page in another tab.                                          *)
(***************************************************************************)
EXTENDS Deployment

CONSTANTS
    Page,       \* the caller that this page is
    MaxEpoch    \* bound: edits and probes since the card was mounted

VARIABLES
    saved,      \* what the card takes to be configured
    keyed,      \* savedApiKeyConfigured
    form,       \* the generation settings in the form
    probe,      \* probeEpoch, probeState, probeSource and what the answer is about
    asked,      \* probes that are under way: their epoch and their input
    dialog,     \* confirming
    busy

card == <<saved, keyed, form, probe, asked, dialog, busy>>
vars == <<deployment, card>>

\* A model, and a Codex session or what to do about the key of the API.
Drafts == Models \X (Keys \cup {Bridge, Keep, Clear})

ASSUME ModelPanelAssumption == Page \in Callers /\ MaxEpoch \in Nat /\ {Keep, None} \cap Drafts = {}

Source(draft) == IF draft[2] = Bridge THEN "codex" ELSE "api"

NoProbe == [epoch |-> 0, state |-> "idle", source |-> "none", of |-> Keep]

\* apiKeyAction of a form in which no key was typed and none was ticked off.
Untouched(model, source, hasKey) ==
    <<model, IF source = "codex" THEN Bridge ELSE IF hasKey THEN Keep ELSE Clear>>

Init ==
    /\ InitDeployment
    /\ saved = Keep /\ form = Keep /\ keyed = FALSE
    /\ probe = NoProbe /\ asked = {} /\ dialog = FALSE /\ busy = FALSE

\* The card initialises its form once, from the configuration it was given.
Mount ==
    /\ saved = Keep /\ env # None
    /\ keyed' = (env.direct \in Keys)
    /\ saved' = Untouched(env.model, IF env.key = Bridge THEN "codex" ELSE "api", keyed')
    /\ form' = saved'
    /\ UNCHANGED <<deployment, probe, asked, dialog, busy>>

\* The operator goes to another page, or reloads this one: no answer to a probe
\* reaches a card that is gone; the call it has made goes on without it.
Leave ==
    /\ saved # Keep
    /\ saved' = Keep /\ form' = Keep /\ keyed' = FALSE
    /\ probe' = NoProbe /\ asked' = {} /\ dialog' = FALSE /\ busy' = FALSE
    /\ UNCHANGED deployment

\* formDisabled.
Enabled == saved # Keep /\ ~busy

\* Every edit of source, model, address or key invalidates the probe.
Edit(draft) ==
    /\ Enabled /\ probe.epoch < MaxEpoch
    /\ draft[2] = Keep => keyed
    /\ form' = draft
    /\ probe' = [NoProbe EXCEPT !.epoch = probe.epoch + 1]
    /\ UNCHANGED <<deployment, saved, keyed, asked, dialog, busy>>

AskProbe ==
    /\ Enabled /\ probe.state # "probing" /\ probe.epoch < MaxEpoch
    /\ probe' = [epoch |-> probe.epoch + 1, state |-> "probing", source |-> Source(form), of |-> Keep]
    /\ asked' = asked \cup {[epoch |-> probe.epoch + 1, input |-> form]}
    /\ UNCHANGED <<deployment, saved, keyed, form, dialog, busy>>

\* Mistaken: whatever answer comes is taken for the one that is waited for.
AnyAnswer(request) == TRUE

Current(request) == request.epoch = probe.epoch

\* generationProbe answers, or fails; an answer of another epoch is dropped.
ProbeAnswered(request, outcome) ==
    /\ request \in asked
    /\ asked' = asked \ {request}
    /\ probe' = IF Current(request) THEN [probe EXCEPT !.state = outcome, !.of = request.input]
                ELSE probe
    /\ UNCHANGED <<deployment, saved, keyed, form, dialog, busy>>

GenerationChanged == form # saved

\* generationProbeReady.
ProbeCounts == probe.state = "compatible" /\ probe.source = Source(form)

CanSubmit(embedding) ==
    /\ embedding # Keep \/ GenerationChanged
    /\ GenerationChanged => ProbeCounts

Submit ==
    /\ Enabled
    /\ \E embedding \in Embeddings \cup {Keep} : CanSubmit(embedding)
    /\ dialog' = TRUE
    /\ UNCHANGED <<deployment, saved, keyed, form, probe, asked, busy>>

Cancel ==
    /\ dialog /\ dialog' = FALSE
    /\ UNCHANGED <<deployment, saved, keyed, form, probe, asked, busy>>

Wanted == IF GenerationChanged THEN form ELSE Keep

\* applyModels sends what the form says now, if that is anything.
Apply(embedding) ==
    /\ dialog
    /\ embedding # Keep \/ Wanted # Keep
    /\ dialog' = FALSE /\ busy' = TRUE
    /\ AskSelect(Page, [embedding |-> embedding, generation |-> Wanted])
    /\ UNCHANGED <<saved, keyed, form, probe, asked>>

\* A key that was typed in is cleared once it is saved; the epoch stays.
Applied ==
    /\ busy /\ call[Page] = Done
    /\ busy' = FALSE
    /\ keyed' = (form[2] \in Keys \/ (keyed /\ form[2] # Clear))
    /\ saved' = Untouched(form[1], Source(form), keyed')
    /\ form' = saved'
    /\ probe' = [NoProbe EXCEPT !.epoch = probe.epoch]
    /\ UNCHANGED <<deployment, asked, dialog>>

\* The call was refused, or its answer is lost, under way as it may still be.
NotApplied ==
    /\ busy /\ busy' = FALSE
    /\ UNCHANGED <<deployment, saved, keyed, form, probe, asked, dialog>>

CardNext ==
    \/ Mount \/ Leave \/ AskProbe \/ Submit \/ Cancel \/ Applied \/ NotApplied
    \/ \E draft \in Drafts : Edit(draft)
    \/ \E request \in asked, outcome \in {"compatible", "refused"} : ProbeAnswered(request, outcome)
    \/ \E embedding \in Embeddings \cup {Keep} : Apply(embedding)

\* The page selects models with this card only.  While there is no Node, and so
\* no page, its caller is a second shell.
NodeNext ==
    /\ \E c \in Callers :
          \/ Progress(c)
          \/ (c = Page => env = None) /\ Operate(c)
          \/ c # Page /\ \E selection \in Selections : AskSelect(c, selection)
    /\ UNCHANGED card

Next == CardNext \/ NodeNext

Spec == Init /\ [][Next]_vars

-----------------------------------------------------------------------------
TypeOK ==
    /\ env \in EnvFile \cup {None}
    /\ stack.up \in {"nothing", "data", "core", "all"}
    /\ stack.runs \in [embedding : Embeddings, model : Models, key : Keys \cup {NoKey, Bridge}] \cup {None}
    /\ form \in Drafts \cup {Keep} /\ saved \in Drafts \cup {Keep}
    /\ probe.epoch \in 0 .. MaxEpoch

\* The probe that lets the form be submitted is about the model, the connection
\* and the key that are in the form: an answer that comes after the form has
\* changed, or after it was applied, does not count, however edits, probes,
\* answers and applications interleave.
CountedProbeFits == ProbeCounts => probe.of = form
=============================================================================
