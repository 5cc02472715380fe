---------------------------- MODULE Compositions ----------------------------
(***************************************************************************)
(* The composition of a sandbox: its soul and skills, drafts of the        *)
(* playground or templates in git, which a published draft of the          *)
(* workspace replaces. The goroutine that starts the sandbox reads them    *)
(* once, writes a ConfigMap for each draft, and creates a pod that mounts  *)
(* them. A reaper deletes the ConfigMaps of sandboxes that have no row.    *)
(* The composition of every sandbox here is the same.                      *)
(***************************************************************************)
EXTENDS Naturals

CONSTANTS
    Pods,           \* sandboxes
    DraftRefs,      \* references to drafts
    GitRefs,        \* references to templates in git
    MaxEdits        \* bound: edits of a draft

ASSUME CompositionsAssumption == DraftRefs \cap GitRefs = {} /\ MaxEdits \in Nat

VARIABLES
    podRow,     \* per sandbox: its row
    composed,   \* sandboxes that have a row in sandbox_compositions
    source,     \* per reference: the draft with its id, or published under its name
    boot,       \* per sandbox: the step of its start, and what it resolved
    maps,       \* ConfigMaps, with the version of the draft they hold
    pod,        \* per sandbox: whether its CR and its pod are there, and what it mounts
    listed,     \* ConfigMaps the reaper has listed and not looked at
    misread,    \* history: ConfigMaps deleted because a row could not be read
    unwrittenMaps,  \* history: ConfigMaps that could not be created
    bare        \* history: sandboxes with a reason to start without a composition

rowState == <<podRow, composed>>
mapHistory == <<misread, unwrittenMaps, bare>>
compositionVars == <<rowState, source, boot, maps, pod, listed, mapHistory>>

Parts == DraftRefs \cup GitRefs

NoPod == [cr |-> FALSE, up |-> FALSE, mounts |-> {}]

CompositionInit ==
    /\ podRow = [s \in Pods |-> "none"] /\ composed = {}
    /\ source = [p \in Parts |-> [there |-> TRUE, version |-> 0]]
    /\ boot = [s \in Pods |-> [pc |-> "none", resolved |-> {}]]
    /\ maps = {} /\ listed = {}
    /\ pod = [s \in Pods |-> NoPod]
    /\ misread = {} /\ unwrittenMaps = {} /\ bare = {}

-----------------------------------------------------------------------------
(* Drafts *)

\* An author edits a draft; the name of a published one stays.
UpdateDraft(p) ==
    /\ source[p].there /\ source[p].version < MaxEdits
    /\ source' = [source EXCEPT ![p].version = @ + 1]
    /\ UNCHANGED <<rowState, boot, maps, pod, listed, mapHistory>>

\* A draft is deleted, or no longer published under its name.
DeleteDraft(p) ==
    /\ source[p].there
    /\ source' = [source EXCEPT ![p].there = FALSE]
    /\ UNCHANGED <<rowState, boot, maps, pod, listed, mapHistory>>

-----------------------------------------------------------------------------
(* The start of a sandbox *)

\* provisionSandbox inserts the composition before it starts the goroutine; if that
\* fails the sandbox starts without.
ProvisionSandbox(s) ==
    /\ podRow[s] = "none"
    /\ podRow' = [podRow EXCEPT ![s] = "live"]
    /\ boot' = [boot EXCEPT ![s].pc = "going"]
    /\ \/ composed' = composed \cup {s} /\ UNCHANGED bare
       \/ UNCHANGED composed /\ bare' = bare \cup {s}
    /\ UNCHANGED <<source, maps, pod, listed, misread, unwrittenMaps>>

\* Mutant: drafts that are gone are passed over.
ResolvePresent ==
    {[part |-> p, version |-> source[p].version] : p \in {q \in Parts : source[q].there}}

\* ResolveComposition: a draft that is gone is an error, and the sandbox starts
\* with no composition at all; a template nobody has published over is mounted from
\* the chart.
Resolve ==
    IF \E p \in DraftRefs : ~source[p].there THEN {}
    ELSE {[part |-> p, version |-> source[p].version] :
             p \in {q \in Parts : source[q].there}}

ResolveComposition(s) ==
    /\ boot[s].pc = "going"
    /\ \E answers \in BOOLEAN :
         LET loaded == answers /\ s \in composed IN
         /\ boot' = [boot EXCEPT ![s] =
              [pc |-> "resolved", resolved |-> IF loaded THEN Resolve ELSE {}]]
         /\ bare' = IF loaded /\ \A p \in DraftRefs : source[p].there THEN bare
                    ELSE bare \cup {s}
    /\ UNCHANGED <<rowState, source, maps, pod, listed, misread, unwrittenMaps>>

MapOf(s, r) == [box |-> s, part |-> r.part, version |-> r.version]

\* A ConfigMap that cannot be created is logged, and mounted all the same.
ApplyCompositionMounts(s) ==
    /\ boot[s].pc = "resolved"
    /\ boot' = [boot EXCEPT ![s].pc = "applied"]
    /\ \E fails \in SUBSET boot[s].resolved :
         /\ maps' = maps \cup {MapOf(s, r) : r \in boot[s].resolved \ fails}
         /\ unwrittenMaps' = unwrittenMaps \cup {MapOf(s, r) : r \in fails}
    /\ UNCHANGED <<rowState, source, pod, listed, misread, bare>>

\* The row goes with whatever else makes StartContainerWithIP fail.
StartFails(s) ==
    /\ podRow' = [podRow EXCEPT ![s] = "deleted"] /\ composed' = composed \ {s}

CreateCR(s) ==
    /\ boot[s].pc = "applied"
    /\ \/ /\ boot' = [boot EXCEPT ![s].pc = "waiting"]
          /\ pod' = [pod EXCEPT ![s] =
               [cr |-> TRUE, up |-> FALSE, mounts |-> {r.part : r \in boot[s].resolved}]]
          /\ UNCHANGED rowState
       \/ /\ boot' = [boot EXCEPT ![s].pc = "over"]
          /\ StartFails(s) /\ UNCHANGED pod
    /\ UNCHANGED <<source, maps, listed, mapHistory>>

\* waitForReady sees the pod up, or gives up: then the CR is deleted too.
WaitForReady(s) ==
    /\ boot[s].pc = "waiting"
    /\ boot' = [boot EXCEPT ![s].pc = "over"]
    /\ \/ pod[s].up /\ UNCHANGED <<rowState, pod>>
       \/ pod' = [pod EXCEPT ![s] = NoPod] /\ StartFails(s)
    /\ UNCHANGED <<source, maps, listed, mapHistory>>

\* Kubernetes starts a pod once everything it mounts is there.
PodStarts(s) ==
    /\ pod[s].cr /\ ~pod[s].up
    /\ \A p \in pod[s].mounts : \E m \in maps : m.box = s /\ m.part = p
    /\ pod' = [pod EXCEPT ![s].up = TRUE]
    /\ UNCHANGED <<rowState, source, boot, maps, listed, mapHistory>>

\* A pause: the CR stays, and a resume starts another pod from it.
PodStops(s) ==
    /\ pod[s].up
    /\ pod' = [pod EXCEPT ![s].up = FALSE]
    /\ UNCHANGED <<rowState, source, boot, maps, listed, mapHistory>>

RemoveSandbox(s) ==
    /\ podRow[s] = "live"
    /\ podRow' = [podRow EXCEPT ![s] = "deleted"] /\ composed' = composed \ {s}
    /\ pod' = [pod EXCEPT ![s] = NoPod]
    /\ bare' = bare \cup {s}
    /\ UNCHANGED <<source, boot, maps, listed, misread, unwrittenMaps>>

-----------------------------------------------------------------------------
(* The reaper *)

ListConfigMaps ==
    /\ listed = {} /\ maps # {}
    /\ listed' = maps
    /\ UNCHANGED <<rowState, source, boot, maps, pod, mapHistory>>

\* Mutant: only a sandbox that runs is tracked.
TrackedUp(s) == pod[s].up

Tracked(s) == podRow[s] = "live"

\* A ConfigMap goes when its sandbox has no row, or the row cannot be read; it may
\* fail to go.
ReapOrphan(m) ==
    /\ m \in listed
    /\ listed' = listed \ {m}
    /\ \E read, gone \in BOOLEAN :
         LET deletes == gone /\ ~(read /\ Tracked(m.box)) IN
         /\ maps' = IF deletes THEN maps \ {m} ELSE maps
         /\ misread' = IF deletes /\ ~read THEN misread \cup {m} ELSE misread
    /\ UNCHANGED <<rowState, source, boot, pod, unwrittenMaps, bare>>

CompositionNext ==
    \/ \E p \in Parts : UpdateDraft(p) \/ DeleteDraft(p)
    \/ \E s \in Pods :
         \/ ProvisionSandbox(s) \/ ResolveComposition(s)
         \/ ApplyCompositionMounts(s) \/ CreateCR(s) \/ WaitForReady(s)
         \/ PodStarts(s) \/ PodStops(s) \/ RemoveSandbox(s)
    \/ ListConfigMaps
    \/ \E m \in listed : ReapOrphan(m)

CompositionSpec == CompositionInit /\ [][CompositionNext]_compositionVars

-----------------------------------------------------------------------------
(* Properties *)

CompositionTypeOK ==
    /\ \A s \in Pods :
         /\ podRow[s] \in {"none", "live", "deleted"}
         /\ boot[s].pc \in {"none", "going", "resolved", "applied", "waiting", "over"}
         /\ pod[s].mounts \subseteq Parts /\ (pod[s].up => pod[s].cr)
    /\ composed \cup bare \subseteq Pods
    /\ \A p \in Parts : source[p].version \in 0..MaxEdits
    /\ \A m \in maps \cup listed : m.box \in Pods /\ m.part \in Parts

\* What a sandbox mounts stays while its row does, through pauses and the reaper, as
\* it was when the sandbox was created; only what could not be written, or whose row
\* could not be read, is missing.
MountsStay ==
    \A s \in Pods : podRow[s] = "live" /\ boot[s].pc \in {"applied", "waiting", "over"} =>
        \A r \in boot[s].resolved :
            MapOf(s, r) \in maps \cup unwrittenMaps \cup misread

\* A sandbox has all drafts it refers to or, for a reason, none of its composition.
ComposedOrBare ==
    \A s \in Pods : boot[s].pc \in {"resolved", "applied", "waiting", "over"} =>
        IF s \in bare /\ boot[s].resolved = {} THEN TRUE
        ELSE DraftRefs \subseteq {r.part : r \in boot[s].resolved}

CompositionSound == MountsStay /\ ComposedOrBare
=============================================================================
