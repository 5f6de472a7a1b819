--------------------------- MODULE ReleaseScores ---------------------------
(***************************************************************************)
(* Quality profiles, custom formats and the current score of a release     *)
(* (services/custom_formats.py, services/quality_profiles.py and their     *)
(* two API modules).                                                       *)
(*                                                                         *)
(* A custom format is a set of condition cards; a profile gives formats    *)
(* scores and names the qualities it allows; a title may be assigned a     *)
(* profile and may override scores.  The score stored on a release is      *)
(* derived from all of these, so each request that edits one of them has   *)
(* to refresh the releases that depend on it in the same transaction,      *)
(* while scans and polls evaluate and store releases in theirs, and each   *)
(* start of the program puts the built-in formats as its version has them. *)
(*                                                                         *)
(* What a card's pattern matches is given with the card.  Media scopes,    *)
(* the quality floor (a warning only), the order of the qualities, names   *)
(* and revision checks are left out, and so is the profile that a start of *)
(* the program makes anew when it is gone, which no title is assigned; an  *)
(* edit is one transaction, and two edits do not overlap.                  *)
(***************************************************************************)
EXTENDS Integers, FiniteSets, FiniteSetsExt

CONSTANTS
  Titles, Releases, TitleOf,      \* each release belongs to a title
  Qualities, QualityOf,           \* the quality parsed from a release, or one that is not known
  Formats, Builtin, Definitions,  \* format rows and what they may hold
  Profiles, Policies, Scores,     \* profile rows, what they may hold, the scores they may give
  Overrides,                      \* the scores a title may override
  None, Unscored,                 \* values that are none of these
  MaxChanges                      \* bound: edits, registrations and whatever a module that extends
                                  \* this one counts with them, together

Profile == [score : [Formats -> Scores], qualities : (SUBSET Qualities) \ {{}}]

ASSUME ReleaseScoresAssumption ==
  /\ TitleOf \in [Releases -> Titles] /\ Builtin \subseteq Formats
  /\ Scores \subseteq Int /\ 0 \in Scores /\ MaxChanges \in Nat /\ IsFiniteSet(Formats)
  /\ \A d \in Definitions : IsFiniteSet(d.cards) /\ \A card \in d.cards : card.offset \in Int
  /\ Policies \subseteq Profile /\ Overrides \subseteq [Formats -> Scores \cup {None}]
  /\ None \notin Titles \cup Formats \cup Profiles \cup Definitions \cup Int /\ None \notin Profile
  /\ Unscored # None /\ Unscored \notin Int

VARIABLES
  format,      \* the definition of each format, or None
  profile,     \* each profile, or None
  assignment,  \* the profile and overrides of each title, or None
  release,     \* the stored score of each release, Unscored when it has none, or None when it is not
               \* in the library
  reading,     \* what a scan or a poll is about to store for a release
  suspect,     \* releases whose score an edit, a start or a late registration may have left behind
  changes

svars == <<format, profile, assignment, release, reading, suspect, changes>>

Assignment == [profile : Profiles \cup {None}, override : [Formats -> Scores \cup {None}]]
Reading    == [score : Int, loaded : Int \cup {None, Unscored}, late : BOOLEAN]

NoOverride == [f \in Formats |-> None]

\* Scores are given to formats that exist.
Fits(score) == \A f \in Formats : format[f] = None => score[f] \in {0, None}

SInit ==
  /\ format \in [Formats -> Definitions \cup {None}]
  /\ profile \in [Profiles -> Policies \cup {None}] /\ \A p \in Profiles : profile[p] # None => Fits(profile[p].score)
  /\ assignment = [t \in Titles |-> None]
  /\ release = [r \in Releases |-> None] /\ reading = [r \in Releases |-> None]
  /\ suspect = {} /\ changes = 0

-----------------------------------------------------------------------------
(* Evaluation: custom_formats.py                                           *)

Met(card, r) == (r \in card.on) # card.negate

\* Required cards of a group all have to pass, and one optional card when it has any.
GroupPasses(cards, r) ==
  /\ \A card \in cards : card.required => Met(card, r)
  /\ (\E card \in cards : ~card.required) => \E card \in cards : ~card.required /\ Met(card, r)

Matches(definition, r) ==
  /\ definition.cards # {}
  /\ \A card \in definition.cards :
       GroupPasses({other \in definition.cards : other.group = card.group}, r)

\* Of the rules that match only the highest offset counts; a negated card brings none.
Offset(definition, r) ==
  LET offsets == {card.offset : card \in {c \in definition.cards : r \in c.on /\ ~c.negate}}
  IN  IF offsets = {} THEN 0 ELSE Max(offsets)

Contribution(definition, score, r) ==
  IF definition # None /\ definition.enabled /\ Matches(definition, r)
  THEN score + Offset(definition, r) ELSE 0

Evaluate(definitions, score, r) ==
  MapThenSumSet(LAMBDA f : Contribution(definitions[f], score[f], r), Formats)

\* load_effective_profile: an override replaces the score of the profile.
BaseScore(p) == [f \in Formats |-> IF p = None THEN 0 ELSE p.score[f]]

EffectiveScore(profiles, a) ==
  IF a = None THEN BaseScore(None)
  ELSE [f \in Formats |-> IF a.override[f] # None THEN a.override[f]
                          ELSE BaseScore(IF a.profile = None THEN None ELSE profiles[a.profile])[f]]

\* Without a profile every quality is allowed; one the parser does not know never is.
Allowed(p) == IF p = None THEN Qualities ELSE p.qualities

Current(definitions, profiles, assignments, r) ==
  Evaluate(definitions, EffectiveScore(profiles, assignments[TitleOf[r]]), r)

-----------------------------------------------------------------------------
(* Edits.  Each refreshes the releases in the library of some titles, and  *)
(* makes what is being registered late.                                    *)

Change == changes < MaxChanges /\ changes' = changes + 1

Late == [r \in Releases |-> IF reading[r] = None THEN None ELSE [reading[r] EXCEPT !.late = TRUE]]

\* refresh_movie_release_scores, refresh_show_release_scores
Refresh(titles) ==
  LET known == {r \in Releases : release[r] # None /\ TitleOf[r] \in titles}
  IN  /\ release' = [r \in Releases |-> IF r \in known THEN Current(format', profile', assignment', r)
                                        ELSE release[r]]
      /\ suspect' = suspect \ known
      /\ reading' = Late

AssignedProfiles(assignments) == {t \in Titles : assignments[t] # None /\ assignments[t].profile # None}

\* refresh_all_release_scores: every title with an assignment
Assigned(assignments) == {t \in Titles : assignments[t] # None}

\* A new format is in no profile, but the offset of a card counts all the same, and neither
\* create nor import refreshes.
CreateFormat(f, d) ==
  /\ Change /\ f \notin Builtin /\ format[f] = None /\ d.cards # {}
  /\ format' = [format EXCEPT ![f] = d]
  /\ suspect' = suspect \cup {r \in Releases : release[r] # None /\ Contribution(d, 0, r) # 0}
  /\ reading' = Late
  /\ UNCHANGED <<profile, assignment, release>>

\* Of a built-in format only its being enabled can be edited.
UpdateFormat(f, d) ==
  /\ Change /\ format[f] # None /\ d # format[f]
  /\ f \in Builtin => d.cards = format[f].cards
  /\ format' = [format EXCEPT ![f] = d]
  /\ UNCHANGED <<profile, assignment>>
  /\ Refresh(Assigned(assignment'))

\* A format that is gone has no score in any profile, and no title overrides it.
Unscores(gone) ==
  /\ profile' = [p \in Profiles |->
                   IF profile[p] = None THEN None
                   ELSE [profile[p] EXCEPT !.score = [f \in Formats |-> IF f \in gone THEN 0 ELSE profile[p].score[f]]]]
  /\ assignment' = [t \in Titles |->
                   IF assignment[t] = None THEN None
                   ELSE [assignment[t] EXCEPT !.override =
                           [f \in Formats |-> IF f \in gone THEN None ELSE assignment[t].override[f]]]]

DeleteFormat(f) ==
  /\ Change /\ format[f] # None /\ f \notin Builtin
  /\ format' = [format EXCEPT ![f] = None]
  /\ Unscores({f})
  /\ Refresh(Assigned(assignment'))

AssignedTo(p) == {t \in Titles : assignment[t] # None /\ assignment[t].profile = p}

CreateProfile(p, new) ==
  /\ Change /\ profile[p] = None /\ Fits(new.score)
  /\ profile' = [profile EXCEPT ![p] = new]
  /\ UNCHANGED <<format, assignment, release, suspect>> /\ reading' = Late

UpdateProfile(p, new) ==
  /\ Change /\ profile[p] # None /\ new # profile[p] /\ Fits(new.score)
  /\ profile' = [profile EXCEPT ![p] = new]
  /\ UNCHANGED <<format, assignment>>
  /\ Refresh(AssignedTo(p))

\* The overrides of a title outlive its profile.
DeleteProfile(p) ==
  /\ Change /\ profile[p] # None
  /\ profile' = [profile EXCEPT ![p] = None]
  /\ assignment' = [t \in Titles |-> IF t \in AssignedTo(p) THEN [assignment[t] EXCEPT !.profile = None]
                                     ELSE assignment[t]]
  /\ UNCHANGED format
  /\ Refresh(AssignedTo(p))

SaveSettings(t, new) ==
  /\ Change /\ new # assignment[t]
  /\ new.profile # None => profile[new.profile] # None
  /\ Fits(new.override)
  /\ assignment' = [assignment EXCEPT ![t] = new]
  /\ UNCHANGED <<format, profile>>
  /\ Refresh({t})

\* Every edit; settings are saved for titles that exist.
EditStep(known) ==
  \/ \E f \in Formats : \/ \E d \in Definitions : CreateFormat(f, d) \/ UpdateFormat(f, d)
                        \/ DeleteFormat(f)
  \/ \E p \in Profiles : \/ \E new \in Policies : CreateProfile(p, new) \/ UpdateProfile(p, new)
                         \/ DeleteProfile(p)
  \/ \E t \in known, p \in Profiles \cup {None}, override \in Overrides :
       SaveSettings(t, [profile |-> p, override |-> override])

\* ensure_builtin_custom_formats puts the built-in formats as this version has them, but for their
\* being enabled, and deletes those it no longer has: their scores go by the cascade, and an override
\* of one says nothing any more.  Nothing is refreshed.
Shipped == {now \in [Builtin -> Definitions \cup {None}] :
              \A f \in Builtin : format[f] # None /\ now[f] # None => now[f].enabled = format[f].enabled}

Resync(now) ==
  /\ format' = [f \in Formats |-> IF f \in Builtin THEN now[f] ELSE format[f]]
  /\ Unscores({f \in Builtin : now[f] = None})
  /\ suspect' = suspect \cup {r \in Releases :
                   release[r] # None /\ Current(format', profile', assignment', r) # Current(format, profile, assignment, r)}

-----------------------------------------------------------------------------
(* A scan or a poll: one transaction that evaluates a release and commits  *)
(* it later.  Only a column that changed is written.                       *)

Evaluates(r) ==
  /\ Change /\ reading[r] = None
  /\ reading' = [reading EXCEPT ![r] = [score  |-> Current(format, profile, assignment, r),
                                        loaded |-> release[r], late |-> FALSE]]
  /\ UNCHANGED <<format, profile, assignment, release, suspect>>

Stores(r) ==
  /\ reading[r] # None
  /\ IF reading[r].score = reading[r].loaded THEN UNCHANGED <<release, suspect>>
     ELSE /\ release' = [release EXCEPT ![r] = reading[r].score]
          /\ suspect' = IF reading[r].late THEN suspect \cup {r} ELSE suspect \ {r}
  /\ reading' = [reading EXCEPT ![r] = None]
  /\ UNCHANGED <<format, profile, assignment, changes>>

\* A poll that finds a download of a movie adds its release, and no score to it.
Arrives(r) ==
  /\ Change /\ release[r] = None /\ reading[r] = None
  /\ release' = [release EXCEPT ![r] = Unscored]
  /\ UNCHANGED <<format, profile, assignment, reading, suspect>>

-----------------------------------------------------------------------------
(* Properties                                                              *)

STypeOK ==
  /\ format \in [Formats -> Definitions \cup {None}]
  /\ profile \in [Profiles -> Profile \cup {None}]
  /\ assignment \in [Titles -> Assignment \cup {None}]
  /\ release \in [Releases -> Int \cup {None, Unscored}]
  /\ reading \in [Releases -> Reading \cup {None}]
  /\ suspect \subseteq Releases /\ changes \in 0 .. MaxChanges

\* The score of each release of a title with profile settings is what its settings give now, whatever
\* was edited since, in the order edits, scans, polls, downloads and restarts came.  Five things are
\* not followed by a refresh: a release was being registered during an edit, a format with an offset
\* was created, a download assigned the title its profile, or a start of the program changed what a
\* built-in format gives; and the release of a movie that a poll found downloading has no score yet.
ScoresTruthful ==
  \A r \in Releases \ suspect :
    release[r] \notin {None, Unscored} /\ assignment[TitleOf[r]] # None =>
      release[r] = Current(format, profile, assignment, r)

=============================================================================
