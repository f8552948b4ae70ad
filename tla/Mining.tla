------------------------------- MODULE Mining -------------------------------
(***************************************************************************)
(* How public guides become knowledge the agent is given (kb/mine.py,      *)
(* kb/knowledge.py, kb/build.py, `k8srca kb mine` and `kb build`): a       *)
(* family's guide is fetched, a model extracts items from it and from the  *)
(* vendored records of one alert, a model merges them, and the draft is    *)
(* checked in the place it will have in docs/rca/mined, where people       *)
(* meanwhile edit the files beside it.                                     *)
(* `kb mine` may be stopped at any point; what it paid for is in caches.   *)
(*                                                                         *)
(* Claims stand for all the items that have names; `sound` for the checks  *)
(* of a claim that look at nothing but the claim.                          *)
(***************************************************************************)
EXTENDS Naturals, TLC

CONSTANTS Hypotheses,  \* of the one vendored alert of the family
          Claim,       \* names of claims
          Titled,      \* <<c, h>>: the claim named c has h for a title
          Authored,    \* the authored layer at first
          Merges,      \* the answers of the model that merges
          MaxUsd,      \* --max-usd
          Price,       \* of a call; 0: of a model whose price is not known
          MaxMines, MaxEdits, MaxStops   \* bounds

ASSUME MiningBounds ==
  /\ Titled \subseteq Claim \X Hypotheses
  /\ {MaxUsd, Price, MaxMines, MaxEdits, MaxStops} \subseteq Nat

VARIABLES
  page,            \* the edition of the guide on the web
  text, meta,      \* the edition in sources/guide.txt, and that of guide.json; 0: no file
  extracted,       \* extract/: answers by key
  merges,          \* merge/: answers by key
  files,           \* another family's file in docs/rca/mined, and the layer docs/rca/knowledge
  draft,           \* what `kb mine` wrote last, for review
  run,             \* `kb mine`, while it runs
  paid, again,     \* history: the calls answered and not lost; whether one was made again
  torn,            \* history: a stop between the two files of a source
  mines, edits, stops

source == <<page, text, meta>>
caches == <<extracted, merges>>
history == <<paid, again, torn>>
bounds == <<mines, edits, stops>>
miningVars == <<source, caches, files, draft, run, history, bounds>>

-----------------------------------------------------------------------------
(* Knowledge: layers, how they combine, and what the build refuses.        *)

(* A layer: claims by name, the candidates it lists for the symptom,       *)
(* whether it maps the alert to the symptom, sub-causes it adds to claims, *)
(* and what became of the alert's hypotheses.                              *)
Empty == [claims |-> <<>>, listed |-> {}, maps |-> FALSE, refinements |-> {}, converts |-> <<>>]

(* combine: the higher layer hides a claim of its name; candidates and     *)
(* refinements accumulate.                                                 *)
Over(hi, lo) ==
  [claims |-> hi.claims @@ lo.claims, listed |-> hi.listed \cup lo.listed,
   maps |-> hi.maps \/ lo.maps, refinements |-> hi.refinements \cup lo.refinements,
   converts |-> hi.converts @@ lo.converts]

(* load: a name defined by two files of a directory is an error. *)
Clash(a, b) ==
  \/ DOMAIN a.claims \cap DOMAIN b.claims # {}
  \/ a.listed # {} /\ b.listed # {}
  \/ a.maps /\ b.maps
  \/ DOMAIN a.converts \cap DOMAIN b.converts # {}

(* _apply_refinements: each claim, and a kind of it. *)
Kinds(K) ==
  {e \in (DOMAIN K.claims) \X Claim : e[2] \in K.claims[e[1]].refined \/ e \in K.refinements}

(* The claims that following `edges` from `top` arrives at: the least set. *)
Reached(top, edges) ==
  {c \in Claim : \A S \in SUBSET Claim :
     top \cap Claim \subseteq S /\ (\A e \in edges : e[1] \in S => e[2] \in S) => c \in S}

(* reachable *)
Reachable(K) == Reached(K.listed \cap DOMAIN K.claims, Kinds(K)) \cap DOMAIN K.claims

(* A name that is not there: the mapped alert's symptom, which is there    *)
(* once a layer lists candidates for it, or a claim.                       *)
Unresolved(K) ==
  \/ K.maps /\ K.listed = {}
  \/ ~ (K.listed \cup {e[2] : e \in Kinds(K)} \cup UNION {{e[1], e[2]} : e \in K.refinements}
          \subseteq DOMAIN K.claims)

(* _refinement_cycles *)
Cyclic(K) == \E e \in Kinds(K) : e[1] \in Reached({e[2]}, Kinds(K))

(* _conversion_problems: once the alert is mapped, each hypothesis is      *)
(* declined with a reason or is a claim the symptom reaches.               *)
Unconverted(K) ==
  IF ~K.maps THEN {} ELSE
    {h \in Hypotheses : ~ /\ h \in DOMAIN K.converts
                          /\ K.converts[h] \in {"declined"} \cup Reachable(K)}

(* check, without and with the hypotheses. *)
Problems(K) ==
  (IF Unresolved(K) THEN {<<"name">>} ELSE {}) \cup (IF Cyclic(K) THEN {<<"cycle">>} ELSE {})
  \cup {<<"claim", c>> : c \in {d \in DOMAIN K.claims : ~K.claims[d].sound}}

AllProblems(K) == Problems(K) \cup {<<"hypothesis", h>> : h \in Unconverted(K)}

(* build: what `kb build` loads and checks, with a file of the family.     *)
Builds(own) ==
  /\ ~Clash(own, files["other"])
  /\ AllProblems(Over(files["authored"], Over(own, files["other"]))) = {}

(* What the built knowledge offers the agent: `lookup` of the alert, whose *)
(* answer is the symptom's candidates once some layer maps it; `refine` of *)
(* a claim; and all that follows from refining what is offered.            *)
Lookup(K) == IF K.maps THEN K.listed ELSE {}

Refine(K, c) == {d \in Claim : <<c, d>> \in Kinds(K)}

Offered(K) == Reached(Lookup(K), {e \in Claim \X Claim : e[2] \in Refine(K, e[1])})

-----------------------------------------------------------------------------
(* Sources, and what the models make of them.                              *)

Sources == {"guide", "vendored"}

(* html_to_text, render_vendored: the passages of a source. *)
Says(s, edition) ==
  IF s = "vendored" THEN Hypotheses \cup {"reports"}
  ELSE {"kept", IF edition = 1 THEN "old" ELSE "new"}

(* A cache, with an answer to a key it has none for. *)
Filed(cache, key, answer) ==
  [k \in DOMAIN cache \cup {key} |-> IF k \in DOMAIN cache THEN cache[k] ELSE answer]

(* The model that extracts may quote what the source does not say.  Items: *)
(* a claim, the symptom's list, the alert's mapping.                       *)
Answers(s) ==
  IF s = "vendored" THEN {("fresh" :> h) @@ ("alert" :> "reports") : h \in Hypotheses}
  ELSE {("fresh" :> q) @@ ("symptom" :> "kept") : q \in {"old", "new", "made"}}

(* extract: an item whose quote is not in the text is dropped. *)
Quoted(answer, s, edition) ==
  LET kept == {i \in DOMAIN answer : answer[i] \in Says(s, edition)}
  IN  [i \in kept |-> answer[i]]

(* to_layer: citations come from the extracted items that the merge names; *)
(* an item none of them resolves is dropped.                               *)
ToLayer(merged, items) ==
  LET from(i, refs) == {<<s, items[s][i]>> : s \in {t \in refs \cap DOMAIN items : i \in DOMAIN items[t]}}
      kept == {c \in DOMAIN merged.claims : from("fresh", merged.claims[c].from) # {}}
  IN  [claims |-> [c \in kept |-> [refined |-> merged.claims[c].refined, sound |-> merged.claims[c].sound,
                                   cites |-> from("fresh", merged.claims[c].from)]],
       listed |-> IF from("symptom", merged.from) # {} THEN merged.listed ELSE {},
       maps |-> merged.maps /\ from("alert", merged.from) # {},
       refinements |-> merged.refinements, converts |-> <<>>]

(* derive_converts: a hypothesis no layer placed becomes the claim that    *)
(* quotes it, else one titled after it, else it is left to review.         *)
Derived(K) ==
  LET reach == IF K.maps THEN Reachable(K) ELSE {}
      first(S) == IF S \cap reach # {} THEN CHOOSE c \in S \cap reach : TRUE ELSE CHOOSE c \in S : TRUE
      citing(h) == {c \in DOMAIN K.claims : <<"vendored", h>> \in K.claims[c].cites}
      titled(h) == {c \in DOMAIN K.claims : <<c, h>> \in Titled}
  IN  [h \in Hypotheses \ DOMAIN K.converts |->
         IF citing(h) # {} THEN first(citing(h)) ELSE IF titled(h) # {} THEN first(titled(h)) ELSE "todo"]

-----------------------------------------------------------------------------
NoRun == [pc |-> "idle"]
NoDraft == [made |-> FALSE]

MiningInit ==
  /\ page = 1 /\ text = 0 /\ meta = 0 /\ extracted = <<>> /\ merges = <<>>
  /\ files = [other |-> Empty, authored |-> Authored]
  /\ draft = NoDraft /\ run = NoRun
  /\ paid = {} /\ again = FALSE /\ torn = FALSE
  /\ mines = 0 /\ edits = 0 /\ stops = 0

(* What a draft is checked in: the other mined files, the authored layer.  *)
Base == Over(files["authored"], files["other"])

(* vocabulary: what the models are told exists. *)
Vocabulary(K) == <<DOMAIN K.claims, K.listed, Kinds(K)>>

(* `kb mine`: an alert that some layer maps is not extracted again. *)
Mine(refresh) ==
  /\ run.pc = "idle" /\ mines < MaxMines /\ mines' = mines + 1
  /\ run' = [pc |-> "fetch", refresh |-> refresh, vocab |-> Vocabulary(Base), edition |-> 0, sha |-> 0,
             left |-> IF Base.maps THEN {"guide"} ELSE Sources, items |-> <<>>, answer |-> <<>>,
             key |-> <<>>, prev |-> <<>>, layer |-> Empty, usd |-> 0]
  /\ UNCHANGED <<source, caches, files, draft, history, edits, stops>>

Cached == text # 0 /\ meta # 0 /\ ~run.refresh

FetchCached ==
  /\ run.pc = "fetch" /\ Cached
  /\ run' = [run EXCEPT !.pc = "extract", !.refresh = FALSE, !.edition = text, !.sha = meta]
  /\ UNCHANGED <<source, caches, files, draft, history, bounds>>

FetchText ==
  /\ run.pc = "fetch" /\ ~Cached
  /\ text' = page
  /\ run' = [run EXCEPT !.pc = "meta", !.refresh = FALSE, !.edition = page, !.sha = page]
  /\ UNCHANGED <<page, meta, caches, files, draft, history, bounds>>

FetchMeta ==
  /\ run.pc = "meta"
  /\ meta' = run.sha /\ torn' = FALSE
  /\ run' = [run EXCEPT !.pc = "extract"]
  /\ UNCHANGED <<page, text, caches, files, draft, paid, again, bounds>>

(* A call that the model answers; `again` if it had been answered. *)
Call(key, pc, answer) ==
  /\ paid' = paid \cup {key} /\ again' = (again \/ key \in paid)
  /\ run' = [run EXCEPT !.pc = pc, !.key = key, !.answer = answer]
  /\ UNCHANGED <<source, caches, files, draft, torn, bounds>>

(* extract: the guide before the records.  The key has the text's digest.  *)
Current == IF "guide" \in run.left THEN "guide" ELSE "vendored"
ExtractKey == <<"extract", Current, IF Current = "guide" THEN run.sha ELSE 0, run.vocab>>

(* Fault: what is in the cache has been checked. *)
WithUnchecked(answer) ==
  [run EXCEPT !.pc = "extract", !.left = @ \ {Current}, !.answer = <<>>, !.key = <<>>,
              !.items = Filed(@, Current, answer)]

With(answer) ==
  [run EXCEPT !.pc = "extract", !.left = @ \ {Current}, !.answer = <<>>, !.key = <<>>,
              !.items = Filed(@, Current, Quoted(answer, Current, run.edition))]

ExtractCached ==
  /\ run.pc = "extract" /\ run.left # {} /\ ExtractKey \in DOMAIN extracted
  /\ run' = With(extracted[ExtractKey])
  /\ UNCHANGED <<source, caches, files, draft, history, bounds>>

Extract ==
  /\ run.pc = "extract" /\ run.left # {} /\ ExtractKey \notin DOMAIN extracted
  /\ \E answer \in Answers(Current) : Call(ExtractKey, "answered", answer)

(* spend: over the limit, the command ends. *)
Spent(then) == IF run.usd + Price > MaxUsd THEN NoRun ELSE [then EXCEPT !.usd = @ + Price]

(* Fault: the price is looked at before the answer is kept. *)
KeepAnswerPaid ==
  /\ run.pc = "answered"
  /\ run' = Spent(With(run.answer))
  /\ extracted' = IF run' = NoRun THEN extracted ELSE Filed(extracted, run.key, run.answer)
  /\ UNCHANGED <<source, merges, files, draft, history, bounds>>

KeepAnswer ==
  /\ run.pc = "answered"
  /\ extracted' = Filed(extracted, run.key, run.answer)
  /\ run' = Spent(With(run.answer))
  /\ UNCHANGED <<source, merges, files, draft, history, bounds>>

(* _merge: the key is the prompt, with the previous output and what it     *)
(* fails in the round that repairs.                                        *)
MergeKey == <<"merge", run.items, run.vocab, run.prev>>
Merged(answer) == [run EXCEPT !.pc = "check", !.answer = answer, !.key = <<>>]

MergeCached ==
  /\ run.pc = "extract" /\ run.left = {} /\ MergeKey \in DOMAIN merges
  /\ run' = Merged(merges[MergeKey])
  /\ UNCHANGED <<source, caches, files, draft, history, bounds>>

Merge ==
  /\ run.pc = "extract" /\ run.left = {} /\ MergeKey \notin DOMAIN merges
  /\ \E answer \in Merges : Call(MergeKey, "merged", answer)

(* A merge that passes the limit is paid for and not kept. *)
KeepMerge ==
  /\ run.pc = "merged"
  /\ run' = Spent(Merged(run.answer))
  /\ IF run' = NoRun THEN merges' = merges /\ paid' = paid \ {run.key}
     ELSE merges' = Filed(merges, run.key, run.answer) /\ paid' = paid
  /\ UNCHANGED <<source, extracted, files, draft, again, torn, bounds>>

(* _check: the files are read again.  One round repairs what fails; then   *)
(* the conversion table is filled in.                                      *)
Check ==
  /\ run.pc = "check"
  /\ LET layer == ToLayer(run.answer, run.items)
         K == Over(files["authored"], Over(layer, files["other"]))
     IN  run' = IF Problems(K) # {} /\ run.prev = <<>>
                THEN [run EXCEPT !.pc = "extract", !.answer = <<>>, !.prev = <<run.answer, Problems(K)>>]
                ELSE [run EXCEPT !.pc = "write", !.answer = <<>>, !.layer = [layer EXCEPT !.converts = Derived(K)]]
  /\ UNCHANGED <<source, caches, files, draft, history, bounds>>

(* Fault: the draft's problems are those the merge can repair. *)
WriteDraftUnconverted ==
  /\ run.pc = "write" /\ run' = NoRun
  /\ LET K == Over(files["authored"], Over(run.layer, files["other"]))
     IN  draft' = [made |-> TRUE, layer |-> run.layer, edition |-> run.edition, retrieved |-> run.sha, torn |-> torn,
                   problems |-> Problems(K) \cup IF K.maps THEN {} ELSE {<<"alert">>},
                   beside |-> <<files["other"], files["authored"]>>]
  /\ UNCHANGED <<source, caches, files, history, bounds>>

(* The last check is with the hypotheses; write_draft. *)
WriteDraft ==
  /\ run.pc = "write" /\ run' = NoRun
  /\ LET K == Over(files["authored"], Over(run.layer, files["other"]))
     IN  draft' = [made |-> TRUE, layer |-> run.layer, edition |-> run.edition, retrieved |-> run.sha, torn |-> torn,
                   problems |-> AllProblems(K) \cup IF K.maps THEN {} ELSE {<<"alert">>},
                   beside |-> <<files["other"], files["authored"]>>]
  /\ UNCHANGED <<source, caches, files, history, bounds>>

(* A kill, or an exception of the provider: an answer not kept is lost. *)
Stop ==
  /\ run.pc # "idle" /\ stops < MaxStops /\ stops' = stops + 1
  /\ paid' = IF run.pc \in {"answered", "merged"} THEN paid \ {run.key} ELSE paid
  /\ torn' = (torn \/ (run.pc = "meta" /\ meta \notin {0, text}))
  /\ run' = NoRun
  /\ UNCHANGED <<source, caches, files, draft, again, mines, edits>>

-----------------------------------------------------------------------------
(* The web, and the people who keep the knowledge.                         *)

Publish ==
  /\ page = 1 /\ page' = 2
  /\ UNCHANGED <<text, meta, caches, files, draft, run, history, bounds>>

Edited(L) ==
  {[L EXCEPT !.claims = [c \in DOMAIN L.claims \ {d} |-> L.claims[c]]] : d \in DOMAIN L.claims}
  \cup {[L EXCEPT !.claims = (c :> [refined |-> {}, sound |-> TRUE, cites |-> {}]) @@ L.claims,
                  !.listed = @ \cup {c}] : c \in Claim}
  \cup {[L EXCEPT !.converts = (h :> e) @@ L.converts] : h \in Hypotheses, e \in {"known", "declined"}}

Edit ==
  /\ edits < MaxEdits /\ edits' = edits + 1
  /\ \E f \in DOMAIN files : \E L \in Edited(files[f]) : files' = [files EXCEPT ![f] = L]
  /\ UNCHANGED <<source, caches, draft, run, history, mines, stops>>

MiningNext ==
  \/ \E refresh \in BOOLEAN : Mine(refresh)
  \/ FetchCached \/ FetchText \/ FetchMeta
  \/ ExtractCached \/ Extract \/ KeepAnswer
  \/ MergeCached \/ Merge \/ KeepMerge
  \/ Check \/ WriteDraft \/ Stop
  \/ Publish \/ Edit

MiningSpec == MiningInit /\ [][MiningNext]_miningVars

-----------------------------------------------------------------------------
(* Properties.                                                             *)

(* mine.py "every item carries a verbatim quote from its source": whatever *)
(* the models invent and the caches hold, each citation of a draft is a    *)
(* passage of the text that was read, and that is the text of the date the *)
(* draft gives unless a refresh was stopped between a source's two files.  *)
QuotesHold ==
  draft.made =>
    /\ \A c \in DOMAIN draft.layer.claims :
         \A q \in draft.layer.claims[c].cites : q[2] \in Says(q[1], draft.edition)
    /\ draft.edition # draft.retrieved => draft.torn

(* extract, _merge: a call that was answered is not made again, over any   *)
(* runs, refreshes and limits -- unless the answer was lost to a stop, or  *)
(* was a merge that passed the limit.                                      *)
PaidOnce == ~again

(* _check "the draft in place", `lookup`: a draft without problems, copied *)
(* as it is while the files beside it stay, builds -- unless it defines a  *)
(* name that another mined file defines -- and the agent is offered what   *)
(* became of each hypothesis of the alert that was not declined, although  *)
(* `lookup` shows the alert's own record no more.                          *)
DraftBuilds ==
  draft.made /\ draft.problems = {} /\ draft.beside = <<files["other"], files["authored"]>>
    /\ ~Clash(draft.layer, files["other"])
    => LET K == Over(files["authored"], Over(draft.layer, files["other"]))
       IN  Builds(draft.layer) /\ \A h \in Hypotheses : K.converts[h] \in {"declined"} \cup Offered(K)

=============================================================================
