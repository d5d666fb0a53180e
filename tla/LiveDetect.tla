----------------------------- MODULE LiveDetect -----------------------------
(***************************************************************************)
(* The detector of the live overlay (live-browser.js) and the project's    *)
(* waivers that a scan of a page takes along (live-browser-ignores.js).    *)
(* The page knows its URL only, waivers name files of the project, and the *)
(* badge has to show what the command line tool would say of the page's    *)
(* own file.  A path is a sequence of segments; a glob is a head and, when *)
(* "deep", anything below it ("head/**").  Every page has one finding, of  *)
(* one rule and one value.  The detector script, the web server and the    *)
(* command line tool are external.  The switch does nothing while copy     *)
(* edits are applied: such clicks are left out.                            *)
(***************************************************************************)
EXTENDS Integers, Sequences, FiniteSets
LOCAL INSTANCE SequencesExt

CONSTANTS Dirs,         \* names of directories
          MaxPages,     \* pages the project serves
          MaxScans,     \* scans requested
          MaxVisits     \* client-side navigations

ASSUME DetectBounds == MaxPages > 0 /\ MaxScans > 0 /\ MaxVisits \in Nat

VARIABLES site,     \* where the pages are, how they are served, the waiver of the configuration
          detect,   \* the overlay's detector, and the page its last scan was asked on
          wire      \* the detector script and the messages between it and the overlay

detectVars == <<site, detect, wire>>

Index == "index"
DirPaths == {<<>>} \cup {<<d>> : d \in Dirs} \cup {<<d, e>> : d, e \in Dirs}
Files == {d \o <<Index>> : d \in DirPaths}
Ancestors(path) == {SubSeq(path, 1, n) : n \in 0..(Len(path) - 1)}
Globs == {[head |-> f, deep |-> FALSE] : f \in Files} \cup {[head |-> d, deep |-> TRUE] : d \in DirPaths}

\* A waiver: a rule everywhere, whole files, a rule ("wildcard") or a value in files or everywhere;
\* of the scoped ones, values name a file and the others a directory.
Waivers == {[kind |-> "rule", files |-> {}], [kind |-> "value", files |-> {}],
            [kind |-> "wildcard", files |-> {}]}
             \cup {w \in [kind : {"file", "wildcard", "value"}, files : {{g} : g \in Globs}] :
                     \A g \in w.files : w.kind = "value" <=> ~g.deep}

----------------------------------------------------------------------------
(* Which files the page can be, and what is waived there.                  *)

\* globToRegex(), on whole segments.
GlobMatches(g, path) == IF g.deep THEN IsStrictPrefix(g.head, path) ELSE path = g.head

\* matchesScope()
MatchesScope(globs, candidates) == \E g \in globs, c \in candidates : GlobMatches(g, c)

\* addSuffixes()
PathSuffixes(path) == {SubSeq(path, i, Len(path)) : i \in 1..Len(path)}

\* A URL that ends in a slash serves the directory's index.
PagePath(url) == IF url.slash THEN url.path \o <<Index>> ELSE url.path

\* The deepest common ancestor of the served roots.
CommonRoot(roots) == LongestCommonPrefix(roots)

\* Mutant: each root is taken for the one the page is served from.
CandidatesOfRoots(url, roots, pages) ==
    LET page == PagePath(url)
    IN  PathSuffixes(page) \cup UNION {PathSuffixes(r \o page) : r \in roots}

\* pageCandidates(): the one listed page that ends like the URL, or the page under the common root.
PageCandidates(url, roots, pages) ==
    LET page  == PagePath(url)
        known == {f \in pages : IsSuffix(page, f)}
        whole == IF Cardinality(known) = 1 THEN CHOOSE f \in known : TRUE
                 ELSE CommonRoot(roots) \o page
    IN  PathSuffixes(page) \cup PathSuffixes(whole)

\* resolveDetectIgnores(), for the candidates of a page.
ResolveIgnores(w, candidates) ==
    LET applies == MatchesScope(w.files, candidates)
    IN  [skipScan       |-> w.kind = "file" /\ applies,
         disabledRules  |-> w.kind = "rule" \/ (w.kind = "wildcard" /\ applies),
         disabledValues |-> w.kind = "value" /\ (w.files = {} \/ applies)]

\* The detector's answer to a scan with these waivers.
Findings(ignores) == IF ignores.skipScan \/ ignores.disabledRules \/ ignores.disabledValues THEN 0 ELSE 1

----------------------------------------------------------------------------
(* The overlay.  Scans are numbered from 1; 0 is no scan.                  *)

\* The URL a file has under the document root.
UrlOf(file, slash) ==
    LET path == SubSeq(file, Len(site.docroot) + 1, Len(file))
    IN  [slash |-> slash, path |-> IF slash THEN Front(path) ELSE path]

\* requestDetectScan()
RequestScan(d) == [d EXCEPT !.seq = @ + 1, !.activeScan = d.seq + 1, !.pending = d.seq + 1,
                                !.asked = site.open]

\* The message of requestDetectScan(): the waivers resolved against the page's URL.
ScanOf(id) ==
    [id |-> id,
     ignores |-> ResolveIgnores(site.waiver,
                     PageCandidates(UrlOf(site.open, site.slash), site.roots, site.pages))]

\* toggleDetect() and loadDetectScript()
ToggleDetect ==
    /\ detect.seq < MaxScans \/ detect.active
    /\ IF detect.active
       THEN /\ detect' = [detect EXCEPT !.active = FALSE, !.activeScan = 0, !.pending = 0, !.count = 0]
            /\ UNCHANGED wire
       ELSE IF detect.loaded /\ detect.ready
       THEN /\ detect' = RequestScan([detect EXCEPT !.active = TRUE])
            /\ wire' = [wire EXCEPT !.scans = @ \cup {ScanOf(detect.seq + 1)}]
       ELSE /\ detect' = [detect EXCEPT !.active = TRUE, !.pendingScan = TRUE, !.loaded = TRUE]
            /\ wire' = IF detect.loaded THEN wire ELSE [wire EXCEPT !.script = "loading"]
    /\ UNCHANGED site

\* onDetectMessage(), for 'impeccable-ready'.
DetectorReady ==
    LET d == [detect EXCEPT !.ready = TRUE]
    IN  /\ wire.script = "announced"
        /\ IF d.pendingScan /\ d.active
           THEN /\ detect' = RequestScan([d EXCEPT !.pendingScan = FALSE])
                /\ wire' = [wire EXCEPT !.script = "up", !.scans = @ \cup {ScanOf(d.seq + 1)}]
           ELSE detect' = d /\ wire' = [wire EXCEPT !.script = "up"]
        /\ UNCHANGED site

\* Mutant: any result is shown while the detector is on.
AcceptsAny(d, id) == d.active

\* The early returns of onDetectMessage() for 'impeccable-results'.
AcceptsResult(d, id) == d.active /\ (d.activeScan = 0 \/ id = d.activeScan)

\* onDetectMessage(), for 'impeccable-results'.
ResultsArrive ==
    \E s \in wire.results :
        /\ detect' = IF AcceptsResult(detect, s.id)
                     THEN [detect EXCEPT !.count = Findings(s.ignores), !.pending = 0]
                     ELSE detect
        /\ wire' = [wire EXCEPT !.results = @ \ {s}]
        /\ UNCHANGED site

\* The script runs, or cannot be fetched.
ScriptLoads ==
    /\ wire.script = "loading"
    /\ \E outcome \in {"announced", "failed"} : wire' = [wire EXCEPT !.script = outcome]
    /\ UNCHANGED <<site, detect>>

\* The detector finishes a scan, in any order.
ScanEnds ==
    /\ \E s \in wire.scans : wire' = [wire EXCEPT !.scans = @ \ {s}, !.results = @ \cup {s}]
    /\ UNCHANGED <<site, detect>>

\* The page changes its URL without a reload, to one with the file's name or to its directory's.
Navigate ==
    /\ site.visits < MaxVisits
    /\ \E f \in site.files \ {site.open} : site' = [site EXCEPT !.open = f, !.slash = ~@, !.visits = @ + 1]
    /\ UNCHANGED <<detect, wire>>

\* The pages, the roots their globs start at, and a document root at or above all of them.
Sites ==
    {s \in UNION {[files : {fs}, roots : {{r[f] : f \in fs} : r \in [fs -> DirPaths]},
                   docroot : DirPaths, pages : {{}, fs}, open : fs, slash : {TRUE},
                   waiver : Waivers, visits : {0}] :
                  fs \in {x \in SUBSET Files : Cardinality(x) \in 1..MaxPages}} :
       /\ \A f \in s.files : \E r \in s.roots : r \in Ancestors(f)
       /\ \A r \in s.roots : \E f \in s.files : r \in Ancestors(f)
       /\ IsPrefix(s.docroot, CommonRoot(s.roots))}

InitDetect ==
    /\ site \in Sites
    /\ detect = [active |-> FALSE, loaded |-> FALSE, ready |-> FALSE, pendingScan |-> FALSE, seq |-> 0,
                 activeScan |-> 0, pending |-> 0, count |-> 0, asked |-> site.open]
    /\ wire = [script |-> "none", scans |-> {}, results |-> {}]

NextDetect == ToggleDetect \/ DetectorReady \/ ResultsArrive \/ ScriptLoads \/ ScanEnds \/ Navigate

----------------------------------------------------------------------------

\* What findingMatchesScopedIgnoreFile() of the command line tool matches the globs with.
Reported(file) == Findings(ResolveIgnores(site.waiver, PathSuffixes(file)))

\* The page's file is certain: its URL ends like one listed page only, or the document root is the
\* root the overlay asserts. Otherwise the code's "ambiguity resolves toward showing the finding"
\* (ignores.js:145) is not kept: with the pages a/index and a/a/index served from above a, the URL
\* /a/ ends like both, is taken for a/a/index, and a waiver of a/a hides the finding of a/index.
Certain(file) ==
    \/ site.docroot = CommonRoot(site.roots)
    \/ Cardinality({f \in site.pages : IsSuffix(PagePath(UrlOf(file, site.slash)), f)}) = 1

\* The overlay "suppresses the same findings the CLI and the edit hook do": a badge that is not
\* waiting shows, for the page its last scan was asked on, what the command line tool reports of that
\* page's own file, whatever was switched, answered late or navigated to in between; and once the
\* script is up and nothing is in flight a detector that is on has its answer.
DetectTrue ==
    /\ (detect.active /\ detect.activeScan # 0 /\ detect.pending = 0 /\ Certain(detect.asked))
         => detect.count = Reported(detect.asked)
    /\ (detect.active /\ wire.script = "up" /\ wire.scans = {} /\ wire.results = {})
         => detect.activeScan # 0 /\ detect.pending = 0
=============================================================================
