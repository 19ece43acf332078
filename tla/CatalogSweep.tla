----------------------------- MODULE CatalogSweep -----------------------------
(***************************************************************************)
(* The full pass over the public catalogue (jobs/full_sync.py, CatalogScan of *)
(* services/sync_outcomes.py).  It reads the catalogue page by page, processes  *)
(* each release it has not met yet, and in the end marks what it has never met  *)
(* as absent: only if the pages fitted together and nothing failed.            *)
(*                                                                         *)
(* A release stands for its torrents, which other jobs archive at any time.    *)
(* The catalogue starts with the release that changed last; one answer of the   *)
(* site is true of one moment, and has meta.pagination.                        *)
(*                                                                         *)
(* A definition that nothing uses is a plausible fault of the one it stands  *)
(* before; PROJECT.json names the property that notices each of them.        *)
(***************************************************************************)
EXTENDS Naturals, SequencesExt

CONSTANTS
    Releases,
    PageSize,
    MaxShifts,       \* bound on the changes of the catalogue and of its order
    MaxScanFaults    \* bound on calls that fail and jobs that are stopped

ASSUME PageAssumption == PageSize \in Nat \ {0} /\ IsFiniteSet(Releases)

VARIABLES
    catalog,     \* the releases, in the order of the pages
    apiPresent,  \* releases with api_present torrents
    scan,        \* where the pass is
    page,        \* the page it reads next
    pages,       \* total_pages: when the loop ends
    total,       \* CatalogScan.total: {} before the first page, then {n}
    met,         \* CatalogScan.seen
    batch,       \* releases of the page that are still to be processed
    swept,       \* releases with torrents in seen_torrent_ids
    complete,    \* CatalogScan.complete
    failures,    \* current_outcome has a failure
    arrived,     \* releases that were published since the pass began
    withdrawn,   \* releases that were withdrawn since
    shifts, faults

scanVars == <<page, pages, total, met, batch, swept, complete, failures>>
pastVars == <<arrived, withdrawn, shifts, faults>>
catVars == <<catalog, apiPresent, scan, scanVars, pastVars>>

InCatalog == {catalog[i] : i \in DOMAIN catalog}

CatInit ==
    /\ \E S \in SUBSET Releases : catalog = SetToSeq(S) /\ apiPresent = S
    /\ scan = "idle"
    /\ page = 1 /\ pages = 1 /\ total = {} /\ met = {} /\ batch = {}
    /\ swept = {} /\ complete = FALSE /\ failures = FALSE
    /\ arrived = {} /\ withdrawn = {} /\ shifts = 0 /\ faults = 0

-----------------------------------------------------------------------------
(* The site and the other jobs.                                             *)

PlaceOf(r) == CHOOSE i \in DOMAIN catalog : catalog[i] = r
Without(r) == IF r \in InCatalog THEN RemoveAt(catalog, PlaceOf(r)) ELSE catalog

\* A release changes and comes first.
Touch(r) ==
    /\ r \in InCatalog /\ catalog' = <<r>> \o Without(r)
    /\ UNCHANGED <<arrived, withdrawn>>

Enlist(r) ==
    /\ r \notin InCatalog /\ catalog' = <<r>> \o catalog
    /\ arrived' = IF scan = "idle" THEN arrived ELSE arrived \cup {r}
    /\ UNCHANGED withdrawn
Delist(r) ==
    /\ r \in InCatalog /\ catalog' = Without(r)
    /\ withdrawn' = IF scan = "idle" THEN withdrawn ELSE withdrawn \cup {r}
    /\ UNCHANGED arrived

\* Bound: MaxShifts changes in all.
Shift(r) ==
    /\ shifts < MaxShifts /\ shifts' = shifts + 1
    /\ Touch(r) \/ Enlist(r) \/ Delist(r)
    /\ catalog' # catalog
    /\ UNCHANGED <<apiPresent, scan, scanVars, faults>>

\* ongoing, or a webhook: it archives what is there.
ArchiveOther(r) ==
    /\ r \in InCatalog \ apiPresent
    /\ apiPresent' = apiPresent \cup {r}
    /\ UNCHANGED <<catalog, scan, scanVars, pastVars>>

-----------------------------------------------------------------------------
(* The pass.                                                                *)

BeginScan ==
    /\ scan = "idle"
    /\ scan' = "page"
    /\ page' = 1 /\ pages' = 1 /\ total' = {} /\ met' = {} /\ batch' = {}
    /\ swept' = {} /\ complete' = FALSE /\ failures' = FALSE
    /\ UNCHANGED <<catalog, apiPresent, pastVars>>

\* What the site answers for page n.
TotalPages == IF catalog = <<>> THEN 1 ELSE (Len(catalog) + PageSize - 1) \div PageSize
ItemsOf(n) == {catalog[i] : i \in DOMAIN catalog \cap ((n - 1) * PageSize + 1 .. n * PageSize)}

FitsRounded(ids) == TotalPages = Len(catalog) \div PageSize + 1
\* The page agrees with itself and with those before it.
FitsPages(ids) ==
    /\ page <= TotalPages
    /\ met \cap ids = {}
    /\ total \subseteq {Len(catalog)}
    /\ Cardinality(met \cup ids) <= Len(catalog)
    /\ page = TotalPages => Cardinality(met \cup ids) = Len(catalog)

\* accept: a page that does not fit is still processed, but it is the last.
ReadPage ==
    LET ids == ItemsOf(page)
    IN /\ scan = "page" /\ page <= pages
       /\ batch' = ids \ met
       /\ met' = met \cup ids
       /\ IF FitsPages(ids)
          THEN /\ total' = {Len(catalog)} /\ pages' = TotalPages
               /\ complete' = (page = TotalPages)
               /\ UNCHANGED failures
          ELSE /\ complete' = FALSE /\ failures' = TRUE /\ pages' = page
               /\ UNCHANGED total
       /\ page' = page + 1
       /\ scan' = "work"
       /\ UNCHANGED <<catalog, apiPresent, swept, pastVars>>

Fault == faults < MaxScanFaults /\ faults' = faults + 1

\* The catalogue cannot be read: the pass goes on to its end.
MissPage ==
    /\ scan = "page" /\ page <= pages /\ Fault
    /\ failures' = TRUE
    /\ scan' = "end"
    /\ UNCHANGED <<catalog, apiPresent, page, pages, total, met, batch, swept, complete, arrived, withdrawn, shifts>>

\* process_release: the site's own answer for the release decides.  Without one
\* the release counts as failed, and what is archived is left alone.  In which
\* order a page is processed is left open.
ProcessNext ==
    /\ scan = "work"
    /\ \E r \in batch :
       /\ batch' = batch \ {r}
       /\ \/ /\ apiPresent' = IF r \in InCatalog THEN apiPresent \cup {r} ELSE apiPresent \ {r}
             /\ swept' = swept \cup ({r} \cap apiPresent')
             /\ UNCHANGED <<failures, faults>>
          \/ /\ r \in InCatalog => Fault
             /\ r \notin InCatalog => UNCHANGED faults
             /\ failures' = TRUE
             /\ UNCHANGED <<apiPresent, swept>>
    /\ UNCHANGED <<catalog, scan, page, pages, total, met, complete, arrived, withdrawn, shifts>>

NextPage ==
    /\ scan = "work" /\ batch = {}
    /\ scan' = IF page <= pages THEN "page" ELSE "end"
    /\ UNCHANGED <<catalog, apiPresent, scanVars, pastVars>>

MaySweepAnyway == swept # {}
MaySweep == complete /\ ~failures /\ swept # {}

\* mark_missing_api_present_false, after the pass over the admin site.
Sweep ==
    /\ scan = "end"
    /\ apiPresent' = IF MaySweep THEN apiPresent \cap swept ELSE apiPresent
    /\ scan' = "idle" /\ arrived' = {} /\ withdrawn' = {}
    /\ UNCHANGED <<catalog, scanVars, shifts, faults>>

\* The job is stopped or dies; nothing is swept.
BreakOff ==
    /\ scan # "idle" /\ Fault
    /\ scan' = "idle" /\ arrived' = {} /\ withdrawn' = {}
    /\ UNCHANGED <<catalog, apiPresent, scanVars, shifts>>

-----------------------------------------------------------------------------
ScanStep == BeginScan \/ ReadPage \/ ProcessNext \/ NextPage \/ Sweep

CatNext ==
    \/ ScanStep \/ MissPage \/ BreakOff
    \/ \E r \in Releases : Shift(r) \/ ArchiveOther(r)

CatSpec == CatInit /\ [][CatNext]_catVars

\* The pass is started again and again.
CatFairness == WF_catVars(ScanStep)

-----------------------------------------------------------------------------
(* Properties.                                                              *)

CatTypeOK ==
    /\ catalog \in Seq(Releases) /\ IsInjective(catalog)
    /\ apiPresent \subseteq Releases
    /\ scan \in {"idle", "page", "work", "end"}
    /\ page \in Nat \ {0} /\ pages \in Nat \ {0}
    /\ total \subseteq Nat /\ (complete => Cardinality(met) \in total)
    /\ met \subseteq Releases /\ batch \subseteq met /\ swept \subseteq met
    /\ complete \in BOOLEAN /\ failures \in BOOLEAN
    /\ arrived \subseteq Releases /\ withdrawn \subseteq Releases

\* While the pass reads, the catalogue only grows or only shrinks.  A publication
\* and a withdrawal together leave it as long as it was, and the checks of a page
\* only count: then the pass may meet a release twice, or never.
OneWay == arrived = {} \/ withdrawn = {}

\* What the catalogue lists is never marked as absent, but for what was published
\* meanwhile, although releases change and come first while the pass reads, so
\* that it never meets some, others are published or withdrawn (not both in one
\* pass), calls fail and the pass breaks off (CatalogScan).
NoFalseAbsence ==
    [][\A r \in apiPresent \ apiPresent' : OneWay => r \notin InCatalog \/ r \in arrived]_catVars

\* Once the catalogue changes no more, what is not in it is marked as absent and
\* the rest as present: the checks do not reject a catalogue that fits, whatever
\* its length; an empty one is never believed (full_sync).
SweepCatchesUp == <>[](apiPresent = InCatalog \/ catalog = <<>>)
=============================================================================
