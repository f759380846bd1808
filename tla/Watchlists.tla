----------------------------- MODULE Watchlists -----------------------------
(* One owner's watchlist, in memory and each call under one lock.  An import *)
(* is classified row by row, shown to its owner, and approved later against  *)
(* a watchlist that other imports may have changed in the meantime;          *)
(* suggestions put members into groups, and a group, or everything, is       *)
(* frozen into the universe of a scan.  A call of another actor, or without  *)
(* approval, is refused and changes nothing.                                 *)
EXTENDS Naturals, Sequences, FiniteSets

CONSTANTS
  Stocks, Groups, ImportKeys, SuggestionKeys,
  Sources,         \* what an import adds to a member: its provenance, tags and
                   \* notes, three sets that are merged in the same way
  ParsedRows,      \* rows as the caller parses them, of ImportRow
  MaxRows,         \* bound: rows of one import
  MaxClassified,   \* bound: imports that wait for approval
  MaxSnapshots,    \* bound: universes frozen
  NoStock, NoImport

VARIABLES
  members,        \* _memberships, by security
  groups,         \* _groups, those created
  importReceipts, \* _commands
  groupReceipts,  \* _classification_commands
  snapshots,      \* _snapshots
  classified      \* classifications callers hold, with what they will approve
watchlistVars == <<members, groups, importReceipts, groupReceipts, snapshots, classified>>

ImportStatus == {"accepted", "ambiguous", "duplicate", "rejected"}
ImportRow == [security : Stocks \cup {NoStock}, status : ImportStatus]
Rows == UNION {[1..n -> ImportRow] : n \in 1..MaxRows}
Import == [rows : Rows, source : Sources]
Membership == SUBSET Sources
Suggestion == [security : Stocks, proposed : Groups, selected : Groups]

\* A parser says of a row what the import may say; no receipt is no import.
ASSUME WatchlistsAssumption == ParsedRows \subseteq ImportRow /\ NoImport \notin Import

WatchlistsTypeOK ==
  /\ DOMAIN members \subseteq Stocks /\ \A s \in DOMAIN members : members[s] \in Membership
  /\ DOMAIN groups \subseteq Groups /\ \A g \in DOMAIN groups : groups[g] \subseteq Stocks
  /\ importReceipts \in [ImportKeys -> Import \cup {NoImport}]
  /\ groupReceipts \in [SuggestionKeys -> Suggestion \cup {NoImport}]
  /\ snapshots \subseteq [group : Groups \cup {NoStock}, ids : SUBSET Stocks]
  /\ classified \subseteq Import

WatchlistsInit ==
  /\ members = [s \in {} |-> NoImport]
  /\ groups = [g \in {} |-> {}]
  /\ importReceipts = [k \in ImportKeys |-> NoImport]
  /\ groupReceipts = [k \in SuggestionKeys |-> NoImport]
  /\ snapshots = {}
  /\ classified = {}

(* classify_import: a row that names no security is rejected, and one that   *)
(* is a member, or was accepted further up, is a duplicate.                  *)
Accepts(row) == row.status = "accepted" /\ row.security # NoStock
Classify(rows) == [i \in DOMAIN rows |-> [rows[i] EXCEPT !.status =
  IF @ # "accepted" THEN @
  ELSE IF rows[i].security = NoStock THEN "rejected"
  ELSE IF \/ rows[i].security \in DOMAIN members
          \/ \E j \in 1..(i - 1) : Accepts(rows[j]) /\ rows[j].security = rows[i].security
  THEN "duplicate" ELSE "accepted"]]

ValidateImport(rows, source) ==
  /\ Cardinality(classified) < MaxClassified
  /\ classified' = classified \cup {[rows |-> Classify(rows), source |-> source]}
  /\ UNCHANGED <<members, groups, importReceipts, groupReceipts, snapshots>>

(* Accepted and duplicate rows are merged into what is there by then.        *)
Importable(import) == {import.rows[i] : i \in DOMAIN import.rows}
                        \cap [security : Stocks \cup {NoStock}, status : {"accepted", "duplicate"}]
ImportedStocks(import) == {row.security : row \in Importable(import)}

\* Variant of Merged that replaces what an earlier import said.
Replaced(import) == [s \in DOMAIN members \cup ImportedStocks(import) |->
  IF s \in ImportedStocks(import) THEN {import.source} ELSE members[s]]

Merged(import) == [s \in DOMAIN members \cup ImportedStocks(import) |->
  (IF s \in DOMAIN members THEN members[s] ELSE {})
    \cup (IF s \in ImportedStocks(import) THEN {import.source} ELSE {})]

(* The rows are staged, so one importable row without a security refuses the *)
(* whole import.  A key that was used returns what it did or is a conflict.  *)
ApproveImport(k, import) ==
  /\ importReceipts[k] = NoImport
  /\ NoStock \notin ImportedStocks(import)
  /\ members' = Merged(import)
  /\ importReceipts' = [importReceipts EXCEPT ![k] = import]
  /\ UNCHANGED <<groups, groupReceipts, snapshots, classified>>

(* An existing group is replaced by an empty one of the same name.           *)
CreateGroup(g) ==
  /\ groups' = [h \in DOMAIN groups \cup {g} |-> IF h = g THEN {} ELSE groups[h]]
  /\ UNCHANGED <<members, importReceipts, groupReceipts, snapshots, classified>>

(* The owner may choose another group than the proposed one.                 *)
AcceptSuggestion(k, s, proposed, selected) ==
  /\ groupReceipts[k] = NoImport
  /\ s \in DOMAIN members
  /\ selected \in DOMAIN groups
  /\ groups' = [groups EXCEPT ![selected] = @ \cup {s}]
  /\ groupReceipts' = [groupReceipts EXCEPT ![k] =
       [security |-> s, proposed |-> proposed, selected |-> selected]]
  /\ UNCHANGED <<members, importReceipts, snapshots, classified>>

(* An empty universe is not frozen.                                          *)
FreezeUniverse(g) ==
  LET ids == IF g = NoStock THEN DOMAIN members ELSE groups[g] IN
    /\ ids # {}
    /\ Cardinality(snapshots) < MaxSnapshots
    /\ snapshots' = snapshots \cup {[group |-> g, ids |-> ids]}
    /\ UNCHANGED <<members, groups, importReceipts, groupReceipts, classified>>

CallerRows == UNION {[1..n -> ParsedRows] : n \in 1..MaxRows}

WatchlistsNext ==
  \/ \E rows \in CallerRows, source \in Sources : ValidateImport(rows, source)
  \/ \E k \in ImportKeys, import \in classified : ApproveImport(k, import)
  \/ \E g \in Groups : CreateGroup(g)
  \/ \E k \in SuggestionKeys, s \in Stocks, p, g \in Groups : AcceptSuggestion(k, s, p, g)
  \/ \E g \in DOMAIN groups \cup {NoStock} : FreezeUniverse(g)

WatchlistsSpec == WatchlistsInit /\ [][WatchlistsNext]_watchlistVars

--------------------------------------------------------------------------
(* The watchlist is exactly what the approved imports said, whatever order   *)
(* they were approved in, however often, and however old the classification  *)
(* the owner was shown: no security, tag or source is lost or invented.      *)
Approved == {importReceipts[k] : k \in ImportKeys} \ {NoImport}
MembersAreImports ==
  /\ DOMAIN members = UNION {ImportedStocks(i) : i \in Approved}
  /\ \A s \in DOMAIN members : members[s] = {i.source : i \in {j \in Approved : s \in ImportedStocks(j)}}
=============================================================================
