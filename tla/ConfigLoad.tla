----------------------------- MODULE ConfigLoad -----------------------------
(***************************************************************************)
(* Load of pkg/server/config/loading.go: the defaults are merged into the  *)
(* user's map (see ConfigMerge), and the result is decoded twice, first to *)
(* reject unused keys, then for good.  What of it looks outside of the     *)
(* process is the decoding of ca_certs in x509_models.go, with files that  *)
(* may change while it is under way.                                       *)
(*                                                                         *)
(* The value of "sites" is a list of sites, and of a site only its         *)
(* ca_certs matters.  PEM texts have names; Pem gives the valid            *)
(* certificates in each, none if AppendCertsFromPEM finds none.            *)
(***************************************************************************)
EXTENDS ConfigMerge, Naturals

CONSTANTS
  Null,        \* a key without a value
  Scalar,      \* a value that is neither a list nor a map
  Paths,       \* the files that entries may name
  Pem,         \* the texts of entries and files, and the certificates in them
  Unreadable,  \* what a file holds that cannot be read
  Missing,     \* what a path holds that is no file
  SystemCerts, \* the certificates of the system's pool
  MaxChanges   \* bound: how often files change

TLSCACertsSystem == "system"
NotAString == "not a string"

PemTexts == DOMAIN Pem
Contents == PemTexts \cup {Unreadable, Missing}
Entries == Paths \cup PemTexts \cup {TLSCACertsSystem, NotAString}

ASSUME EntriesAssumption ==
  /\ {TLSCACertsSystem, NotAString} \cap (Paths \cup PemTexts) = {}
  /\ Paths \cap PemTexts = {}
  /\ {Unreadable, Missing} \cap PemTexts = {}
  /\ MaxChanges \in Nat

VARIABLES
  unused,  \* does the configuration have a key that is not known
  system,  \* can the system's pool be fetched
  files,   \* what is at each path
  pc,      \* "merge", "decode", "types", "scan", "stat", "read", "loaded" or "error"
  pass,    \* the first or the second Decode
  idx,     \* the entry the loop is at
  pool,    \* the CertPool of this pass
  changes, \* how often files have changed
  changed, \* history: the paths that changed since this pass began
  held     \* history: what each path has held since Load began

world == <<unused, system>>
disk == <<files, changes, changed, held>>
loadVars == <<mergeVars, world, disk, pc, pass, idx, pool>>

LoadInit(hasUnused, hasSystem, contents) ==
  /\ unused = hasUnused /\ system = hasSystem /\ files = contents
  /\ pc = "merge" /\ pass = 1 /\ idx = 1
  /\ pool = {}
  /\ changes = 0
  /\ changed = {}
  /\ held = [p \in Paths |-> {files[p]}]

-----------------------------------------------------------------------------
(* Load.                                                                   *)

Merge ==
  /\ pc = "merge"
  /\ MergeKey
  /\ UNCHANGED <<world, disk, pc, pass, idx, pool>>

MergeDone ==
  /\ pc = "merge" /\ todo = {}
  /\ pc' = "decode"
  /\ UNCHANGED <<mergeVars, world, disk, pass, idx, pool>>

\* The value of a key; a key without one is decoded as if it were not there.
Value(path) == IF path \in DOMAIN right THEN right[path] ELSE Null
List(path) == IF Value(path) \in {Null, Map, Scalar} THEN <<>> ELSE right[path]

\* mapstructure decodes a map of lists and a list, and nothing else for them.
WellShaped ==
  /\ Value(<<"proxychains">>) \in {Map, Null}
  /\ \A path \in KeysOf(right, <<"proxychains">>) : right[path] \notin {Map, Scalar}
  /\ Value(<<"sites">>) \notin {Map, Scalar}

Sites == List(<<"sites">>)
list == IF Sites = <<>> THEN <<>> ELSE Sites[1]

\* Each pass decodes a map of chains, and then a site, if there is one.
DecodeMaps ==
  /\ pc = "decode"
  /\ pc' = IF ~WellShaped THEN "error" ELSE IF Sites = <<>> THEN "stat" ELSE "types"
  /\ UNCHANGED <<mergeVars, world, disk, pass, idx, pool>>

\* The first Decode is over: unused keys are an error.  The second one begins
\* with a new Config.
FirstPassDone ==
  /\ pc = "stat" /\ idx > Len(list) /\ pass = 1
  /\ IF unused THEN pc' = "error" /\ UNCHANGED <<pass, idx, pool, changed>>
     ELSE pass' = 2 /\ idx' = 1 /\ pool' = {} /\ changed' = {} /\ pc' = "decode"
  /\ UNCHANGED <<mergeVars, world, files, changes, held>>

Loaded ==
  /\ pc = "stat" /\ idx > Len(list) /\ pass = 2
  /\ pc' = "loaded"
  /\ UNCHANGED <<mergeVars, world, disk, pass, idx, pool>>

-----------------------------------------------------------------------------
(* TLSCertificatePool.MapStructureDecode.                                  *)

\* The whole list is checked before anything of it is used.
CheckTypes ==
  /\ pc = "types"
  /\ pc' = IF NotAString \in Range(list) THEN "error" ELSE "scan"
  /\ UNCHANGED <<mergeVars, world, disk, pass, idx, pool>>

\* "system" anywhere in the list; a pool that cannot be fetched is only a warning.
Prescan ==
  /\ pc = "scan"
  /\ pool' = IF TLSCACertsSystem \in Range(list) /\ system THEN SystemCerts ELSE {}
  /\ pc' = "stat"
  /\ UNCHANGED <<mergeVars, world, disk, pass, idx>>

Looping == pc = "stat" /\ idx <= Len(list)

\* A mutant: break instead of continue.
SkipSystemBreaks ==
  /\ Looping /\ list[idx] = TLSCACertsSystem
  /\ idx' = Len(list) + 1
  /\ UNCHANGED <<mergeVars, world, disk, pc, pass, pool>>

SkipSystem ==
  /\ Looping /\ list[idx] = TLSCACertsSystem
  /\ idx' = idx + 1
  /\ UNCHANGED <<mergeVars, world, disk, pc, pass, pool>>

\* os.Stat finds a file; reading it is another system call.
Stat ==
  /\ Looping /\ list[idx] \in Paths /\ files[list[idx]] # Missing
  /\ pc' = "read"
  /\ UNCHANGED <<mergeVars, world, disk, pass, idx, pool>>

\* A mutant: the loop goes on after an entry without certificates.
AppendCertsOrSkip(text) ==
  pool' = pool \cup Pem[text] /\ idx' = idx + 1 /\ pc' = "stat"

\* AppendCertsFromPEM fails if there was no certificate at all.
AppendCerts(text) ==
  IF Pem[text] = {} THEN pc' = "error" /\ UNCHANGED <<pool, idx>>
  ELSE pool' = pool \cup Pem[text] /\ idx' = idx + 1 /\ pc' = "stat"

\* The file may be another one by now, or gone.
ReadFile ==
  /\ pc = "read"
  /\ LET text == files[list[idx]]
     IN  IF text \in PemTexts THEN AppendCerts(text)
         ELSE pc' = "error" /\ UNCHANGED <<pool, idx>>
  /\ UNCHANGED <<mergeVars, world, disk, pass>>

Inline ==
  /\ Looping /\ list[idx] \in PemTexts
  /\ AppendCerts(list[idx])
  /\ UNCHANGED <<mergeVars, world, disk, pass>>

\* A path that is no file is taken for a PEM text, in which there is no certificate.
InlinePath ==
  /\ Looping /\ list[idx] \in Paths /\ files[list[idx]] = Missing
  /\ pc' = "error"
  /\ UNCHANGED <<mergeVars, world, disk, pass, idx, pool>>

-----------------------------------------------------------------------------

\* Somebody renews a certificate, or removes it.  Only files that the list names
\* matter, and only while they may be read.
ChangeFile ==
  /\ changes < MaxChanges /\ pc \notin {"merge", "loaded", "error"}
  /\ \E p \in Paths \cap Range(list), content \in Contents :
       /\ content # files[p]
       /\ files' = [files EXCEPT ![p] = content]
       /\ changed' = changed \cup {p}
       /\ held' = [held EXCEPT ![p] = @ \cup {content}]
  /\ changes' = changes + 1
  /\ UNCHANGED <<mergeVars, world, pc, pass, idx, pool>>

Load ==
  \/ Merge \/ MergeDone \/ DecodeMaps \/ FirstPassDone \/ Loaded
  \/ CheckTypes \/ Prescan \/ SkipSystem \/ Stat \/ ReadFile \/ Inline \/ InlinePath
  \/ ChangeFile

-----------------------------------------------------------------------------
(* Properties.                                                             *)

\* What an entry has stood for since Load began.
StoodFor(entry) == IF entry \in Paths THEN held[entry] ELSE {entry}

Usable(text) == text \in PemTexts /\ Pem[text] # {}

\* The result of the second pass is what the files hold now, if none of them
\* changed since that pass began: nothing is left over from the first one, and
\* every entry counts, wherever in the list it is.
PoolIsCurrent ==
  LET Found(e) == IF e \in Paths THEN files[e] ELSE e
      found == {Found(e) : e \in Range(list) \ {TLSCACertsSystem}}
  IN  pc = "loaded" /\ changed = {} =>
        pool = (IF TLSCACertsSystem \in Range(list) /\ system THEN SystemCerts ELSE {})
               \cup UNION {Pem[text] : text \in found \cap PemTexts}

\* Both ways to end have a cause.  A configuration that is loaded has no unused
\* key, and of each entry all certificates that it stood for at some moment: none
\* is silently ignored.  One that is refused has the wrong kind of value, an
\* unused key, an entry that is no string, or one that stood for no certificate;
\* what passed the strict decoding fails in the second one only if such a file
\* changed in between (loading.go:120-133, x509_models.go:160-243).
LoadOutcomeHasCause ==
  LET entries == Range(list) \ {TLSCACertsSystem}
  IN  /\ pc = "loaded" =>
           /\ ~unused
           /\ \A e \in entries : \E text \in StoodFor(e) : Usable(text) /\ Pem[text] \subseteq pool
      /\ pc = "error" =>
           \/ pass = 1 /\ (~WellShaped \/ unused \/ NotAString \in Range(list))
           \/ \E e \in entries :
                /\ \E text \in StoodFor(e) : ~Usable(text)
                /\ pass = 2 => \E text \in StoodFor(e) : Usable(text)
=============================================================================
