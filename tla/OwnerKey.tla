------------------------------ MODULE OwnerKey ------------------------------
(***************************************************************************)
(* The owner key on the operator's machine: cmd/owner-keygen as the two    *)
(* scripts run it (`deploy.sh --gen-owner-key`, which also rewrites the    *)
(* config file, and `local-evm-agent.sh gen-owner-key`, which does not),   *)
(* and internal/owner's Load, by which a registration finds the key.       *)
(*                                                                         *)
(* The key file is created before it is written, and the config file is    *)
(* replaced after that; a process may end between any two of these steps.  *)
(* The operator does what the messages ask for: funds an address, moves a  *)
(* useless file aside, names an unnamed one in the config file.            *)
(***************************************************************************)
EXTENDS FiniteSets

CONSTANTS Generators,   \* runs of gen-owner-key, in as many shells
          Keys,
          NoKey,        \* no file, or no key in it
          Empty,        \* a file created and not written
          KeyFiles,     \* what the file may hold at the start
          Scripts       \* the scripts the operator may use

ASSUME ScriptAssumption == Scripts \subseteq {"deploy", "local"}
ASSUME KeyAssumption ==
    NoKey \notin Keys /\ Empty \notin Keys \cup {NoKey} /\ KeyFiles \subseteq Keys \cup {NoKey}

VARIABLES script,       \* the script the operator uses
          keyFile,      \* what owner.key holds
          wired,        \* the config file reads the key from owner.key
          gen,          \* how far each generation is, and its key
          identities,   \* keys whose address was printed, or that a tool loaded (history)
          funded        \* keys whose account exists on the chain

keyVars == <<script, keyFile, wired, gen, identities, funded>>

Resting == [at |-> "idle", key |-> NoKey]

KeyInit ==
    /\ script \in Scripts
    /\ keyFile \in KeyFiles
    /\ wired = (script = "deploy" /\ keyFile \in Keys)
    /\ gen = [g \in Generators |-> Resting]
    /\ identities = {keyFile} \cap Keys /\ funded = {keyFile} \cap Keys

\* Load: the variable the config file sets, or the file -key-file names; no
\* key, or an empty file, is no error by itself.
Loaded == IF (wired \/ script = "local") /\ keyFile \in Keys THEN keyFile ELSE NoKey

\* A tool that goes on with a key acts for its address from here on.
Load ==
    /\ Loaded # NoKey
    /\ identities' = identities \cup {Loaded}
    /\ UNCHANGED <<script, keyFile, wired, gen, funded>>

GenStep(g, at, key) == gen' = [gen EXCEPT ![g] = [at |-> at, key |-> key]]

\* deploy.sh goes on if no key is configured and the file does not exist;
\* the launcher does not look.
MayGenerate == script = "deploy" => Loaded = NoKey /\ keyFile = NoKey /\ ~wired

Begin(g) ==
    /\ gen[g].at = "idle" /\ MayGenerate
    /\ GenStep(g, "minting", NoKey)
    /\ UNCHANGED <<script, keyFile, wired, identities, funded>>

\* Mutated: an existing file is truncated.
MayCreate_Truncates == TRUE

\* O_CREATE|O_EXCL
MayCreate == keyFile = NoKey

\* Generate: every call yields another key.
Create(g, k) ==
    /\ gen[g].at = "minting" /\ MayCreate
    /\ k \notin identities /\ k # keyFile /\ \A h \in Generators : gen[h].key # k
    /\ keyFile' = Empty
    /\ GenStep(g, "writing", k)
    /\ UNCHANGED <<script, wired, identities, funded>>

\* The key and its newline; the launcher prints the address at once.
Write(g) ==
    /\ gen[g].at = "writing"
    /\ keyFile' = gen[g].key
    /\ IF script = "deploy"
       THEN GenStep(g, "wiring", gen[g].key) /\ UNCHANGED identities
       ELSE GenStep(g, "idle", NoKey) /\ identities' = identities \cup {gen[g].key}
    /\ UNCHANGED <<script, wired, funded>>

\* The mv of the rewritten config file, then the address.
Wire(g) ==
    /\ gen[g].at = "wiring"
    /\ wired' = TRUE
    /\ identities' = identities \cup {gen[g].key}
    /\ GenStep(g, "idle", NoKey)
    /\ UNCHANGED <<script, keyFile, funded>>

\* The file exists, the disk is full, or the shell is killed.
GenerationEnds(g) ==
    /\ gen[g].at # "idle"
    /\ GenStep(g, "idle", NoKey)
    /\ UNCHANGED <<script, keyFile, wired, identities, funded>>

-----------------------------------------------------------------------------
(* The operator *)

\* Nobody is about to write the key or the config file.  That the operator
\* sees to it is an assumption: no lock of the scripts does, and a file moved
\* aside or a config edited in that moment is beyond this module.
Quiet == \A g \in Generators : gen[g].at \in {"idle", "minting"}

\* "move it aside first": only a file that holds no key.
SetAside ==
    /\ keyFile = Empty /\ Quiet
    /\ keyFile' = NoKey
    /\ UNCHANGED <<script, wired, gen, identities, funded>>

\* The config file is told of a key that no config names.
WireByHand ==
    /\ script = "deploy" /\ keyFile \in Keys /\ ~wired /\ Quiet
    /\ wired' = TRUE
    /\ UNCHANGED <<script, keyFile, gen, identities, funded>>

\* fundingHint, fund_owner: an address some tool printed gets what it needs.
Fund(k) ==
    /\ k \in identities \ funded
    /\ funded' = funded \cup {k}
    /\ UNCHANGED <<script, keyFile, wired, gen, identities>>

Generation(g) == Begin(g) \/ (\E k \in Keys : Create(g, k)) \/ Write(g) \/ Wire(g)

KeyStep ==
    \/ \E g \in Generators : Generation(g) \/ GenerationEnds(g)
    \/ SetAside \/ WireByHand \/ \E k \in Keys : Fund(k)

KeyTypeOK ==
    /\ script \in Scripts /\ wired \in BOOLEAN
    /\ keyFile \in Keys \cup {NoKey, Empty}
    /\ gen \in [Generators -> [at : {"idle", "minting", "writing", "wiring"}, key : Keys \cup {NoKey}]]
    /\ funded \subseteq identities /\ identities \subseteq Keys
    /\ wired => keyFile \in Keys
=============================================================================
