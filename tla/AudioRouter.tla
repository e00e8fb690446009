----------------------------- MODULE AudioRouter -----------------------------
(***************************************************************************)
(* Audio placement sites and the providers that own them: AudioRouter of   *)
(* src/router.rs, provider loading of src/provider.rs, and the snapshots   *)
(* of src/catalog.rs.                                                      *)
(*                                                                         *)
(* A load holds &mut of the router, so nothing comes between the sites a   *)
(* provider registers; but it may stop half-way, and loads, reloads and    *)
(* unloads of several providers that want the same keys follow each other  *)
(* in any order.                                                           *)
(***************************************************************************)
EXTENDS Naturals, Sequences, FiniteSets, SequencesExt

CONSTANTS
  Provider,    \* loadable audio providers
  Local,       \* the owner of sites the host registers itself
  Key,         \* audio site keys
  Declared,    \* provider -> audio/site symbols its manifest exports
  Entries,     \* what an entry may register, in order: a set of sequences of Key
  MaxBuilds    \* bound: site values made

ASSUME RouterAssumption ==
  /\ Local \notin Provider
  /\ Declared \in [Provider -> SUBSET Key]
  /\ Entries \subseteq Seq(Key)
  /\ MaxBuilds \in Nat

VARIABLES
  sites,       \* key -> [owner, build] for the registered sites
  native,      \* the runtime may load native providers
  builds,      \* site values made so far; each load or reload makes one more
  load         \* history: the last call, if it was a load, how it ended and the
               \* rows other owners had when it began

vars == <<sites, native, builds, load>>

Owner == Provider \cup {Local}
NoLoad == [provider |-> Local, offered |-> <<>>, build |-> 0, clear |-> FALSE,
           others |-> <<>>, result |-> "none"]

\* AudioRouter::new
Init ==
  /\ sites = <<>>
  /\ native \in BOOLEAN
  /\ builds = 0
  /\ load = NoLoad

With(s, key, row) == [k \in DOMAIN s \cup {key} |-> IF k = key THEN row ELSE s[k]]

\* Every new site value is told apart by its build, up to MaxBuilds.
NewBuild == builds < MaxBuilds /\ builds' = builds + 1

-----------------------------------------------------------------------------
(* Registering                                                             *)

\* Fault: a duplicate key is replaced, whoever owns it.
OccupiedNever(s, key) == FALSE

\* register_owned refuses a key that is registered, even the owner's own.
Occupied(s, key) == key \in DOMAIN s

\* register: a duplicate is a programming error there, the call panics.
Register(key) ==
  /\ ~Occupied(sites, key)
  /\ NewBuild
  /\ sites' = With(sites, key, [owner |-> Local, build |-> builds])
  /\ load' = NoLoad
  /\ UNCHANGED native

\* Fault: a reload takes over the row of another owner.
MayReloadAny(owner, key) == TRUE

MayReload(owner, key) == key \in DOMAIN sites => sites[key].owner = owner

\* reload_owned
Reload(owner, key) ==
  /\ MayReload(owner, key)
  /\ NewBuild
  /\ sites' = With(sites, key, [owner |-> owner, build |-> builds])
  /\ load' = NoLoad
  /\ UNCHANGED native

OwnedBy(owner) == {k \in DOMAIN sites : sites[k].owner = owner}
Others(owner) == [k \in DOMAIN sites \ OwnedBy(owner) |-> sites[k]]

\* unregister_owner
Unregister(owner) ==
  /\ sites' = Others(owner)
  /\ load' = NoLoad
  /\ UNCHANGED <<native, builds>>

-----------------------------------------------------------------------------
(* Loading a provider                                                      *)

\* Fault: after an error the registrar goes on with the next site.
RegisterSiteUnlatched(p, acc, key) ==
  IF key \notin Declared[p] \/ Occupied(acc.sites, key)
  THEN [acc EXCEPT !.error = TRUE]
  ELSE [acc EXCEPT !.sites = With(@, key, [owner |-> p, build |-> builds])]

\* Fault: rows are owned by the proof registrar and not by the provider.
RegisterSiteUnowned(p, acc, key) ==
  IF acc.error THEN acc
  ELSE IF key \notin Declared[p] \/ Occupied(acc.sites, key)
  THEN [acc EXCEPT !.error = TRUE]
  ELSE [acc EXCEPT !.sites = With(@, key, [owner |-> "proof", build |-> builds])]

\* register_site: the first error is kept and every later site is ignored.
RegisterSite(p, acc, key) ==
  IF acc.error THEN acc
  ELSE IF key \notin Declared[p] \/ Occupied(acc.sites, key)
  THEN [acc EXCEPT !.error = TRUE]
  ELSE [acc EXCEPT !.sites = With(@, key, [owner |-> p, build |-> builds])]

\* History: what an entry offers is declared, and free or the provider's own.
Clear(p, entry) ==
  \A i \in DOMAIN entry : entry[i] \in Declared[p] /\ MayReload(p, entry[i])

\* load_into refuses without the capability, when the loader finds no lib, and
\* when the manifest exports no audio site or the entry is missing.
LoadRefused(p) ==
  /\ ~native \/ Declared[p] = {}
  /\ load' = [provider |-> p, offered |-> <<>>, build |-> builds,
              clear |-> FALSE, others |-> Others(p), result |-> "error"]
  /\ UNCHANGED <<sites, native, builds>>

\* The entry offers its sites and may itself end in an error; what it had
\* registered by then stays registered.
Load(p, entry, entryOk) ==
  /\ native
  /\ Declared[p] # {}
  /\ NewBuild
  /\ LET acc == FoldLeft(LAMBDA a, key : RegisterSite(p, a, key),
                         [sites |-> sites, error |-> FALSE], entry)
     IN  /\ sites' = acc.sites
         /\ load' = [provider |-> p, offered |-> entry, build |-> builds,
                     clear |-> entryOk /\ Clear(p, entry), others |-> Others(p),
                     result |-> IF entryOk /\ ~acc.error THEN "ok" ELSE "error"]
  /\ UNCHANGED native

GrantNative ==
  /\ native' = TRUE
  /\ load' = NoLoad
  /\ UNCHANGED <<sites, builds>>

-----------------------------------------------------------------------------

Next ==
  \/ \E key \in Key : Register(key)
  \/ \E owner \in Owner, key \in Key : Reload(owner, key)
  \/ \E owner \in Owner : Unregister(owner)
  \/ \E p \in Provider : \/ LoadRefused(p)
                         \/ \E entry \in Entries, ok \in BOOLEAN : Load(p, entry, ok)
  \/ GrantNative

Spec == Init /\ [][Next]_vars

-----------------------------------------------------------------------------
(* Properties                                                              *)

\* Through every order of registrations, loads, reloads and unloads, a key
\* passes from one owner to another only by way of being unregistered, and no
\* provider's load or failed load touches a row that was there before.
OwnerStable ==
  [][\A k \in DOMAIN sites \cap DOMAIN sites' :
       /\ sites'[k].owner = sites[k].owner
       /\ load'.result # "none" => sites'[k] = sites[k]]_vars

\* What a load leaves behind: the whole offer if it returned Ok, otherwise the
\* sites before the one it failed on, each declared and owned by the provider,
\* so that unregistering the provider undoes a load that failed half-way.
LoadLeavesPrefix ==
  [][load'.result # "none" =>
       LET new == DOMAIN sites' \ DOMAIN sites
           offered == load'.offered
       IN  /\ \A k \in new : /\ sites'[k] = [owner |-> load'.provider, build |-> load'.build]
                             /\ k \in Declared[load'.provider]
           /\ \E n \in 0 .. Len(offered) :
                /\ new = ToSet(SubSeq(offered, 1, n))
                /\ load'.result = "ok" => n = Len(offered)
                /\ n < Len(offered) =>
                     offered[n + 1] \notin Declared[load'.provider]
                       \/ offered[n + 1] \in DOMAIN sites']_vars

\* A provider that is unloaded right after a load, however far that load came
\* before it failed, leaves the router as the load found it but for the rows the
\* provider already had: no row of its own survives, and no row of anybody else
\* was lost or replaced on the way.
UnloadUndoesLoad ==
  [][load.result # "none" /\ Unregister(load.provider) => sites' = load.others]_vars

\* "Registers or replaces a native audio site owned by the provider": a load
\* whose entry succeeds and offers only declared sites that are free or its
\* own is not refused.
RegisterReplaces == load.clear => load.result # "error"

=============================================================================
