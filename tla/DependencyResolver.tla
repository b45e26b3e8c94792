-------------------------- MODULE DependencyResolver --------------------------
(* Dependencies between packages, from what each says it provides and requires    *)
(* (syft/pkg/cataloger/internal/dependency), and the rules by which package       *)
(* managers' metadata say so.                                                     *)
(*                                                                                *)
(* A key is the name of a resource and what follows the name in the metadata: a   *)
(* version, an extra, or "(" where it is an expression that is not understood.    *)
(* A clause is the set of the keys any one of which will do.                      *)
EXTENDS Naturals, Sequences, FiniteSets, SequencesExt

Key(name) == [name |-> name, tail |-> ""]
stripVersionSpecifier(key) == Key(key.name)
stripAll(keys) == {stripVersionSpecifier(k) : k \in keys}
isSupportedKey(key) == key.tail # "("

\* Keys of all the clauses.
splitPackageChoice(clauses) == UNION clauses

Claim(provides, requires) == [provides |-> provides, requires |-> requires]
NoClaim == Claim({}, {})

-------------------------------------------------------------------------------
(* What a package claims, first for itself and then for each of its variants.     *)
(* meta.provides and meta.depends are keys and clauses; meta.extras are pairs of  *)
(* a set of names of extras and the clauses that they add.                        *)

dependencies(p) == splitPackageChoice(p.meta.depends)
Always(p) == {k \in dependencies(p) : k.tail # "extra =="}

\* A variant for every extra; what is required of self is left out.
variants(p, extras, self) ==
    [i \in DOMAIN extras |->
        Claim({[name |-> p.name, tail |-> e] : e \in extras[i][1]},
              stripAll(splitPackageChoice(extras[i][2])) \ self)]

apkClaims(p) == <<Claim({Key(p.name)} \cup stripAll(p.meta.provides), stripAll(dependencies(p)))>>

dpkgClaims(p) == <<Claim({Key(p.name)} \cup stripAll(p.meta.provides), stripAll(dependencies(p)))>>

alpmClaims(p) ==
    <<Claim({Key(p.name)} \cup p.meta.provides \cup stripAll(p.meta.provides), dependencies(p))>>

rpmClaims(p) ==
    <<Claim({Key(p.name)} \cup {k \in p.meta.provides : isSupportedKey(k)}
                          \cup {Key(f) : f \in p.meta.files},
            {k \in dependencies(p) : isSupportedKey(k)})>>

mixLockClaims(p) == <<Claim({Key(p.name)}, dependencies(p))>>

\* Of npm's lock an alias is required by both of its names.
packageLockClaims(p) == <<Claim({Key(p.name)}, dependencies(p))>>

wheelEggClaims(p) == <<Claim({Key(p.name)}, stripAll(dependencies(p)))>>

poetryLockClaims(p) ==
    <<Claim({Key(p.name)}, Always(p) \cup stripAll(Always(p)))>> \o variants(p, p.meta.extras, {})

pdmLockClaims(p) ==
    <<Claim({Key(p.name)}, stripAll(dependencies(p)))>>
    \o variants(p, SelectSeq(p.meta.extras, LAMBDA v : v[1] # {}), {Key(p.name)})

cpanClaims(p) == <<Claim({Key(m) : m \in p.meta.modules}, {Key(m) : m \in p.meta.prereqs})>>

Specification(p) ==
    CASE p.meta.kind = "apk" -> apkClaims(p)
      [] p.meta.kind = "dpkg" -> dpkgClaims(p)
      [] p.meta.kind = "alpm" -> alpmClaims(p)
      [] p.meta.kind = "rpm" -> rpmClaims(p)
      [] p.meta.kind = "mix" -> mixLockClaims(p)
      [] p.meta.kind = "npm" -> packageLockClaims(p)
      [] p.meta.kind = "wheel" -> wheelEggClaims(p)
      [] p.meta.kind = "poetry" -> poetryLockClaims(p)
      [] p.meta.kind = "pdm" -> pdmLockClaims(p)
      [] p.meta.kind = "cpan" -> cpanClaims(p)
      [] OTHER -> <<NoClaim>>

-------------------------------------------------------------------------------
(* Of packages with one identifier the last says what is required; what any of    *)
(* them provides counts.  A pair of packages gets one relationship.               *)
Resolve(pkgs) ==
    LET claims(i) == Specification(pkgs[i])
        providing(key) == {pkgs[i].id : i \in {j \in DOMAIN pkgs :
                                \E n \in DOMAIN claims(j) : key \in claims(j)[n].provides}}
        last(id) == CHOOSE i \in DOMAIN pkgs :
                        pkgs[i].id = id /\ \A j \in DOMAIN pkgs : pkgs[j].id = id => j <= i
        required(id) == UNION {claims(last(id))[n].requires : n \in DOMAIN claims(last(id))}
    IN UNION {{[from |-> from, to |-> p.id, type |-> "dependency-of"] :
                    from \in UNION {providing(key) : key \in required(p.id)}} : p \in ToSet(pkgs)}
===============================================================================
