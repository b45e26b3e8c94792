-------------------------- MODULE MCGenericCataloger --------------------------
(* One cataloger at a time, of those that do more than collect: each with two or  *)
(* three files that complete, duplicate or depend on one another.                 *)
EXTENDS GenericCataloger

MCMediaTypes == FALSE
MCPanicky == {"dependency", "resolvePacklistVersions"}
MCGoodVersions == {"go1.22"}

Bare(name, version, tree, role, meta) ==
    [name |-> name, version |-> version, id |-> NoID, foundBy |-> "parser",
     places |-> {[tree |-> tree, role |-> role]}, meta |-> meta]

Package(name, version, tree, role, meta) == WithID(Bare(name, version, tree, role, meta))

Dependent(name, role, kind, provides, depends, files) ==
    Package(name, "1", <<>>, role,
        [kind |-> kind, provides |-> provides, depends |-> depends, extras |-> <<>>, files |-> files])

Good(pkgs) == Result(pkgs, {}, Nil)
Glob(query) == [kind |-> "glob", queries |-> <<query>>]

\* Two RPM databases: a shell that requires itself and a library or an expression, and
\* the library, which is known by a file.
bash == Dependent("bash", "rpmdb", "rpm", {Key("sh")}, {{Key("sh")}, {Key("/lib/c")}, {[name |-> "x", tail |-> "("]}}, {})
glibc == Dependent("glibc", "rpmdb2", "rpm", {}, {{Key("bash")}}, {"/lib/c"})

\* A Debian package with a choice and one without an identifier as yet.
awk == Dependent("awk", "status", "dpkg", {[name |-> "awk-api", tail |-> "(= 1)"]}, {{Key("libc"), Key("musl")}}, {})
libc == [Dependent("libc", "status.d", "dpkg", {}, {{[name |-> "awk-api", tail |-> "(>= 1)"]}}, {}) EXCEPT !.id = NoID]

\* Locks and databases read whole; Poetry's: what an extra adds.
Poetry(name, depends, extras) ==
    Package(name, "1", <<>>, "lock", [kind |-> "poetry", depends |-> depends, extras |-> extras])
web == Poetry("web", {{Key("json"), [name |-> "json", tail |-> "fast"]}}, <<>>)
json == Poetry("json", {{[name |-> "web", tail |-> "extra =="]}}, <<<<{"fast"}, {{[name |-> "simd", tail |-> ">=1"]}}>>>>)
simd == Poetry("simd", {}, <<>>)

\* PDM's lock: what an extra adds, and it adds the package itself.
pdm == Package("coverage", "1", <<>>, "lock",
        [kind |-> "pdm", depends |-> {}, extras |-> <<<<{"toml"}, {{Key("coverage")}, {[name |-> "tomli", tail |-> ">=1"]}}>>, <<{}, {{Key("pip")}}>>>>])
tomli == Package("tomli", "1", <<>>, "lock", [kind |-> "npm", depends |-> {{Key("coverage"), Key("/tomli")}}])

\* Two packages of Arch Linux, each with a file of its own.
mpv == Dependent("mpv", "desc", "alpm", {}, {{[name |-> "libav.so", tail |-> "=60-64"]}, {Key("libav")}}, {})
libav == Dependent("libav", "desc2", "alpm", {[name |-> "libav.so", tail |-> "=60-64"]}, {}, {})

\* What the parser reports of a package whose other files are missing, unreadable or
\* malformed: it returns the package all the same.
Unread(file) == CoordinateError(file, Leaf("unread"))

musl == Dependent("musl", "apk", "apk", {[name |-> "so:libc", tail |-> "=1"]}, {{[name |-> "so:libc", tail |-> ">=1"]}}, {})
busybox == Dependent("busybox", "apk", "apk", {}, {{[name |-> "so:libc", tail |-> ""]}}, {})

\* A distribution whose packlist has the name of its module, and one it requires, both in
\* one tree; a packlist that install.json does not speak of.
Cpan(name, version, role, main, modules, prereqs) ==
    Package(name, version, <<"site">>, role,
        [kind |-> "cpan", tree |-> <<"site", "lib">>, mainModule |-> main,
         files |-> IF main = None THEN {} ELSE {name}, modules |-> modules, prereqs |-> prereqs])
lwp == Cpan("libwww-perl", "6", "install.json", None, {"LWP"}, {"HTTP"})
lwpFiles == Cpan("LWP", "", ".packlist", "LWP", {}, {})
http == Cpan("HTTP", "", ".packlist", "HTTP", {}, {})
httpMeta == Cpan("HTTP", "2", "install.json", None, {"HTTP"}, {})
MCPerllocal == <<[module |-> "LWP", into |-> <<"site", "lib">>, version |-> "6"],
                 [module |-> "LWP", into |-> <<"site">>, version |-> "5"]>>
MCPmVersion == [n \in {"LWP", "HTTP"} |-> IF n = "HTTP" THEN "2" ELSE None]

\* Layers of a model, and shards with an index.
gguf == Package("llama", "", <<>>, "layer1", [kind |-> "gguf", tensors |-> 3, parts |-> {}])
Layer(n) == Package("", "", <<>>, "layer", [kind |-> "gguf", tensors |-> n, parts |-> {}])
Shard(dir, hash, tensors, user) ==
    Bare("", "", <<dir>>, hash, [kind |-> "safetensors", dir |-> dir, hash |-> hash, tensors |-> tensors, user |-> user])
MCModelName == [d \in {"m", "n"} |-> IF d = "m" THEN "model" ELSE ""]

\* Binaries with a module each, and one whose compiler says an unknown version.
Go(name, role, version) == Package(name, "1", <<>>, role, [kind |-> "go", goVersion |-> version])
Main(p, dep) == Result(<<p, dep>>, {[from |-> dep.id, to |-> p.id, type |-> "dependency-of"]}, Nil)

\* Wheels of the global site and of virtual environments with and without it.
Wheel(name, site, depends) ==
    Package(name, "1", <<site>>, "METADATA", [kind |-> "wheel", site |-> site, depends |-> depends])
venvWheels == <<Wheel("app", "venv", {{[name |-> "lib", tail |-> ">=1"]}}), Wheel("own", "venv", {{Key("own")}})>>
MCVenvs == {[site |-> "venv", system |-> "global"], [site |-> "alone", system |-> None]}

Locations == {"rpmdb", "rpmdb2", "status", "status.d", "desc", "desc2", "lock", "lwp", "lwp.list", "http.list", "http",
              "g1", "g2", "g3", "s1", "s2", "s3", "s4", "go1", "go2", "w1", "w2", "w3"}
MCSearch == [q \in Locations \cup {"nothing", "both"} |->
                IF q = "both" THEN <<"go1", "go2">> ELSE IF q = "nothing" THEN Failed ELSE <<q>>]

MCCatalogers ==
    {[name |-> "rpm-db-cataloger", checked |-> TRUE, processors |-> <<"dependency", "denySelfReferences">>,
      requesters |-> <<Glob("rpmdb"), Glob("nothing"), Glob("rpmdb2")>>],
     [name |-> "dpkg-db-cataloger", checked |-> FALSE, processors |-> <<"dependency">>,
      requesters |-> <<Glob("status"), Glob("status.d")>>],
     [name |-> "alpm-db-cataloger", checked |-> FALSE, processors |-> <<"dependency">>,
      requesters |-> <<[kind |-> "glob", queries |-> <<"desc", "desc2">>]>>],
     [name |-> "others", checked |-> FALSE, processors |-> <<"dependency">>, requesters |-> <<Glob("lock")>>],
     [name |-> "perl-cpan-installed-cataloger", checked |-> FALSE,
      processors |-> <<"resolvePacklistVersions", "mergeDistributions", "resolveDependencies">>,
      requesters |-> <<Glob("lwp"), Glob("http"), [kind |-> "glob", queries |-> <<"lwp.list", "http.list">>]>>],
     [name |-> "gguf-cataloger", checked |-> FALSE, processors |-> <<"ggufMerge">>,
      requesters |-> <<Glob("g1"), Glob("g2"), Glob("g3"), [kind |-> "mediatype", queries |-> <<"g1">>]>>],
     [name |-> "safetensors-cataloger", checked |-> FALSE, processors |-> <<"safeTensorsMerge">>,
      requesters |-> <<[kind |-> "glob", queries |-> <<"s1", "s2", "s3", "s4">>]>>],
     [name |-> "go-module-binary-cataloger", checked |-> FALSE, processors |-> <<"stdlib">>,
      requesters |-> <<[kind |-> "mimetype", queries |-> <<"both">>]>>],
     [name |-> "python-installed-package-cataloger", checked |-> FALSE, processors |-> <<"wheelEgg">>,
      requesters |-> <<Glob("w1"), Glob("w2"), Glob("w3")>>]}

MCOutcomes == [at \in Locations |->
    CASE at = "rpmdb" -> {Good(<<bash>>), Result(<<bash>>, {}, Leaf("corrupt"))}
      [] at = "rpmdb2" -> {Good(<<glibc>>)}
      [] at = "status" -> {Good(<<awk>>), Result(<<>>, {}, Leaf("no packages"))}
      [] at = "status.d" -> {Good(<<libc>>)}
      [] at = "desc" -> {Good(<<mpv>>), Result(<<mpv>>, {}, Join(<<Unread("mtree"), Unread("files")>>))}
      [] at = "desc2" -> {Good(<<libav>>), Result(<<libav>>, {}, Unread("mtree2"))}
      [] at = "lock" -> {Good(<<web, json, simd>>), Good(<<pdm, tomli>>), Good(<<musl, busybox>>)}
      [] at = "lwp" -> {Good(<<lwp>>)}
      [] at = "http" -> {Good(<<httpMeta>>), Good(<<>>)}
      [] at = "lwp.list" -> {Good(<<lwpFiles>>)}
      [] at = "http.list" -> {Good(<<http>>)}
      [] at = "g1" -> {Good(<<gguf>>)}
      [] at = "g2" -> {Good(<<Layer(1)>>)}
      [] at = "g3" -> {Good(<<Layer(2)>>), Good(<<[gguf EXCEPT !.meta.tensors = 4]>>)}
      [] at = "s1" -> {Good(<<Shard("m", "h1", 1, [a |-> 1, b |-> 1])>>)}
      [] at = "s2" -> {Good(<<Shard("m", "h2", 2, [b |-> 1, c |-> 3])>>)}
      [] at = "s3" -> {Good(<<Shard("m", "", 4, <<>>)>>), Good(<<Shard("m", "", 0, <<>>)>>)}
      [] at = "s4" -> {Good(<<Shard("n", "h4", 1, <<>>)>>)}
      [] at = "go1" -> {Main(Go("cmd", "go1", "go1.22"), Go("dep", "go1", "go1.22"))}
      [] at = "go2" -> {Main(Go("tool", "go2", "go1.22"), Go("dep", "go2", "go1.22")), Main(Go("tool", "go2", "devel"), Go("dep", "go2", "devel"))}
      [] at = "w1" -> {Good(venvWheels), Result(venvWheels, {}, Wrapped(CoordinateError("RECORD", Leaf("unread"))))}
      [] at = "w2" -> {Good(<<Wheel("lib", "global", {{Key("app")}}), Wheel("own", "global", {{Key("lib")}})>>)}
      [] at = "w3" -> {Good(<<Wheel("app", "alone", {{Key("lib")}}), Wheel("lib", "alone", {})>>)}]
===============================================================================
