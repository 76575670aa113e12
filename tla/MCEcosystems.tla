---------------------------- MODULE MCEcosystems ----------------------------
(***************************************************************************)
(* Lock files, databases of packages, applications and Go modules, for the *)
(* catalogers to read.                                                     *)
(***************************************************************************)
EXTENDS JavascriptLocks, PythonPackages, OtherLocks, OsDatabases, DotnetDeps,
        GoModules, BinaryPackages, TLC

VARIABLE turn

-----------------------------------------------------------------------------
(* JavaScript: a scope, an alias, two versions, circles, peers.            *)

A == <<"", "a">>
B == <<"", "b">>
C == <<"@s", "c">>
D == <<"", "d">>

On(n) == [name |-> n, alias |-> NoName]
As(n, m) == [name |-> n, alias |-> m]

NpmEntry(path, name, version, dev, deps) ==
  [path |-> path, name |-> name, version |-> version, dev |-> dev, dependencies |-> deps]

NpmLocks ==
  {[format |-> "npm", lockfileVersion |-> v, within |-> w, includeDev |-> i,
    entries |-> {NpmEntry(<<>>, root, "1", FALSE, {On(B), As(D, t)}),
                 NpmEntry(<<B>>, NoName, "1", dev, {On(C), On(B)}),
                 NpmEntry(<<B, C>>, NoName, "1", dev, deps),
                 NpmEntry(<<C>>, NoName, "2", FALSE, deps),
                 NpmEntry(<<D>>, t, "1", FALSE, {})}] :
     v \in {2, 3, 4}, w \in BOOLEAN, i \in BOOLEAN, root \in {NoName, A}, dev \in BOOLEAN,
     t \in {B, C}, deps \in {{}, {On(B)}, {On(D)}}}
  \cup
  {[format |-> "npm", lockfileVersion |-> 1, within |-> FALSE, includeDev |-> i,
    entries |-> {[name |-> A, alias |-> alias, version |-> "1", dev |-> FALSE],
                 [name |-> B, alias |-> NoName, version |-> "2", dev |-> TRUE]}] :
     i \in BOOLEAN, alias \in {NoName, B, C}}

PnpmEntry(n, v, peers, dev, deps) ==
  [name |-> n, version |-> v, peers |-> peers, dev |-> dev, dependencies |-> deps]

PnpmLocks ==
  {[format |-> "pnpm", lockfileVersion |-> v, within |-> w, includeDev |-> i, direct |-> direct,
    entries |-> {PnpmEntry(A, "1", "", dev, {On(B)}), PnpmEntry(B, "1", "c", FALSE, deps),
                 PnpmEntry(B, "1", "d", FALSE, {On(A)}), PnpmEntry(B, "2", "", dev, {})},
    snapshots |-> {PnpmEntry(A, "1", "c", FALSE, {On(B)}), PnpmEntry(A, "1", "d", FALSE, deps),
                   PnpmEntry(D, "1", "", FALSE, {On(A)})}] :
     v \in {5, 6, 9}, w \in BOOLEAN, i \in BOOLEAN, direct \in {{}, {<<A, "1">>, <<C, "1">>}},
     dev \in BOOLEAN, deps \in {{}, {On(C), On(A)}}}

Yarn(key, resolved, version, deps) ==
  [key |-> key, resolved |-> resolved, version |-> version, dependencies |-> deps]

YarnLocks ==
  {[format |-> f, within |-> FALSE, includeDev |-> i, prod |-> prod, dev |-> {B, D},
    entries |-> <<Yarn(A, NoName, "1", deps), Yarn(B, r, v, {On(C)}), last>>] :
     f \in {"yarn1", "yarn2"}, i \in BOOLEAN, prod \in {{}, {A}, {A, D}},
     deps \in {{}, {On(B)}, {On(D), On(A)}}, r \in {NoName, A, D}, v \in {"1", "2"},
     last \in {Yarn(C, NoName, "1", {}), Yarn(B, B, "2", {On(D)}), Yarn(C, D, "1", {On(A)}),
               Yarn(NoName, NoName, "3", {})}}

MCJsLocks == NpmLocks \cup PnpmLocks \cup YarnLocks

-----------------------------------------------------------------------------
(* Python: extras of extras, entries alike, lines that go on, and           *)
(* environments that see what is installed for all, or do not.              *)

PyDep(n, x, marked) == [name |-> n, extras |-> x, marked |-> marked]

PyEntries ==
  {{[name |-> "app", version |-> "1", extras |-> <<>>,
     dependencies |-> {PyDep("lib", x, m), PyDep("tool", {}, TRUE)}],
    [name |-> "lib", version |-> "1", extras |-> [fast |-> need, all |-> {"lib", "tool"}],
     dependencies |-> deps],
    [name |-> "tool", version |-> v, extras |-> <<>>, dependencies |-> {PyDep("lib", {"fast"}, FALSE)}],
    [name |-> "core", version |-> "1", extras |-> <<>>, dependencies |-> {}]} :
   x \in {{}, {"fast"}, {"fast", "all"}}, m \in BOOLEAN, need \in {{"core"}, {"lib"}, {"nosuch"}},
   deps \in {{}, {PyDep("core", {"none"}, FALSE)}, {PyDep("core", {}, TRUE)}}, v \in {"1", "2"}}

PdmEntry(n, summary, x, deps) ==
  [name |-> n, version |-> "1", summary |-> summary, extras |-> x, dependencies |-> deps]

PdmEntries ==
  {<<PdmEntry("lib", s1, x1, d1), PdmEntry("core", TRUE, {}, {}),
     PdmEntry("lib", s2, x2, {"lib", "tool"}), PdmEntry("tool", FALSE, {}, d2)>> :
     s1 \in BOOLEAN, s2 \in BOOLEAN, x1 \in {{}, {"fast"}}, x2 \in {{}, {"fast"}, {"all", "fast"}},
     d1 \in {{"core"}, {"tool", "lib"}}, d2 \in {{}, {"lib"}}}

PyPackage(n) == [name |-> n, version |-> "1", requires |-> {}, variants |-> {}]

PyMeaning == (<<>> :> [is |-> "nothing"]) @@ (<<"a==1">> :> [is |-> "package", package |-> PyPackage("a")])
             @@ (<<"-e">> :> [is |-> "editable"]) @@ (<<"b>1">> :> [is |-> "unpinned"])
             @@ (<<"b", "==1">> :> [is |-> "package", package |-> PyPackage("b")])

PyLine(parts, c) == [parts |-> parts, continues |-> c]

\* Lines that can follow each other so that PyMeaning has what they are.
PyLines == {<<PyLine(<<>>, FALSE)>>, <<PyLine(<<"a==1">>, FALSE)>>, <<PyLine(<<"-e">>, FALSE)>>,
            <<PyLine(<<"b>1">>, FALSE)>>, <<PyLine(<<"b">>, TRUE), PyLine(<<"==1">>, FALSE)>>,
            <<PyLine(<<"a==1">>, TRUE), PyLine(<<>>, FALSE)>>}

MCDir == {"/usr/3.11", "/usr/3.12", "/v/3.11", "/w/3.12"}

Installed1(n, d, deps) == [name |-> n, version |-> "1", dir |-> d, dependencies |-> deps]

PyInstalled ==
  {[format |-> "installed", broken |-> FALSE,
    packages |-> {Installed1("app", "/v/3.11", {"lib", "core"}), Installed1("lib", "/usr/3.11", {"core"}),
                  Installed1("core", d, {"app"}), Installed1("lib", e, {}),
                  [Installed1("core", "/usr/3.12", x) EXCEPT !.version = "2"]},
    venvs |-> {[within |-> {"/v/3.11"}, system |-> s, python |-> "3.11", readable |-> TRUE],
               [within |-> {"/w/3.12"}, system |-> t, python |-> "3.12", readable |-> TRUE]},
    pythonOf |-> ("/usr/3.11" :> "3.11") @@ ("/usr/3.12" :> "3.12") @@ ("/v/3.11" :> "3.11")
                   @@ ("/w/3.12" :> p)] :
     d \in MCDir, e \in MCDir, x \in {{}, {"lib"}}, s \in BOOLEAN, t \in BOOLEAN, p \in {"3.11", "3.12"}}

\* The same with a package in error, an environment that cannot be read, or both.
PyTroubled ==
  {[f EXCEPT !.broken = b, !.venvs = {[v EXCEPT !.readable = (v.python \notin bad)] : v \in f.venvs}] :
     f \in PyInstalled, b \in BOOLEAN, bad \in {{}, {"3.11"}}}

MCPyFiles ==
  {[format |-> "poetry", entries |-> e] : e \in PyEntries \cup {{}}}
  \cup {[format |-> "uv", entries |-> e, lockVersion |-> v] : e \in PyEntries \cup {{}}, v \in {1, 2}}
  \cup {[format |-> "pdm", entries |-> e] : e \in PdmEntries}
  \cup {[format |-> "pipfile", default |-> [a |-> "1", b |-> "2"]]}
  \cup {[format |-> "requirements", meaning |-> PyMeaning, lines |-> a \o b \o c \o d] :
          a \in PyLines, b \in PyLines, c \in PyLines, d \in {<<>>, <<PyLine(<<"a==1">>, TRUE)>>}}
  \cup PyTroubled

-----------------------------------------------------------------------------
(* Other lock files: two versions, two sources, nodes alike, frameworks     *)
(* that disagree, lines of every section.                                   *)

Crate(n, v, source, deps) == [name |-> n, version |-> v, source |-> source, dependencies |-> deps]
Registry == <<"registry", "crates">>
Git(commit) == <<"git", "url", commit>>

CargoLocks ==
  {[format |-> "cargo",
    packages |-> {Crate("app", "1", <<>>, {d, e}), Crate("lib", "1", Registry, {<<"lib", "2">>}),
                  Crate("lib", "2", s, {}), Crate("lib", "2", Git("c1"), {<<"app">>})}] :
     d \in {<<"lib">>, <<"lib", "1">>, <<"lib", "2">>},
     e \in {<<"lib", "2", Registry>>, <<"lib", "2", <<"git", "url", "">>>>, <<"nosuch">>},
     s \in {<<>>, Registry}}

Nodes(n, requires) == [ref |-> IF n = "" THEN NoPackage ELSE [name |-> n, version |-> "1"], requires |-> requires]

ConanLocks ==
  {[format |-> "conan", requires |-> {},
    nodes |-> <<Nodes("", {2, 3}), Nodes("zlib", a), Nodes(n, b), Nodes("zlib", c)>>] :
     n \in {"png", "zlib"}, a \in {{}, {3}}, b \in {{}, {2, 4}, {1}, {5}}, c \in {{}, {3, 2}}}
  \cup {[format |-> "conan", nodes |-> <<>>, requires |-> r] :
          r \in {{}, {[name |-> "zlib", version |-> "1"], [name |-> "png", version |-> "2"]}}}

NuGet(v, deps) == [resolved |-> v, dependencies |-> deps]

DotnetLocks ==
  {[format |-> "dotnet",
    frameworks |-> [net6 |-> [app |-> NuGet("1", [lib |-> v]), lib |-> NuGet("2", d)],
                    net8 |-> [app |-> NuGet("1", [lib |-> w, tool |-> "1"]), lib |-> NuGet(x, <<>>),
                              tool |-> NuGet("1", [app |-> "1"])]]] :
     v \in {"1", "2", "3"}, w \in {"2", "3"}, x \in {"2", "3"}, d \in {<<>>, [tool |-> "9"], [none |-> "1"]}}

LockPackage(n, v) == [name |-> n, version |-> v]

SmallLocks ==
  {[format |-> "pubspec", sdks |-> s,
    packages |-> {[name |-> "a", version |-> v, sdk |-> x], [name |-> "b", version |-> "0.0.0", sdk |-> ""]}] :
     s \in {<<>>, [dart |-> "3"]}, v \in {"0.0.0", "1"}, x \in {"", "dart", "flutter"}}
  \cup {[format |-> "podfile", checksums |-> c,
          pods |-> {[name |-> "a", root |-> "a"], [name |-> "b/core", root |-> "b"]}] : c \in SUBSET {"a", "b"}}
  \cup {[format |-> "swift", version |-> v, pins |-> p] : v \in 0..4, p \in {{}, {LockPackage("a", "1")}}}
  \cup {[format |-> "rebar", deps |-> [a |-> "1", b |-> "2"], hashes |-> h] : h \in {<<>>, [b |-> "h", c |-> "i"]}}
  \cup {[format |-> "stack", names |-> {"a", ""}, snapshots |-> s] : s \in {<<>>, <<"x", "y">>}}
  \cup {[format |-> "workflow", level |-> l,
          usages |-> {[name |-> "act", version |-> "9fceb02", commit |-> k, comment |-> c, level |-> "step"],
                      [name |-> n, version |-> "v1", commit |-> FALSE, comment |-> "v2", level |-> "job"]}] :
          l \in {"step", "job"}, k \in BOOLEAN, c \in {"", "v1.2.3"}, n \in {"", "flow"}}

Section(n) == [is |-> "section", name |-> n]
Gem(n, v) == [is |-> "gem", name |-> n, version |-> v]
Other == [is |-> "other", name |-> "other"]
Reference(n) == [is |-> "reference", name |-> n]
MixEntry(n) == [is |-> "entry", name |-> n, version |-> "1"]

Sequences3(s) == [1..3 -> s]

LineLocks ==
  {[format |-> "gemfile", cut |-> FALSE, lines |-> <<Section(x)>> \o a \o <<Section(y), Gem("z", "1")>>] :
     x \in {"GEM", "PLATFORMS"}, y \in {"GIT", "DEPENDENCIES", "PATH"},
     a \in Sequences3({Gem("a", "1"), Gem("b", ""), Other, Section("SPECS")})}
  \cup {[format |-> "mix", cut |-> c, lines |-> a] : c \in BOOLEAN, a \in Sequences3({MixEntry("a"), MixEntry("b"), Other})}
  \cup {[format |-> "conaninfo", cut |-> c, lines |-> <<Section(x)>> \o a \o <<Section("full_requires"), Reference("z")>>] :
          c \in BOOLEAN, x \in {"full_requires", "recipe_hash", "requires"},
          a \in Sequences3({Reference("a"), Reference("b"), Other, Section("recipe_hash")})}

MCLockFiles == CargoLocks \cup ConanLocks \cup DotnetLocks \cup SmallLocks \cup LineLocks

-----------------------------------------------------------------------------
(* Databases: entries that go on, end or spoil all; files of two packages;  *)
(* what provides what; files that are missing; groups in groups.           *)

DpkgField(k, v) == [is |-> "field", key |-> k, value |-> v]
DpkgMore(v) == [is |-> "continuation", value |-> v]
DbBlank == [is |-> "blank"]
DbUnreadable == [is |-> "unreadable"]

DpkgDatabases ==
  {[manager |-> "dpkg", cut |-> c,
    lines |-> <<DpkgField("Package", <<"a">>), DpkgField("Architecture", <<arch>>),
                DpkgField("Depends", <<"b">>), DpkgField("Conffiles", <<>>), DpkgMore(<<"/c">>)>>
                \o between \o <<DpkgField("Status", <<s>>), DpkgField(second, <<"b">>), DpkgField("Version", <<"1">>)>>
                \o end,
    md5sums |-> md5, conffiles |-> conf] :
     c \in BOOLEAN, arch \in {"all", "amd64"}, s \in {"installed", "deinstall"}, second \in {"Package", "Source"},
     between \in {<<>>, <<DbBlank>>, <<DbBlank, DbUnreadable, DbBlank>>, <<DpkgMore(<<"/d">>), DbBlank>>,
                  <<DbUnreadable, DpkgMore(<<"/d">>), DbBlank>>},
     end \in {<<>>, <<DbBlank>>, <<DbBlank, DpkgMore(<<"x">>)>>},
     md5 \in {<<>>, (<<"a", "">> :> <<"/c", "/x">>), (<<"a", "">> :> <<"/y">>) @@ (<<"a", "amd64">> :> <<"/x", "/c">>)},
     conf \in {<<>>, (<<"a", "amd64">> :> <<"/c", "/e">>) @@ (<<"b", "">> :> <<"/x">>)}}

DebArchives ==
  {[manager |-> "deb", ar |-> a, control |-> c, data |-> d, name |-> "a", version |-> "1",
    md5 |-> <<"/c", "/x">>, conf |-> {"/c", "/e"}] :
     a \in {"read", "broken"}, c \in {"read", "missing", "broken"}, d \in {"read", "torn", "broken"}}

ApkLineOf(is, v) == [is |-> is, key |-> is, value |-> v]
ApkField(k, v) == [is |-> "field", key |-> k, value |-> v]

ApkDatabases ==
  {[manager |-> "apk",
    lines |-> <<ApkField("P", <<"a">>), ApkField("V", <<"1">>), ApkField("D", d)>> \o a
                \o between \o <<ApkField("P", <<"b">>), ApkField("p", <<"c">>), b, ApkLineOf("R", "y")>> \o last] :
     d \in {<<"b">>, <<"c", "a">>},
     a \in {<<>>, <<ApkLineOf("F", "etc"), ApkLineOf("R", "x"), ApkLineOf("a", "root")>>,
            <<ApkLineOf("R", "x"), ApkLineOf("F", "etc"), ApkLineOf("M", "root"), ApkLineOf("F", "usr"), ApkLineOf("R", "z")>>},
     between \in {<<DbBlank>>, <<DbBlank, [is |-> "empty"], DbBlank>>, <<DbUnreadable, DbBlank, DbUnreadable>>},
     b \in {ApkLineOf("F", "lib"), ApkLineOf("M", "bin"), [is |-> "empty"], ApkLineOf("a", "bin")},
     last \in {<<>>, <<DbBlank>>, <<ApkLineOf("a", "bin"), DbBlank>>}}

RpmEntry(n, v, provides, requires, files, readable) ==
  [name |-> n, version |-> v, provides |-> provides, requires |-> requires, files |-> files,
   filesReadable |-> readable]

RpmDatabases ==
  {[manager |-> "rpm", boolean |-> {"(x)"}, present |-> present,
    entries |-> {RpmEntry("bash", "1", {"sh"}, {"bash", need}, {"/bin/sh"}, r),
                 RpmEntry(n, "1", {"(x)", "sh"}, {"/bin/sh", "(x)"}, {"/lib"}, TRUE),
                 RpmEntry("glibc", "2", {}, {}, {"/lib", "/bin/sh"}, TRUE)}] :
     present \in SUBSET {"/bin/sh", "/lib"}, need \in {"sh", "/lib", "(x)"}, r \in BOOLEAN, n \in {"", "tool", "bash"}}
  \cup {[manager |-> "rpm", boolean |-> {}, present |-> {}, entries |-> {}]}

AlpmDatabases ==
  {[manager |-> "alpm",
    dirs |-> {[desc |-> "read", mtree |-> m, files |-> f, listed |-> <<"/x">>, name |-> "a", version |-> "1",
               provides |-> {"lib"}, requires |-> {"b"}],
              [desc |-> d, mtree |-> "read", files |-> g, listed |-> <<"/y", "/x">>, name |-> n, version |-> "2",
               provides |-> {}, requires |-> {"lib", "a"}]}] :
     m \in {"read", "missing", "bad"}, f \in {"read", "missing"}, g \in {"read", "bad"},
     d \in {"read", "bad", "nothing"}, n \in {"b", ""}}

PortageDatabases ==
  {[manager |-> "portage", name |-> n, names |-> {"g", "h", "none"}, licenses |-> l,
    groups |-> groups] :
     n \in {"", "a"}, l \in {{"mit"}, {"mit", "g"}, {"g", "h", "none"}},
     groups \in {<<>>} \cup {[g |-> x, h |-> y] : x \in {{"gpl"}, {"gpl", "h"}, {"none"}},
                                                y \in {{"bsd"}, {"mit", "g"}, {"h"}}}}

MCDatabases == DpkgDatabases \cup DebArchives \cup ApkDatabases \cup RpmDatabases
               \cup AlpmDatabases \cup PortageDatabases

-----------------------------------------------------------------------------
(* .NET: packages in circles, of which some claim a DLL, have it, or are    *)
(* left out; PEs below two documents, with a document, of a runtime.       *)

NetPackage(n, project, claims, needs) ==
  [name |-> n, version |-> "1", project |-> project, claims |-> claims, needs |-> {<<x, "1">> : x \in needs}]

NoDoc == [is |-> "none", packages |-> {}]
Pe(dir, name, is) ==
  [dir |-> dir, file |-> name, root |-> name, is |-> is, runtime |-> "", embedded |-> NoDoc]

NetRules == {[mustHave |-> h, mustClaim |-> c, propagate |-> p, relax |-> c, excludeProjects |-> x] :
               h \in BOOLEAN, c \in BOOLEAN, p \in BOOLEAN, x \in BOOLEAN}

NetPackages == {{NetPackage("app", TRUE, {<<"app.dll">>}, {"lib", "tool"}),
                 NetPackage("lib", project, {}, {"core", "lib"}),
                 NetPackage("core", FALSE, {}, needs),
                 NetPackage(last, FALSE, {<<"sub", "x.dll">>}, {})} :
                  project \in BOOLEAN, needs \in {{"lib"}, {"leaf", "lib"}, {"fody", "app"}},
                  last \in {"leaf", "fody", "runtimepack"}}

MCApps ==
  {[cataloger |-> how[1], config |-> how[2],
    docs |-> {[dir |-> <<"app">>, root |-> "app", readable |-> TRUE, packages |-> ps,
               libman |-> [is |-> IF is = "managed" THEN "read" ELSE "bad",
                         libraries |-> {<<"npm", "jquery">>}]]} \cup second,
    exes |-> {Pe(<<"app">>, "app.dll", "managed"), Pe(<<"app", "sub">>, "x.dll", is),
              [Pe(<<"rt">>, "System.dll", "managed") EXCEPT !.runtime = IF is = "managed" THEN "1" ELSE "6"], exe}] :
     how \in ({"deps-binary"} \X NetRules) \cup {<<"deps", NoRules>>, <<"binary", NoRules>>}, ps \in NetPackages,
     second \in {{}, {[dir |-> <<"app", "sub">>, root |-> "sub", readable |-> b, libman |-> [is |-> "none"],
                       packages |-> {NetPackage("sub", TRUE, {}, {"own"}),
                                     NetPackage("own", FALSE, {<<"x.dll">>}, {})}] : b \in BOOLEAN}},
     is \in {"managed", "native", "unreadable"},
     exe \in {[Pe(<<"app">>, "one", "managed") EXCEPT
                 !.embedded = [is |-> "read", packages |-> {NetPackage("one", TRUE, {<<"one">>}, {"core"}),
                                                            NetPackage("core", FALSE, {<<"app.dll">>}, {})}]],
              Pe(<<"ap">>, "two", "managed")}}

-----------------------------------------------------------------------------
(* Go: packages that import each other, broken and in the library, modules   *)
(* replaced once or twice; binaries of one architecture and of two; places   *)
(* with licenses, and one or two proxies.                                    *)

GoModule(path, version) == [path |-> path, version |-> version, replace |-> <<>>]
GoReplaced(path, version, by, v) == [GoModule(path, version) EXCEPT !.replace = <<GoModule(by, v)>>]
GoPackage(m, imports) ==
  [module |-> m, std |-> FALSE, broken |-> FALSE, files |-> TRUE, imports |-> imports]

GoReplaces == {<<>>, <<GoReplaced("lib", "1", "fork", "2")>>, <<GoReplaced("lib", "1", "./lib", "")>>, <<GoReplaced("lib", "1", "/lib", "")>>,
               <<GoReplaced("other", "", "fork", "2"), GoReplaced("dep", "", "./dep", "")>>,
               <<GoReplaced("lib", "", "fork", "2"), GoReplaced("fork", "", "deep", "3")>>}

GoGraphs ==
  {[app |-> GoPackage("app", {"lib", "fmt"}),
    test |-> [GoPackage("app", {"sub", "app"}) EXCEPT !.broken = b],
    lib |-> GoPackage("lib", imports),
    sub |-> [GoPackage("lib", {"deep"}) EXCEPT !.broken = ~b],
    dep |-> [GoPackage("dep", {"lib", "deep"}) EXCEPT !.files = f],
    deep |-> GoPackage("deep", {"dep"}),
    fmt |-> [GoPackage(m, {"deep"}) EXCEPT !.std = (m # "")]] :
     b \in BOOLEAN, imports \in {{}, {"dep"}, {"sub", "dep", "fmt"}}, f \in BOOLEAN, m \in {"", "std"}}

GoMods ==
  {[kind |-> "mod", readable |-> TRUE, usesLib |-> u, graph |-> g,
    roots |-> IF u THEN r ELSE {},
    modules |-> ("app" :> GoModule("app", "")) @@ ("dep" :> GoModule("dep", "1"))
                @@ ("deep" :> GoModule("deep", "1")) @@ ("std" :> GoModule("std", ""))
                @@ ("lib" :> IF directives # <<>> /\ directives[1].path = "lib"
                              THEN [directives[1] EXCEPT !.version = "1"] ELSE GoModule("lib", "1")),
    require |-> <<GoModule("unused", "2"), GoModule("lib", "1"), GoModule("dep", "1"), GoModule("unused", "1"),
                  GoModule("fork", "1")>>,
    replaces |-> directives, excludes |-> x] :
     u \in BOOLEAN, g \in GoGraphs, r \in {{"app"}, {"app", "test"}, {}}, directives \in GoReplaces,
     x \in {{}, {"lib", "unused"}, {"fork"}}}
  \cup {[kind |-> "mod", readable |-> FALSE, usesLib |-> TRUE]}

GoBuild(arch, main, path, deps, u) ==
  [is |-> "go", arch |-> arch, main |-> main, path |-> path, deps |-> deps, unknown |-> u,
   ldflags |-> "v1", contents |-> IF path = "" THEN "" ELSE "v2", revision |-> "v0-r",
   goVersion |-> IF arch = "arm" THEN "go1.21" ELSE "devel"]

GoBuildsOf(arch) ==
  {GoBuild(arch, main, path, deps, u) :
     main \in {EmptyModule, PartialBuild, GoModule("own", Devel), GoModule("app", "v1")},
     path \in {"", "app/cmd"},
     deps \in {<<>>, <<GoModule("lib", "v1"), GoModule("own", Devel)>>,
               <<GoReplaced("lib", "v1", "fork", "v2"), GoReplaced("dep", "v1", "./dep", Devel)>>,
               <<GoModule("lib", Devel), GoModule("dep", Devel)>>},
     u \in IF arch = "amd" THEN {{}} ELSE {{}, {"arch"}}}

GoBinaries ==
  {[kind |-> "binary", torn |-> FALSE, builds |-> b, config |-> [ldflags |-> l, contents |-> c, settings |-> l]] :
     b \in {<<x>> : x \in GoBuildsOf("arm") \cup GoBuildsOf("amd")}
           \cup {<<x, y>> : x \in GoBuildsOf("amd"), y \in {y \in GoBuildsOf("arm") : y.path # "" /\ y.unknown = {}}}
           \cup {<<[is |-> "other"], x>> : x \in GoBuildsOf("amd")},
     l \in BOOLEAN, c \in BOOLEAN}
  \cup {[kind |-> "binary", torn |-> TRUE, builds |-> <<>>]}

Proxy(is, ok, l) == [is |-> is, ok |-> ok, licenses |-> l]
GoProxies == {Proxy("http", TRUE, {"mit"}), Proxy("http", FALSE, {}), Proxy("http", TRUE, {}),
              Proxy("direct", TRUE, {"bsd"}), Proxy("direct", FALSE, {}),
              Proxy("file", TRUE, {"isc"}), Proxy("file", FALSE, {})}

GoSearches ==
  {[kind |-> "licenses", places |-> p,
    has |-> [source |-> s, cache |-> c, vendor |-> v], private |-> private,
    proxies |-> proxies, repository |-> Proxy("direct", c = {}, {"gpl"})] :
     p \in SUBSET {"cache", "vendor", "remote"}, s \in {{}, {"a"}}, c \in {{}, {"b"}}, v \in {{}, {"c", "d"}},
     private \in BOOLEAN, proxies \in {<<x>> : x \in GoProxies} \cup {<<x, y>> : x \in GoProxies, y \in {y \in GoProxies : y.ok}}}

MCGoFiles == GoMods \cup GoBinaries \cup GoSearches
MCLocalPaths == {"./lib", "./dep", "/lib"}
MCDotPaths == {"./lib", "./dep"}

-----------------------------------------------------------------------------
(* Executables: classifiers in two orders, resources in circles, addresses *)
(* that wrap.                                                              *)

BinaryFile(readable, captures, imports) ==
  [readable |-> readable, captures |-> captures, imports |-> imports, name |-> "ext"]

Contents(p) == [is |-> "contents", patterns |-> <<p>>]
AnyOf(ms) == [is |-> "any", of |-> ms]
AllOf(ms) == [is |-> "all", of |-> ms]
Classifier(c, p, globbed, m) == [class |-> c, package |-> p, type |-> "binary", globbed |-> globbed, matcher |-> m]

Matchers ==
  {Contents("p"), AnyOf(<<Contents("q"), Contents("p")>>), AllOf(<<Contents("p"), Contents("q")>>),
   [is |-> "contents", patterns |-> <<"p", "q">>],
   [is |-> "template", names |-> {"x"}, pattern |-> "p"],
   AllOf(<<[is |-> "path", names |-> {"x", "y"}], Contents("q")>>),
   [is |-> "library", names |-> {"so"}, of |-> Contents("p")],
   [is |-> "beside", of |-> AnyOf(<<Contents("p"), Contents("q")>>)],
   [is |-> "branch", of |-> <<Classifier("b1", "k1", <<>>, Contents("q")), Classifier("b2", "k2", <<>>, Contents("p"))>>]}

Captured1(v) == [version |-> v]
Captures == {<<>>, "p" :> Captured1("1"), ("p" :> Captured1("1")) @@ ("q" :> [major |-> "1"]),
             ("p" :> [major |-> "1", minor |-> "0"]) @@ ("q" :> [patch |-> "2"]),
             ("p" :> Captured1("1")) @@ ("q" :> Captured1("2"))}

BinaryFiles ==
  {("x" :> BinaryFile(rx, cx, <<"so", "none">>)) @@ ("y" :> BinaryFile(ry, cy, <<"so">>))
     @@ ("lib" :> BinaryFile(TRUE, ("p" :> Captured1("1")), <<>>)) :
     rx \in {TRUE}, ry \in BOOLEAN, cx \in Captures, cy \in Captures}

Classified2 ==
  {[kind |-> "classifiers", files |-> files, named |-> [so |-> <<"lib", "x">>],
    beside |-> [x |-> <<"lib">>, y |-> <<"x", "lib">>, lib |-> <<>>],
    classifiers |-> order] :
     files \in BinaryFiles,
     order \in UNION {{<<Classifier("c1", "k1", <<"x", "y">>, m), c, Classifier("c3", "k1", <<"x">>, Contents("q"))>>,
                       <<Classifier("c3", "k1", <<"x">>, Contents("q")), c, Classifier("c1", "k1", <<"x", "y">>, m)>>} :
                        m \in Matchers, c \in {Classifier("c2", "k2", <<"y">>, Contents("p"))}}}

PhpInstalls ==
  {[kind |-> "php", files |-> ("x" :> BinaryFile(TRUE, cx, <<>>)) @@ ("y" :> BinaryFile(ry, cy, <<>>))
                              @@ ("z" :> BinaryFile(TRUE, ("extension" :> Captured1("8")), <<>>)),
    classifiers |-> <<Classifier("cli", "php-cli", <<"x">>, Contents("p")), Classifier("fpm", "php-fpm", <<"x", "y">>, Contents("q"))>>,
    extensions |-> <<"y", "z">>] :
     cx \in Captures, ry \in BOOLEAN, cy \in {("extension" :> Captured1("8")), ("extension" :> <<>>), <<>>}}

ElfNote(is, n, v, ty, os, osv, c) ==
  [is |-> is, name |-> n, version |-> v, purl |-> "", cpe |-> c, type |-> ty, os |-> os, osVersion |-> osv,
   osCpe |-> IF c = "" THEN <<>> ELSE <<"bad">>, correctOsCpe |-> <<"fedora", "40">>, system |-> "sys"]
NoteFile(loc, readable, note) == [loc |-> loc, readable |-> readable, note |-> note]

NotedFiles ==
  {[kind |-> "elf notes",
    files |-> <<NoteFile("x", TRUE, a), NoteFile("y", r, b), NoteFile("z", TRUE, ElfNote(is, "n", "1", "rpm", os, "", ""))>>] :
     a \in {ElfNote("json", "n", v, "rpm", "", "", "") : v \in {"1", ""}},
     b \in {ElfNote("after header", n, v, ty, "fedora", "39", c) :
              n \in {"n", "m"}, v \in {"1", "2"}, ty \in {"rpm", "other"}, c \in {"", "c"}},
     r \in BOOLEAN, is \in {"json", "none", "other"}, os \in {"", "fedora"}}

Symbol(n, defined) == [name |-> n, defined |-> defined, external |-> TRUE, private |-> FALSE]
Exe(loc, is, imports, parses) ==
  [loc |-> loc, readable |-> TRUE, short |-> FALSE, is |-> is, parses |-> parses, imports |-> imports,
   stacks |-> <<[executable |-> FALSE]>>, relro |-> TRUE, bindNow |-> FALSE, shared |-> TRUE, pieFlag |-> FALSE,
   symtab |-> TRUE, entry |-> TRUE, dynamic |-> <<{Symbol("stack_chk", TRUE)}>>, symbols |-> Unreadable,
   names |-> {"main"}, exports |-> TRUE,
   archs |-> <<[parses |-> TRUE, imports |-> <<{"libc"}>>, main |-> TRUE, symbols |-> {Symbol("_main", TRUE)}],
               [parses |-> parses, imports |-> imports, main |-> FALSE, symbols |-> {Symbol("f", TRUE)}]>>]

Exes ==
  {[kind |-> "executables",
    files |-> <<[Exe("x", a, i, p) EXCEPT !.relro = relro, !.bindNow = i = Unreadable], Exe("y", b, <<{"libm"}>>, TRUE),
                [Exe("z", "elf", <<{}>>, TRUE) EXCEPT !.readable = r, !.short = s]>>] :
     a \in {"elf", "pe", "macho", "text"}, b \in {"elf", "pe", "macho"}, i \in {Unreadable, <<{"libc"}>>},
     p \in BOOLEAN, r \in BOOLEAN, s \in BOOLEAN, relro \in BOOLEAN}

ImageData(base, size, at, length) == [base |-> base, size |-> size, lengthAt |-> 0, length |-> length, sbomAt |-> at]
SbomSymbols(sbom, length, version) ==
  <<[name |-> "svm_version", value |-> version], [name |-> "sbom", value |-> sbom], [name |-> "sbom_length", value |-> length]>>

Images ==
  {[is |-> is, symtab |-> st, dynsym |-> <<SbomSymbols(v, 4, 1)>>, symbols |-> SbomSymbols(v, l, 1),
    data |-> d, packages |-> {"java"}] :
     is \in {"elf", "macho", "other"}, st \in {Unreadable, <<<<>>>>, <<SbomSymbols(6, 4, 1)>>, <<SbomSymbols(5, 3, 0)>>},
     v \in {0, 3, 5, 15}, l \in {4, 15}, d \in {<<>>} \cup {<<ImageData(4, z, at, n)>> : z \in {1, 6}, at \in {1, 11}, n \in {0, 3, 6}}}
  \cup
  {[is |-> "pe", names |-> names, tight |-> tight, pointers |-> <<4, 5, 4, 1>>, data |-> d, packages |-> {"java"}] :
     names \in {<<"f", "sbom", "sbom_length", "svm_version">>, <<"sbom", "sbom_length", "svm_version", "f">>,
                <<"f", "sbom", "bad", "svm_version">>, <<"sbom", "sbom", "sbom_length", "svm_version">>},
     tight \in BOOLEAN, d \in {<<>>, <<ImageData(4, 6, 1, 3)>>}}

ImageFile(loc, readable, torn, images) == [loc |-> loc, readable |-> readable, torn |-> torn, images |-> images]
NativeImages ==
  {[kind |-> "native images", files |-> <<ImageFile("x", TRUE, FALSE, <<i, j>>), ImageFile("y", TRUE, t, <<j>>),
                                   ImageFile("z", FALSE, FALSE, <<j>>)>>] :
     i \in Images, j \in {[is |-> "other", data |-> <<>>, packages |-> {"none"}]}, t \in BOOLEAN}

InDir(n, d) == [is |-> "dir", name |-> n, dir |-> d]
InData(n, r) == [is |-> "data", name |-> n, resource |-> r]
Directory(s) == [named |-> 0, ids |-> Len(s), entries |-> s]

Resource1(c) == [is |-> "version", claims |-> c, torn |-> FALSE, fixed |-> "1.0",
                 strings |-> <<<<"ProductName", "ghostscript">>, <<"ProductVersion", "9">>>>]
Icon(k) == [is |-> "other", claims |-> 0, torn |-> FALSE, fixed |-> k, strings |-> <<>>]
Torn == [is |-> "version", claims |-> 3, torn |-> TRUE, fixed |-> "2.0", strings |-> <<<<"CompanyName", "microsoft">>>>]

PeFiles ==
  {[kind |-> "pe", loc |-> "x", header |-> h, clr |-> clr, root |-> root, bundle |-> b,
    directories |-> [top |-> Directory(<<InDir("", "a"), InDir(n, "b"), InData("", Icon("1"))>>),
                     a |-> Directory(<<InDir("", back), InData("", Resource1(c))>>),
                     b |-> bs]] :
     h \in {"good", "bad"}, clr \in {<<0, 0>>, <<2, 5>>}, root \in {"top", "b", "none"}, n \in {"", "CLRDEBUGINFO"},
     back \in {"a", "b", "top"}, c \in {0, 2, 3},
     bs \in {Directory(<<>>), Directory(<<InData("", Torn), InDir("", "a")>>), Directory([k \in 1..4 |-> InData("", Icon("2"))]),
             [named |-> 65535, ids |-> 2, entries |-> <<InData("", Icon("2"))>>]},
     b \in {[broken |-> TRUE, offset |-> 1]}
           \cup {[broken |-> FALSE, offset |-> o, major |-> m, direct |-> "deps2",
                  manifest |-> <<[is |-> "assembly", size |-> 1, holds |-> "dll"], [is |-> "deps", size |-> 1, holds |-> "deps1"]>>] :
                   o \in {0, 8}, m \in {1, 6}}}

JvmText(text, major, short, update, style) ==
  [text |-> text, major |-> major, short |-> short, update |-> update, style |-> style]
NoText == JvmText("", "", "", "", "")
Java8 == JvmText("1.8.0_411", "8", "1.8.0", "411", "legacy")
Java21 == JvmText("21.0.2", "21", "21.0.2", "", "jep223")

Jvms ==
  {[kind |-> "jvm", hasJdk |-> h, path |-> p,
    release |-> [runtime |-> rt, full |-> fl, java |-> j, implementor |-> i, imageType |-> ty, commercial |-> c]] :
     h \in BOOLEAN, p \in {"", "zulu", "ibm", "oracle"}, rt \in {NoText, Java21},
     fl \in {NoText, JvmText("21.0.2+13-LTS", "21", "21.0.2", "", "jep223")}, j \in {NoText, Java8, Java21},
     i \in {"azul", "sun", "ibm", "oracle", "other"}, ty \in {"jdk", "jre", ""}, c \in BOOLEAN}

MCBinaries == Classified2 \cup PhpInstalls \cup NotedFiles \cup Exes \cup NativeImages \cup PeFiles \cup Jvms

-----------------------------------------------------------------------------
\* One at a time.  What has no turn stands still where it could begin.
StillJs == js = (CHOOSE l \in JsLocks : TRUE) /\ JsInit
StillPy == py = (CHOOSE f \in PyFiles : TRUE) /\ PyInit
StillLf == lf = (CHOOSE f \in LockFiles : TRUE) /\ LfInit

StillDb == db = (CHOOSE d \in Databases : TRUE) /\ DbInit
StillApp == app = (CHOOSE a \in Apps : TRUE) /\ AppInit
StillBin == bin = (CHOOSE b \in Binaries : TRUE) /\ BinInit
StillGo == go = (CHOOSE f \in GoFiles : TRUE) /\ GoInit

StillFiles == StillJs /\ StillPy /\ StillLf /\ StillDb /\ StillApp /\ StillGo /\ StillBin

FilesInit ==
  \/ turn = "javascript" /\ StillPy /\ StillLf /\ StillDb /\ StillApp /\ StillGo /\ StillBin /\ JsInit
  \/ turn = "python" /\ StillJs /\ StillLf /\ StillDb /\ StillApp /\ StillGo /\ StillBin /\ PyInit
  \/ turn = "locks" /\ StillJs /\ StillPy /\ StillDb /\ StillApp /\ StillGo /\ StillBin /\ LfInit
  \/ turn = "databases" /\ StillJs /\ StillPy /\ StillLf /\ StillApp /\ StillGo /\ StillBin /\ DbInit
  \/ turn = "dotnet" /\ StillJs /\ StillPy /\ StillLf /\ StillDb /\ StillGo /\ StillBin /\ AppInit
  \/ turn = "go" /\ StillJs /\ StillPy /\ StillLf /\ StillDb /\ StillApp /\ StillBin /\ GoInit
  \/ turn = "binaries" /\ StillJs /\ StillPy /\ StillLf /\ StillDb /\ StillApp /\ StillGo /\ BinInit

filesVars == <<jsVars, pyVars, lfVars, dbVars, appVars, goVars, binVars>>

FilesNext ==
  \/ turn = "javascript" /\ JsNext /\ UNCHANGED <<turn, pyVars, lfVars, dbVars, appVars, goVars, binVars>>
  \/ turn = "python" /\ PyNext /\ UNCHANGED <<turn, jsVars, lfVars, dbVars, appVars, goVars, binVars>>
  \/ turn = "locks" /\ LfNext /\ UNCHANGED <<turn, jsVars, pyVars, dbVars, appVars, goVars, binVars>>
  \/ turn = "databases" /\ DbStep /\ UNCHANGED <<turn, jsVars, pyVars, lfVars, appVars, goVars, binVars>>
  \/ turn = "dotnet" /\ AppNext /\ UNCHANGED <<turn, jsVars, pyVars, lfVars, dbVars, goVars, binVars>>
  \/ turn = "go" /\ GoNext /\ UNCHANGED <<turn, jsVars, pyVars, lfVars, dbVars, appVars, binVars>>
  \/ turn = "binaries" /\ BinNext /\ UNCHANGED <<turn, jsVars, pyVars, lfVars, dbVars, appVars, goVars>>

\* What lock files of Javascript and Python, environments and the databases of OS packages
\* say is reported, or an error is, and what depends on what is linked within the right
\* versions, places and environments (parse_yarn_lock.go:188, virtual_env.go:37,
\* parse_dpkg_db.go:199, parse_apk_db.go:235).
ListingsRead == JsLocked /\ PythonLocked /\ DatabasesRead

\* What documents and executables say of a .NET application, and what binaries show of
\* themselves, is reported, with what needs what (deps_binary_cataloger.go:150-415,
\* classifier_cataloger.go:73-100).
ExecutablesRead == DotnetRead /\ BinariesRead
=============================================================================
