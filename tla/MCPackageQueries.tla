--------------------------- MODULE MCPackageQueries ---------------------------
(* Versions of which the numbers and the text disagree ("1.10" and "1.9"), one
   that runs out of numbers ("1.9" and "1.9.1") and one that is missing, in two
   repos and three modules; lists with one slot and with several. *)
EXTENDS PackageQueries

CONSTANTS app, tool, other

Version(numbers, text) == [numbers |-> numbers, text |-> text]

Pack(repo, id, module, version) ==
  [repo |-> repo, id |-> id, module |-> module, version |-> version]

v9 == Pack("stable", app, "binary", Version(<<1, 9>>, 2))
v91 == Pack("stable", app, "binary", Version(<<1, 9, 1>>, 3))
v10 == Pack("stable", app, "binary", Version(<<1, 10>>, 1))
v0 == Pack("stable", app, "binary", NoVersion)
dev == Pack("stable", app, Develop, Version(<<1, 10>>, 1))
run == Pack("stable", app, "runtime", Version(<<1, 9>>, 2))
beta == Pack("beta", app, "binary", Version(<<1, 10>>, 1))
tool9 == Pack("stable", tool, "binary", Version(<<1, 9>>, 2))

MCPackages == {v9, v91, v10, v0, dev, run, beta, tool9}

MCResults ==
  SeqOf({v9, v91, v10}, 2)
  \cup {<<v9, v10, v91>>, <<v10, v9, v91>>, <<v91, v9, v9>>, <<v0, v9>>, <<v91, v0>>,
        <<dev, v9>>, <<tool9, v9, tool9>>, <<v9, tool9, v10, dev>>,
        <<v9, run, beta, v91>>, <<beta, v9, v10>>, <<beta, dev, beta>>}

MCRepoArgs == {{"beta", Blank}}

Repo(alias, name) == [alias |-> alias, name |-> name]

MCConfigurations ==
  {{Repo(Nothing, "stable"), Repo("beta", "internal")}, {Repo(Blank, "stable")}}

Layer(id, kind, repo) == [id |-> id, kind |-> kind, repo |-> repo]
Doc(shape, layers, length) == [shape |-> shape, layers |-> layers, length |-> length]

MCEmpty == Doc("other", <<>>, 0)
MCGarbage == Doc("other", <<>>, 2)
MCDocuments ==
  {Doc("layers", <<Layer(app, "app", "stable"), Layer(other, "runtime", "stable"),
                   Layer(Absent, "app", "stable")>>, 3),
   Doc("layers", <<Layer(tool, Absent, Absent)>>, 1),
   Doc("array", <<Layer(app, "app", Absent), Layer(tool, "app", Absent)>>, 2)}

(* Old and new layers in one object, and one layer with fields of two. *)
MCMixtures ==
  {Doc("layers", <<Layer(tool, Absent, Absent), Layer(app, "app", "stable")>>, 3),
   Doc("layers", <<Layer(other, "app", Absent)>>, 1)}
=============================================================================
