------------------------------ MODULE ImportPaths ------------------------------
(***************************************************************************)
(* Where local imports lead: the paths that ImportLocationKind::chain_local*)
(* computes along a chain of files that import one another, against the    *)
(* files their authors mean.  ImportResolution takes these paths as atoms; *)
(* here they are the components of a PathBuf.                              *)
(*                                                                         *)
(* The path a location keeps is lexical, and relative to the working       *)
(* directory or not as the chain began.  `meant` follows the same imports  *)
(* over absolute paths, as one would by hand; there are no symbolic links. *)
(***************************************************************************)
EXTENDS Naturals, Sequences, SequencesExt

CONSTANTS
    Names,      \* names of files and directories
    Cwd,        \* the working directory, from the root
    Home,       \* the home directory, from the root
    Starts,     \* the paths Parsed::parse_file may be given
    Imports,    \* local imports: a prefix and the path behind it
    MaxHops     \* bound: imports followed in a chain

FilePrefix == {"Here", "Parent", "Absolute", "Home"}
Components == Names \cup {".", "..", "/", "~"}

ASSUME PathsAssumption ==
    /\ Names \cap {".", "..", "/", "~"} = {}
    /\ Cwd \in Seq(Names) /\ Home \in Seq(Names)
    /\ Starts \subseteq Seq(Components) \ {<<>>}
    /\ Imports \subseteq [prefix : FilePrefix, path : Seq(Names \cup {".", ".."})]
    /\ MaxHops \in Nat

(* What is read at first is a file, by a path that ends in its name.  A path *)
(* has the root in front or not at all.                                     *)
ASSUME StartsAssumption ==
    \A start \in Starts :
        Last(start) \in Names /\ \A i \in 2..Len(start) : start[i] # "/"

VARIABLES
    here,       \* the location of the file being read: a path, or NoPath
    meant,      \* the file meant, from the root
    anchor,     \* what the last path that was not relative to a file began at
    followed,   \* whether a relative import was followed since
    overRoot,   \* whether `..` has been taken at the root since
    hops

vars == <<here, meant, anchor, followed, overRoot, hops>>

(* ImportLocationKind::Missing and Env: text that no file holds.            *)
NoPath == <<>>

-----------------------------------------------------------------------------
(* The file system's reading of a path, one component at a time.  The root  *)
(* is its own parent.                                                       *)
Enter(pos, c) ==
    CASE c = "."  -> pos
      [] c = ".." -> IF pos.dir = <<>> THEN [pos EXCEPT !.over = TRUE]
                     ELSE [pos EXCEPT !.dir = Front(@)]
      [] OTHER    -> [pos EXCEPT !.dir = Append(@, c)]
Walk(dir, path) ==
    LET at[i \in 0..Len(path)] ==
            IF i = 0 THEN [dir |-> dir, over |-> FALSE] ELSE Enter(at[i - 1], path[i])
    IN  at[Len(path)]

(* resolve_home, and the system call that opens the result.                 *)
Reached(path) ==
    CASE Head(path) = "~" -> Walk(Home, Tail(path))
      [] Head(path) = "/" -> Walk(<<>>, Tail(path))
      [] OTHER            -> Walk(Cwd, path)
Opened(path) == Reached(path).dir

(* What can be read: no directory that is known to be one.                  *)
IsFile(p) == ~IsPrefix(p, Cwd) /\ ~IsPrefix(p, Home)

-----------------------------------------------------------------------------
(* FilePath::canonicalize: `..` takes away a component in front of it unless*)
(* that is `..` too, whatever else the component is.                        *)
(* Mutants: `..` takes away `..` as well; nothing is done.                  *)
PushedPoppingAll(out, c) ==
    CASE c = "."                -> out
      [] c = ".." /\ out # <<>> -> Front(out)
      [] OTHER                  -> Append(out, c)
Pushed(out, c) ==
    CASE c = "."                                -> out
      [] c = ".." /\ out # <<>> /\ Last(out) # ".." -> Front(out)
      [] OTHER                                  -> Append(out, c)

canonicalizeNothing(path) == path
canonicalize(path) ==
    LET out[i \in 0..Len(path)] ==
            IF i = 0 THEN <<>> ELSE Pushed(out[i - 1], path[i])
    IN  out[Len(path)]

(* Collecting components into a PathBuf: one that is absolute replaces what *)
(* was there.                                                               *)
Collected(path) ==
    LET roots == {i \in DOMAIN path : path[i] = "/"}
    IN  IF roots = {} THEN path
        ELSE SubSeq(path, CHOOSE i \in roots : \A j \in roots : j <= i, Len(path))

Directory(loc) == IF loc = NoPath THEN <<"/">> \o Cwd ELSE Front(loc)

chain_local(loc, prefix, path) ==
    LET root == CASE prefix = "Here"   -> Directory(loc)
                  [] prefix = "Parent" -> Append(Directory(loc), "..")
                  [] OTHER             -> <<>>
        first == CASE prefix = "Absolute" -> "/"
                   [] prefix = "Home"     -> "~"
                   [] OTHER               -> "."
    IN  Collected(<<first>> \o canonicalize(root \o path))

-----------------------------------------------------------------------------
(* What the author of the file `meant` means by an import.                  *)
Meaning(import) ==
    CASE import.prefix = "Absolute" -> Walk(<<>>, import.path)
      [] import.prefix = "Home"     -> Walk(Home, import.path)
      [] import.prefix = "Here"     -> Walk(Front(meant), import.path)
      [] OTHER                      -> Walk(Front(meant), <<"..">> \o import.path)

AnchorOf(path) ==
    CASE Head(path) = "~" -> "home" [] Head(path) = "/" -> "root"
      [] OTHER -> "cwd"

(* A file is read and one of the imports in it is followed.                 *)
Follow(import) ==
    /\ hops < MaxHops /\ hops' = hops + 1
    /\ here # NoPath => IsFile(Opened(here)) /\ IsFile(meant)
    /\ here' = chain_local(here, import.prefix, import.path)
    /\ meant' = Meaning(import).dir
    /\ IF import.prefix \in {"Here", "Parent"}
          THEN /\ anchor' = anchor /\ followed' = TRUE
               /\ overRoot' = (overRoot \/ Meaning(import).over)
          ELSE /\ anchor' = IF import.prefix = "Home" THEN "home" ELSE "root"
               /\ followed' = FALSE
               /\ overRoot' = Meaning(import).over

(* The text of an environment variable is read as if it stood in a file of  *)
(* the working directory.                                                   *)
Unnamed == Append(Cwd, "")
FollowEnv ==
    /\ hops < MaxHops /\ hops' = hops + 1
    /\ here # NoPath => IsFile(Opened(here))
    /\ here' = NoPath /\ meant' = Unnamed
    /\ anchor' = "root" /\ followed' = FALSE /\ overRoot' = FALSE

Init ==
    /\ hops = 0 /\ followed = FALSE
    /\ \/ /\ here \in Starts /\ meant = Opened(here)
          /\ anchor = AnchorOf(here) /\ overRoot = Reached(here).over
       \/ /\ here = NoPath /\ meant = Unnamed
          /\ anchor = "root" /\ overRoot = FALSE

Next == FollowEnv \/ \E import \in Imports : Follow(import)
Spec == Init /\ [][Next]_vars

-----------------------------------------------------------------------------
Ups(path) == {i \in DOMAIN path : path[i] = ".."}

(* A chain of imports opens the files its authors mean.  Two kinds of chain *)
(* are excepted, which ChainedImportsReachNeighbours is about.              *)
NeighbourIsOpened ==
    \/ here = NoPath
    \/ anchor = "home" /\ followed
    \/ anchor = "root" /\ overRoot
    \/ Opened(here) = meant

(* A chain of relative imports that stays below the root has finitely many  *)
(* locations to go to: a path climbs no further than the working directory  *)
(* is deep, so a cycle of files comes back to a location it has been at,    *)
(* which is what the resolver's stack notices.                              *)
PathsStayShort ==
    anchor = "cwd" /\ ~overRoot /\ hops > 0 =>
        Len(here) <= 1 + Cardinality(Ups(here)) + Len(meant)
        /\ Cardinality(Ups(here)) <= Len(Cwd)

(* What the comments on Ctxt::push_import and ImportLocation::chain promise:*)
(* an import is resolved relative to the location it stands in.             *)
ChainedImportsReachNeighbours == here # NoPath => Opened(here) = meant
=============================================================================
