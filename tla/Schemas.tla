------------------------------- MODULE Schemas -------------------------------
(***************************************************************************)
(* The schema controller of an instance (lib/schema-controller.js) and its *)
(* bucket (lib/schemas.js).  A compiler is known by where it comes from    *)
(* and by the ids of the schemas it was built with.                        *)
(***************************************************************************)
Parts == {"validator", "serializer"}

NoCompiler == [by |-> "none", knows |-> {}]
Custom == [by |-> "application", knows |-> {}]

SchemaController ==
  [store |-> {}, added |-> FALSE, compiler |-> [part \in Parts |-> NoCompiler]]

(* The constructor with a parent: a copy of the parent's schemas, and the  *)
(* compilers that the parent's getters return.                             *)
BuildSchemaController(parent, compilers) ==
  [SchemaController EXCEPT !.store = parent.store, !.compiler = compilers]

(* Schemas.add refuses an id it has, after add set addedSchemas.           *)
AddToBucket(s, id) == [s EXCEPT !.added = TRUE, !.store = @ \cup {id}]

SetCompiler(s, part) == [s EXCEPT !.compiler[part] = Custom]

(* setupValidator and setupSerializer.                                     *)
IsReady(s, part) == s.compiler[part] # NoCompiler /\ ~s.added

Setup(s, part) ==
  IF IsReady(s, part) THEN s
  ELSE [s EXCEPT !.compiler[part] = [by |-> "factory", knows |-> s.store]]

SetupAll(s, parts) ==
  [s EXCEPT !.compiler = [part \in Parts |->
     IF part \in parts THEN Setup(s, part).compiler[part] ELSE @[part]]]

(* A compiler of the factory throws on a reference it cannot resolve.      *)
Compiles(s, part, ref) == s.compiler[part].by = "factory" => ref \in s.compiler[part].knows
=============================================================================
