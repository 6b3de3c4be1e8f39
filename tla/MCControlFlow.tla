--------------------------- MODULE MCControlFlow ---------------------------
(* Small function bodies, chosen so that every control structure occurs in *)
(* every other, with the conditions and bodies that ControlFlow lowers     *)
(* differently.                                                            *)
EXTENDS Lockstep

a == Atom("a")
b == Atom("b")
c == Atom("c")
x == Atom("x")
y == Atom("y")
z == Atom("z")

NotAnd == Not(And(a, b))

(* Conditions of an if: the operands of && are lowered in its place.       *)
Conditions == {a, Not(a), And(a, b), And(And(a, b), c),
               And(a, Or(b, c)), And(Not(a), And(b, c))}

(* Bodies of single instructions, and one that brings its own blocks.      *)
Plain == {<<x>>, <<Not(Or(x, y))>>}
Bodies == Plain \union {<<>>, <<And(x, y)>>, <<x, Return(<<y>>)>>}
LoopBodies == Bodies \union {<<x, Break, y>>}

Ifs(conditions, thens, elses) ==
  {If(e, s, t) : e \in conditions, s \in thens, t \in elses}
Loops(bodies) ==
  {While(e, s) : e \in {a, Not(a)}, s \in bodies}
  \union {Do(s, e) : s \in {<<>>, <<x>>, <<x, Break>>}, e \in {a, NotAnd}}
  \union {For(x, e, step, s) :
            e \in {a, NotAnd}, step \in {y, Or(y, z)}, s \in bodies}

InLoops == {<<s>> : s \in Ifs({a, And(a, Or(b, c))}, {<<Break>>}, {<<>>, <<x>>})}
           \union {<<While(b, <<Break>>), x>>, <<x, For(x, b, y, <<>>)>>}
InIfs == {<<s>> : s \in Loops({<<y>>, <<Break>>})}

MCPrograms ==
  {<<s, z>> : s \in Ifs(Conditions, Bodies, Bodies)
                 \union Loops(LoopBodies \union InLoops)
                 \union Ifs({b, And(a, b)}, InIfs, {<<>>, <<x>>})
                 \union Ifs({b}, {<<x>>}, InIfs)}
  \union {<<Return(<<Or(x, y)>>), z>>, <<>>}

(* Bodies whose code does something else.                                  *)
MCDoWhilePrograms == {<<Do(<<If(a, <<x>>, <<>>), y>>, b), z>>}
MCConditionPrograms ==
  {<<If(Or(a, b), <<x>>, <<>>), z>>, <<If(NotAnd, <<x>>, <<>>), z>>,
   <<While(And(a, b), <<x>>), z>>}
=============================================================================
