--------------------------- MODULE MCFrameworkLinks --------------------------
(***************************************************************************)
(* Four files for TLC: app mounts the router of api and wants a database   *)
(* from lib; api has two routes, one of them handled by a controller of    *)
(* lib, and a model related to those of others; alt defines the same once  *)
(* more.                                                                   *)
(***************************************************************************)
EXTENDS FrameworkLinks

F4 == {"app", "api", "lib", "alt"}
MethodOf(c, n) == [kind |-> "method", class |-> c, name |-> n]
Model(class, table, relations) ==
  [class |-> class, table |-> table, framework |-> "sqlalchemy", relations |-> relations]
Nothing == [imports |-> {}, routes |-> {}, mounts |-> {}, services |-> {}, defs |-> {}, models |-> {}]
Mount(n, prefix) == [name |-> n, var |-> "router", head |-> "", prefix |-> prefix]
Route(n, class, method) == [name |-> n, var |-> "router", class |-> class, method |-> method]

App(prefix) == [Nothing EXCEPT !.imports = {"api", "lib", "alt"}, !.mounts = {Mount("m", prefix)},
                               !.services = {"get_db"},
                               !.models = {[Model("User", "", {}) EXCEPT !.framework = "django"]}]
Api == [Nothing EXCEPT !.routes = {Route("list", "", "index"), Route("show", "Shop", "show")},
                       !.defs = {Function("index"), Function("Shop")},
                       !.models = {Model("Order", "orders", {[by |-> "class", to |-> "User"],
                                                             [by |-> "table", to |-> "members"]})}]
Lib == [Nothing EXCEPT !.defs = {Function("get_db"), Class("Shop"), MethodOf("Shop", "show"), MethodOf("Shop", "__invoke")},
                       !.models = {Model("User", "users", {})}]
\* Its own mount of the router, once more, and a User of another table.
Alt == [Lib EXCEPT !.imports = {"api"}, !.mounts = {Mount("n", "/v2")}, !.models = {Model("User", "members", {})}]

Contents == [f \in F4 |-> CASE f = "app" -> {App("/api"), App("")}
                            [] f = "api" -> {Api, [Api EXCEPT !.routes = {Route("list", "", "gone"), Route("buy", "Shop", "")}]}
                            [] f = "lib" -> {Lib, [Lib EXCEPT !.defs = {Class("Shop")}]}
                            [] f = "alt" -> {Alt}]
Names == [f \in F4 |-> {f}]
=============================================================================
