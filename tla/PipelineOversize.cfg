CONSTANT Ids = {i1, i2, i3}
SPECIFICATION Spec
INVARIANT RaisedBeforeStartIs5xx
