------------------------------ MODULE MCSmartHome ------------------------------
EXTENDS SmartHome

light1 == <<"light1">>
motor  == <<"motor">>

OneEndpoint  == {light1}
TwoEndpoints == {light1, motor}

OneLight  == {<<light1>>}
\* The schema lets an endpoint list repeat an id.
Boards    == {<<light1, motor>>, <<motor, light1, light1>>}

================================================================================
