--------------------------- MODULE MCDMailInbound ---------------------------
EXTENDS DMailInbound
CONSTANTS alice, bob, shop, lost, paintress
Order(project) == [requester |-> alice, role |-> paintress, project |-> project]
LostAndShop == {Order(lost), Order(shop)}
=============================================================================
